---------------------------- MODULE VmPoolProofs ----------------------------
(***************************************************************************)
(* What VmPool guarantees for every set of buffer objects, fragment size,  *)
(* reserved area and bound, checked by TLAPS.                              *)
(***************************************************************************)
EXTENDS VmPool, WellFoundedInduction, TLAPS

-----------------------------------------------------------------------------
(* Induction over the natural numbers for a set instead of a predicate, so *)
(* that the provers can apply it to any formula: the set of the numbers    *)
(* for which the formula holds.                                            *)

\* A set that holds 0, and with each number its successor, holds all of them.
THEOREM SetInduction ==
  ASSUME NEW S, 0 \in S, \A n \in Nat : n \in S => n + 1 \in S
  PROVE  Nat \subseteq S
<1> DEFINE T == Nat \ S
<1>1. SUFFICES ASSUME T # {} PROVE FALSE
  OBVIOUS
<1>2. \A x, y \in Nat : x < y => <<x, y>> \in OpToRel(<, Nat)
  BY DEF OpToRel
<1>3. PICK x \in T : \A y \in T : ~(<<y, x>> \in OpToRel(<, Nat))
  <2>1. T \subseteq Nat
    OBVIOUS
  <2> HIDE DEF T
  <2> QED
    BY <1>1, <2>1, WFMin, NatLessThanWellFounded
<1>4. x \in Nat /\ x # 0 /\ x \notin S
  OBVIOUS
<1>5. x - 1 \in Nat /\ x - 1 < x /\ (x - 1) + 1 = x
  BY <1>4
<1>6. x - 1 \in S
  BY <1>2, <1>3, <1>4, <1>5
<1> QED
  BY <1>4, <1>5, <1>6

\* The same up to a bound.
COROLLARY BoundedInduction ==
  ASSUME NEW S, NEW n \in Nat, 0 \in S, \A k \in 0 .. n - 1 : k \in S => k + 1 \in S
  PROVE  0 .. n \subseteq S
<1> DEFINE T == S \cup {k \in Nat : k > n}
<1>1. \A k \in Nat : k \in T => k + 1 \in T
  OBVIOUS
<1>2. 0 \in T
  OBVIOUS
<1> HIDE DEF T
<1>3. Nat \subseteq T
  BY <1>1, <1>2, SetInduction
<1> QED
  BY <1>3 DEF T

\* A set of natural numbers has a least element.
THEOREM LeastElement ==
  ASSUME NEW S, S \subseteq Nat, S # {}
  PROVE  \E n \in S : \A m \in S : n <= m
<1>1. \A x, y \in Nat : x < y => <<x, y>> \in OpToRel(<, Nat)
  BY DEF OpToRel
<1>2. PICK n \in S : \A m \in S : ~(<<m, n>> \in OpToRel(<, Nat))
  BY WFMin, NatLessThanWellFounded
<1>3. \A m \in S : ~(m < n)
  BY <1>1, <1>2
<1> QED
  BY <1>3

-----------------------------------------------------------------------------
(* Arithmetic of the fragments of one request.                             *)

\* The number of fragments is the least that holds w pages.
LEMMA FragmentNumBounds ==
  ASSUME NEW w \in Nat \ {0}
  PROVE  /\ FragmentNum(w) \in Nat \ {0}
         /\ (FragmentNum(w) - 1) * FragPages < w
         /\ w <= FragmentNum(w) * FragPages
<1> DEFINE q == FragmentNum(w)
           x == w + FragPages - 1
           r == x % FragPages
<1>1. /\ FragPages \in Nat \ {0}
      /\ x \in Nat
  BY FragPagesAssumption
<1>2. /\ q \in Int
      /\ r \in 0 .. FragPages - 1
      /\ x = q * FragPages + r
  BY <1>1, SMTT(30) DEF FragmentNum
<1> QED
  BY <1>1, <1>2, SMTT(30)

\* A fragment is not empty, lies within the request and ends where its
\* successor would begin, or earlier; the last one ends the request.
LEMMA FragmentBounds ==
  ASSUME NEW w \in Nat \ {0}, NEW i \in 0 .. FragmentNum(w) - 1
  PROVE  /\ FragmentSize(w, i) \in Nat \ {0}
         /\ i * FragPages \in Nat
         /\ i * FragPages + FragmentSize(w, i) <= w
         /\ i * FragPages + FragmentSize(w, i) <= (i + 1) * FragPages
         /\ i < FragmentNum(w) - 1 => FragmentSize(w, i) = FragPages
         /\ i = FragmentNum(w) - 1 => i * FragPages + FragmentSize(w, i) = w
<1> DEFINE q == FragmentNum(w)
<1>1. /\ FragPages \in Nat \ {0}
      /\ q \in Nat \ {0}
      /\ (q - 1) * FragPages < w
      /\ w <= q * FragPages
  BY FragPagesAssumption, FragmentNumBounds
<1> HIDE DEF q
<1>2. i \in Nat /\ i <= q - 1
  BY <1>1 DEF q
<1>3. i * FragPages \in Nat /\ i * FragPages <= (q - 1) * FragPages
  BY <1>1, <1>2, SMTT(30)
<1>4. (i + 1) * FragPages = i * FragPages + FragPages
  BY <1>1, <1>2, SMTT(30)
<1>5. i < q - 1 => (i + 1) * FragPages <= (q - 1) * FragPages
  BY <1>1, <1>2, SMTT(30)
<1>6. i = q - 1 => (i + 1) * FragPages = q * FragPages
  BY <1>1, <1>2
<1> DEFINE m == i * FragPages
           m1 == (i + 1) * FragPages
           last == (q - 1) * FragPages
           all == q * FragPages
<1>7. all \in Int /\ last \in Int /\ m1 \in Int
  BY <1>1, <1>2, SMTT(30)
<1>8. FragmentSize(w, i) = IF m1 <= w THEN FragPages ELSE w - m
  BY DEF FragmentSize
<1> HIDE DEF m, m1, last, all
<1>9. /\ m \in Nat /\ m <= last /\ m1 = m + FragPages /\ last < w /\ w <= all
      /\ (i < q - 1 => m1 <= last)
      /\ (i = q - 1 => m1 = all)
  BY <1>1, <1>3, <1>4, <1>5, <1>6 DEF m, m1, last, all
<1>10. /\ FragmentSize(w, i) \in Nat \ {0}
       /\ m + FragmentSize(w, i) <= w
       /\ m + FragmentSize(w, i) <= m1
       /\ i < q - 1 => FragmentSize(w, i) = FragPages
       /\ i = q - 1 => m + FragmentSize(w, i) = w
  BY <1>1, <1>7, <1>8, <1>9
<1> QED
  BY <1>10, <1>9 DEF m, m1, q

\* A request of one fragment is given a node of exactly its size.
LEMMA SingleFragment ==
  ASSUME NEW w \in Nat \ {0}, FragmentNum(w) = 1
  PROVE  FragmentSize(w, 0) = w
<1>1. 0 \in 0 .. FragmentNum(w) - 1
  OBVIOUS
<1>2. 0 * FragPages = 0
  BY FragPagesAssumption
<1>3. FragmentSize(w, 0) \in Nat
  BY <1>1, FragmentBounds
<1>4. 0 * FragPages + FragmentSize(w, 0) = w
  BY <1>1, FragmentBounds
<1> QED
  BY <1>2, <1>3, <1>4

\* Two fragments of one request do not meet.
LEMMA FragmentsApart ==
  ASSUME NEW w \in Nat \ {0},
         NEW i \in 0 .. FragmentNum(w) - 1, NEW j \in 0 .. FragmentNum(w) - 1,
         i < j
  PROVE  i * FragPages + FragmentSize(w, i) <= j * FragPages
<1>1. FragPages \in Nat \ {0} /\ FragmentNum(w) \in Nat
  BY FragPagesAssumption, FragmentNumBounds
<1>2. (i + 1) * FragPages <= j * FragPages
  BY <1>1, SMTT(30)
<1>3. /\ FragmentSize(w, i) \in Nat
      /\ i * FragPages \in Nat
      /\ i * FragPages + FragmentSize(w, i) <= (i + 1) * FragPages
  BY FragmentBounds
<1>4. (i + 1) * FragPages \in Int /\ j * FragPages \in Int
  BY <1>1, SMTT(30)
<1> QED
  BY <1>2, <1>3, <1>4

\* Every page of a request belongs to one of its fragments.
LEMMA PageCovered ==
  ASSUME NEW w \in Nat \ {0}, NEW p \in 0 .. w - 1
  PROVE  \E i \in 0 .. FragmentNum(w) - 1 :
           i * FragPages <= p /\ p < i * FragPages + FragmentSize(w, i)
<1> DEFINE i == p \div FragPages
<1>1. FragPages \in Nat \ {0} /\ FragmentNum(w) \in Nat \ {0}
      /\ w <= FragmentNum(w) * FragPages
  BY FragPagesAssumption, FragmentNumBounds
<1>2. i \in Nat /\ i * FragPages <= p /\ p < (i + 1) * FragPages
  BY <1>1, SMTT(30)
<1>3. i < FragmentNum(w)
  <2> DEFINE q == FragmentNum(w)
  <2> HIDE DEF i, q
  <2>1. q \in Nat /\ p < q * FragPages
    BY <1>1 DEF q
  <2>2. i >= q => i * FragPages >= q * FragPages
    BY <1>1, <1>2, <2>1, SMTT(30)
  <2>3. i * FragPages \in Int /\ q * FragPages \in Int
    BY <1>1, <1>2, <2>1, SMTT(30)
  <2> QED
    BY <1>2, <2>1, <2>2, <2>3 DEF q
<1>4. p < i * FragPages + FragmentSize(w, i)
  <2> HIDE DEF i
  <2>1. /\ i * FragPages \in Int
        /\ (i + 1) * FragPages \in Int
        /\ (i + 1) * FragPages = i * FragPages + FragPages
    BY <1>1, <1>2, SMTT(30)
  <2> QED
    BY <1>1, <1>2, <2>1 DEF FragmentSize
<1> QED
  BY <1>1, <1>2, <1>3, <1>4
-----------------------------------------------------------------------------
(* Placing a request in a range that no node of the list meets.            *)

\* The array of b occupies w pages from base on, and nothing else.
Block(nodes, b, base, w) ==
  /\ base \in Nat
  /\ base > Reserved
  /\ w \in Nat \ {0}
  /\ NodesOf(nodes, b) = Fragments(b, base, w)

\* The nodes of the pool are those of whole arrays.
WholeBlocks == \A b \in Live : \E base, w \in Nat : Block(pool, b, base, w)

\* The driver's area lies below every node.
AboveReserved == \A n \in pool : n.va > Reserved

\* Every node is a non-empty page range of an array.
ListTypeOK == pool \subseteq Node /\ headParent \in Bo \cup {NullBo}

\* The inductive invariant.
PoolInv == ListTypeOK /\ AboveReserved /\ Disjoint /\ WholeBlocks

\* The range of w pages from base on is free.
Free(base, w) == \A q \in List : End(q) <= base \/ base + w <= q.va

\* The types and bounds of the nodes of one request.
LEMMA FragmentNodes ==
  ASSUME NEW b \in Bo, NEW base \in Nat, NEW w \in Nat \ {0},
         NEW n \in Fragments(b, base, w)
  PROVE  /\ n \in Node
         /\ n.parent = b
         /\ base <= n.va
         /\ End(n) <= base + w
         /\ n.frag \in 0 .. FragmentNum(w) - 1
         /\ n = Fragment(b, base, w, n.frag)
<1>1. PICK i \in 0 .. FragmentNum(w) - 1 : n = Fragment(b, base, w, i)
  BY DEF Fragments
<1>2. /\ FragmentSize(w, i) \in Nat \ {0}
      /\ i * FragPages \in Nat
      /\ i * FragPages + FragmentSize(w, i) <= w
  BY FragmentBounds
<1>3. /\ n.va = base + i * FragPages
      /\ n.size = FragmentSize(w, i)
      /\ n.parent = b
      /\ n.frag = i
  BY <1>1 DEF Fragment
<1>4. i \in Nat
  BY FragmentNumBounds
<1>5. n \in Node
  BY <1>1, <1>2, <1>4 DEF Fragment, Node
<1>6. base <= n.va /\ End(n) <= base + w
  BY <1>2, <1>3 DEF End
<1> QED
  BY <1>1, <1>3, <1>5, <1>6

\* The nodes of one request do not meet.
LEMMA FragmentNodesApart ==
  ASSUME NEW b \in Bo, NEW base \in Nat, NEW w \in Nat \ {0},
         NEW m \in Fragments(b, base, w), NEW n \in Fragments(b, base, w), m # n
  PROVE  End(m) <= n.va \/ End(n) <= m.va
<1>1. PICK i \in 0 .. FragmentNum(w) - 1 : m = Fragment(b, base, w, i)
  BY DEF Fragments
<1>2. PICK j \in 0 .. FragmentNum(w) - 1 : n = Fragment(b, base, w, j)
  BY DEF Fragments
<1>3. FragmentNum(w) \in Nat
  BY FragmentNumBounds
<1>4. /\ i * FragPages \in Nat /\ FragmentSize(w, i) \in Nat
      /\ j * FragPages \in Nat /\ FragmentSize(w, j) \in Nat
  BY FragmentBounds
<1>5. /\ End(m) = base + i * FragPages + FragmentSize(w, i)
      /\ m.va = base + i * FragPages
      /\ End(n) = base + j * FragPages + FragmentSize(w, j)
      /\ n.va = base + j * FragPages
  BY <1>1, <1>2 DEF End, Fragment
<1>6. CASE i < j
  <2>1. i * FragPages + FragmentSize(w, i) <= j * FragPages
    BY <1>6, FragmentsApart
  <2> QED
    BY <2>1, <1>4, <1>5
<1>7. CASE j < i
  <2>1. j * FragPages + FragmentSize(w, j) <= i * FragPages
    BY <1>7, FragmentsApart
  <2> QED
    BY <2>1, <1>4, <1>5
<1>8. i # j
  BY <1>1, <1>2
<1> QED
  BY <1>3, <1>6, <1>7, <1>8

\* Every node of the list, the first included, is a non-empty range.
LEMMA ListNodes ==
  ASSUME ListTypeOK
  PROVE  \A n \in List : n.va \in Nat /\ n.size \in Nat \ {0} /\ End(n) \in Nat /\ n.va < End(n)
<1>1. \A n \in pool : n.va \in Nat /\ n.size \in Nat \ {0}
  BY DEF ListTypeOK, Node
<1>2. First.va \in Nat /\ First.size \in Nat \ {0}
  BY ReservedAssumption DEF First
<1> QED
  BY <1>1, <1>2 DEF List, End

\* Both ways of placing a request put it into a free range.
LEMMA AllocatesFreeRange ==
  ASSUME PoolInv, NEW b \in Bo, NEW w \in 1 .. MaxPages, NEW a \in Alignments,
         compute_pool_alloc(b, w, a)
  PROVE  \E base \in Nat : /\ base > Reserved
                           /\ Free(base, w)
                           /\ pool' = pool \cup Fragments(b, base, w)
<1>1. w \in Nat \ {0}
  BY MaxPagesAssumption
<1>2. \A n \in List : n.va \in Nat /\ n.size \in Nat \ {0} /\ End(n) \in Nat /\ n.va < End(n)
  BY ListNodes DEF PoolInv
<1>3. \A n \in List : End(n) > Reserved
  BY <1>2, ReservedAssumption DEF PoolInv, AboveReserved, List, First, End
<1>4. ASSUME AllocInGap(b, w, a)
      PROVE  \E base \in Nat : /\ base > Reserved
                               /\ Free(base, w)
                               /\ pool' = pool \cup Fragments(b, base, w)
  <2>1. PICK n \in List : /\ FirstFit(n, w)
                          /\ pool' = pool \cup Fragments(b, End(n), w)
    BY <1>4 DEF AllocInGap
  <2>2. PICK m \in List : IsNext(n, m) /\ m.va - End(n) > w
    BY <2>1 DEF FirstFit, FitsAfter
  <2>3. ASSUME NEW q \in List
        PROVE  End(q) <= End(n) \/ End(n) + w <= q.va
    <3>1. CASE q.va <= n.va
      BY <3>1, <1>2 DEF PoolInv, Disjoint
    <3>2. CASE q.va > n.va
      <4>1. ~(q.va < m.va)
        BY <3>2, <2>2, <1>2 DEF IsNext
      <4> QED
        BY <4>1, <2>2, <1>1, <1>2
    <3> QED
      BY <3>1, <3>2, <1>2
  <2> QED
    BY <2>1, <2>3, <1>2, <1>3 DEF Free
<1>5. ASSUME AllocAtTail(b, w, a)
      PROVE  \E base \in Nat : /\ base > Reserved
                               /\ Free(base, w)
                               /\ pool' = pool \cup Fragments(b, base, w)
  <2>1. PICK n \in List : /\ IsLast(n)
                          /\ pool' = pool \cup Fragments(b, End(n), w)
    BY <1>5 DEF AllocAtTail
  <2>2. ASSUME NEW q \in List
        PROVE  End(q) <= End(n)
    <3>1. q.va <= n.va
      BY <2>1 DEF IsLast
    <3> QED
      BY <3>1, <1>2 DEF PoolInv, Disjoint
  <2> QED
    BY <2>1, <2>2, <1>2, <1>3 DEF Free
<1> QED
  BY <1>4, <1>5 DEF compute_pool_alloc

\* Linking the nodes of one more array keeps the invariant.
LEMMA AllocKeepsInvariant ==
  ASSUME PoolInv, NEW b \in Bo, NEW w \in 1 .. MaxPages, NEW a \in Alignments,
         compute_pool_alloc(b, w, a)
  PROVE  PoolInv'
<1>1. PICK base \in Nat : /\ base > Reserved
                          /\ Free(base, w)
                          /\ pool' = pool \cup Fragments(b, base, w)
  BY AllocatesFreeRange
<1>2. w \in Nat \ {0}
  BY MaxPagesAssumption
<1>3. UNCHANGED <<headParent, status>> /\ b \notin Live
  BY DEF compute_pool_alloc
<1>4. \A n \in Fragments(b, base, w) :
        /\ n \in Node /\ n.parent = b /\ base <= n.va /\ End(n) <= base + w
        /\ n.va \in Nat /\ End(n) \in Nat
  BY <1>2, FragmentNodes DEF Node, End
<1>5. ListTypeOK'
  BY <1>1, <1>3, <1>4 DEF PoolInv, ListTypeOK
<1>6. AboveReserved'
  BY <1>1, <1>4, ReservedAssumption DEF PoolInv, AboveReserved
<1>7. Disjoint'
  <2>1. List' = List \cup Fragments(b, base, w)
    BY <1>1, <1>3 DEF List, First
  <2>2. \A n \in List : n.va \in Nat /\ End(n) \in Nat
    BY ListNodes DEF PoolInv
  <2>3. ASSUME NEW m \in List', NEW n \in List', m # n
        PROVE  End(m) <= n.va \/ End(n) <= m.va
    <3>1. CASE m \in List /\ n \in List
      BY <3>1, <2>3 DEF PoolInv, Disjoint
    <3>2. CASE m \in List /\ n \in Fragments(b, base, w)
      BY <3>2, <1>1, <1>2, <1>4, <2>2 DEF Free
    <3>3. CASE m \in Fragments(b, base, w) /\ n \in List
      BY <3>3, <1>1, <1>2, <1>4, <2>2 DEF Free
    <3>4. CASE m \in Fragments(b, base, w) /\ n \in Fragments(b, base, w)
      BY <3>4, <2>3, <1>2, FragmentNodesApart
    <3> QED
      BY <2>1, <3>1, <3>2, <3>3, <3>4
  <2> QED
    BY <2>3 DEF Disjoint, End
<1>8. WholeBlocks'
  <2>1. ASSUME NEW c \in Live'
        PROVE  \E base2, w2 \in Nat : Block(pool', c, base2, w2)
    <3>1. CASE c = b
      <4>1. NodesOf(pool', b) = Fragments(b, base, w)
        BY <1>1, <1>3, <1>4 DEF NodesOf, Live
      <4>2. Block(pool', b, base, w)
        BY <4>1, <1>1, <1>2 DEF Block
      <4> QED
        BY <3>1, <4>2, <1>2
    <3>2. CASE c # b
      <4>1. c \in Live
        BY <3>2, <1>1, <1>4 DEF Live
      <4>2. NodesOf(pool', c) = NodesOf(pool, c)
        BY <3>2, <1>1, <1>4 DEF NodesOf
      <4>3. PICK base2, w2 \in Nat : Block(pool, c, base2, w2)
        BY <4>1 DEF PoolInv, WholeBlocks
      <4>4. Block(pool', c, base2, w2)
        BY <4>2, <4>3 DEF Block
      <4> QED
        BY <4>4
    <3> QED
      BY <3>1, <3>2
  <2> QED
    BY <2>1 DEF WholeBlocks
<1> QED
  BY <1>5, <1>6, <1>7, <1>8 DEF PoolInv

\* Unlinking an array, or failing to, keeps the invariant.
LEMMA FreeKeepsInvariant ==
  ASSUME PoolInv, NEW b \in Bo, compute_pool_free(b)
  PROVE  PoolInv'
<1>1. CASE headParent = b
  <2>1. pool' = pool /\ headParent' = headParent /\ status' = "crashed"
    BY <1>1 DEF compute_pool_free
  <2> QED
    BY <2>1 DEF PoolInv, ListTypeOK, AboveReserved, Disjoint, List, First, WholeBlocks, Live
<1>2. CASE headParent # b
  <2>1. /\ pool' = {n \in pool : n.parent # b}
        /\ headParent' = headParent
        /\ status' = status
    BY <1>2 DEF compute_pool_free
  <2>2. ListTypeOK' /\ AboveReserved'
    BY <2>1 DEF PoolInv, ListTypeOK, AboveReserved
  <2>3. Disjoint'
    <3>1. List' \subseteq List
      BY <2>1 DEF List, First
    <3> QED
      BY <3>1 DEF PoolInv, Disjoint
  <2>4. WholeBlocks'
    <3>1. ASSUME NEW c \in Live'
          PROVE  \E base2, w2 \in Nat : Block(pool', c, base2, w2)
      <4>1. c \in Live /\ NodesOf(pool', c) = NodesOf(pool, c)
        BY <2>1 DEF Live, NodesOf
      <4>2. PICK base2, w2 \in Nat : Block(pool, c, base2, w2)
        BY <4>1 DEF PoolInv, WholeBlocks
      <4>3. Block(pool', c, base2, w2)
        BY <4>1, <4>2 DEF Block
      <4> QED
        BY <4>3
    <3> QED
      BY <3>1 DEF WholeBlocks
  <2> QED
    BY <2>2, <2>3, <2>4 DEF PoolInv
<1> QED
  BY <1>1, <1>2

\* The inductive invariant holds in every state of the pool.
THEOREM PoolInvariance == PoolSpec => []PoolInv
<1>1. PoolInit => PoolInv
  <2> SUFFICES ASSUME PoolInit PROVE PoolInv
    OBVIOUS
  <2>1. pool = {} /\ headParent \in Bo \cup {NullBo} /\ status = "running"
    BY ResiduesAssumption DEF PoolInit
  <2> QED
    BY <2>1 DEF PoolInv, ListTypeOK, AboveReserved, Disjoint, List, WholeBlocks, Live
<1>2. PoolInv /\ [PoolNext]_poolVars => PoolInv'
  <2> SUFFICES ASSUME PoolInv, [PoolNext]_poolVars PROVE PoolInv'
    OBVIOUS
  <2>1. ASSUME NEW b \in Bo, NEW w \in 1 .. MaxPages, NEW a \in Alignments,
               compute_pool_alloc(b, w, a)
        PROVE  PoolInv'
    BY <2>1, AllocKeepsInvariant
  <2>2. ASSUME NEW b \in Bo, compute_pool_free(b)
        PROVE  PoolInv'
    BY <2>2, FreeKeepsInvariant
  <2>3. CASE UNCHANGED poolVars
    BY <2>3 DEF poolVars, PoolInv, ListTypeOK, AboveReserved, Disjoint, List, First, WholeBlocks, Live
  <2> QED
    BY <2>1, <2>2, <2>3 DEF PoolNext
<1> QED
  BY <1>1, <1>2, PTL DEF PoolSpec

\* The state keeps its shape: every linked node is a non-empty page range of
\* an array the caller holds.
THEOREM PoolTypeCorrect == PoolSpec => []PoolTypeOK
<1> DEFINE StatusOK == status \in {"running", "crashed"}
<1>1. PoolInit => StatusOK
  BY DEF PoolInit
<1>2. StatusOK /\ [PoolNext]_poolVars => StatusOK'
  BY DEF PoolNext, poolVars, compute_pool_alloc, compute_pool_free
<1>3. PoolInv /\ StatusOK => PoolTypeOK
  BY DEF PoolInv, ListTypeOK, PoolTypeOK
<1> QED
  BY <1>1, <1>2, <1>3, PoolInvariance, PTL DEF PoolSpec

\* No two nodes of the list share a page, whatever the order in which arrays
\* were allocated and freed.
THEOREM NoOverlap == PoolSpec => []Disjoint
BY PoolInvariance, PTL DEF PoolInv
-----------------------------------------------------------------------------
(* What follows from the invariant.                                        *)

\* A linked node belongs to the block of its array.
LEMMA NodeOfBlock ==
  ASSUME PoolInv, NEW n \in pool
  PROVE  /\ n.parent \in Live
         /\ n.parent \in Bo
         /\ \E base, w \in Nat : Block(pool, n.parent, base, w) /\ n \in Fragments(n.parent, base, w)
<1>1. n.parent \in Live /\ n.parent \in Bo
  BY DEF Live, PoolInv, ListTypeOK, Node
<1>2. PICK base, w \in Nat : Block(pool, n.parent, base, w)
  BY <1>1 DEF PoolInv, WholeBlocks
<1>3. n \in Fragments(n.parent, base, w)
  BY <1>2 DEF Block, NodesOf
<1> QED
  BY <1>1, <1>2, <1>3

\* The invariant gives every fragment but the main one its predecessor.
LEMMA InvariantContiguous == PoolInv => FragmentsContiguous
<1> SUFFICES ASSUME PoolInv, NEW n \in pool, n.frag > 0
             PROVE  \E m \in pool : m.parent = n.parent /\ m.frag = n.frag - 1 /\ End(m) = n.va
  BY DEF FragmentsContiguous
<1> DEFINE b == n.parent
<1>1. PICK base, w \in Nat : Block(pool, b, base, w) /\ n \in Fragments(b, base, w)
  BY NodeOfBlock
<1>2. w \in Nat \ {0} /\ NodesOf(pool, b) = Fragments(b, base, w)
  BY <1>1 DEF Block
<1>3. PICK i \in 0 .. FragmentNum(w) - 1 : n = Fragment(b, base, w, i)
  BY <1>1 DEF Fragments
<1>4. i > 0 /\ n.frag = i /\ n.va = base + i * FragPages
  BY <1>3 DEF Fragment
<1> DEFINE m == Fragment(b, base, w, i - 1)
<1>5. i - 1 \in 0 .. FragmentNum(w) - 1 /\ i - 1 < FragmentNum(w) - 1
  BY <1>2, <1>4, FragmentNumBounds
<1>6. m \in pool
  BY <1>2, <1>5 DEF Fragments, NodesOf
<1>7. FragmentSize(w, i - 1) = FragPages /\ (i - 1) * FragPages \in Nat
  BY <1>2, <1>5, FragmentBounds
<1>8. i * FragPages = (i - 1) * FragPages + FragPages
  BY <1>5, FragPagesAssumption, SMTT(30)
<1>9. m.parent = b /\ m.frag = i - 1 /\ End(m) = base + (i - 1) * FragPages + FragPages
  BY <1>7 DEF Fragment, End
<1>10. End(m) = n.va
  <2> DEFINE before == (i - 1) * FragPages
  <2> HIDE DEF m, before
  <2>1. /\ before \in Nat
        /\ i * FragPages = before + FragPages
        /\ End(m) = base + before + FragPages
    BY <1>7, <1>8, <1>9 DEF before
  <2> QED
    BY <2>1, <1>4, FragPagesAssumption
<1> QED
  BY <1>4, <1>6, <1>9, <1>10

\* No fragment but a main one can come first: its predecessor would lie between.
LEMMA InvariantFirstIsMain == PoolInv => FirstIsMain
<1> SUFFICES ASSUME PoolInv, NEW m \in pool, IsNext(First, m), m.frag # 0
             PROVE  FALSE
  BY DEF FirstIsMain
<1>1. m.frag > 0
  BY DEF PoolInv, ListTypeOK, Node
<1>2. PICK p \in pool : End(p) = m.va
  BY <1>1, InvariantContiguous DEF FragmentsContiguous
<1>3. p.va < m.va /\ p.va > Reserved
  BY <1>2 DEF PoolInv, ListTypeOK, Node, End, AboveReserved
<1>4. First.va < p.va
  BY <1>3, ReservedAssumption DEF First, PoolInv, ListTypeOK, Node
<1> QED
  BY <1>3, <1>4 DEF IsNext, List

\* The fragments of a buffer object form one linear range of addresses in every
\* reachable state.
THEOREM Contiguous == PoolSpec => []FragmentsContiguous
BY PoolInvariance, InvariantContiguous, PTL

\* compute_free_context always finds the start of an array behind the first node.
THEOREM DrainFreesWholeArrays == PoolSpec => []FirstIsMain
BY PoolInvariance, InvariantFirstIsMain, PTL

-----------------------------------------------------------------------------
(* Refinement of the address space specification.                          *)

\* The interval of a block runs over all its pages.
LEMMA IntervalOfBlock ==
  ASSUME NEW nodes, NEW b \in Bo, NEW base \in Nat, NEW w \in Nat,
         Block(nodes, b, base, w)
  PROVE  Interval(nodes, b) = [lo |-> base, hi |-> base + w, bo |-> b]
<1> DEFINE last == FragmentNum(w) - 1
<1>1. w \in Nat \ {0} /\ NodesOf(nodes, b) = Fragments(b, base, w)
  BY DEF Block
<1>2. FragmentNum(w) \in Nat \ {0}
  BY <1>1, FragmentNumBounds
<1>3. 0 \in 0 .. last /\ last \in 0 .. last
  BY <1>2
<1>4. \A n \in Fragments(b, base, w) :
        n.frag \in 0 .. last /\ n = Fragment(b, base, w, n.frag)
  BY <1>1, FragmentNodes
<1>5. \A i \in 0 .. last : /\ Fragment(b, base, w, i) \in Fragments(b, base, w)
                           /\ Fragment(b, base, w, i).frag = i
  BY DEF Fragments, Fragment
<1>6. MainOf(nodes, b) = Fragment(b, base, w, 0)
  <2>1. \A n \in NodesOf(nodes, b) : n.frag = 0 <=> n = Fragment(b, base, w, 0)
    BY <1>1, <1>3, <1>4, <1>5
  <2>2. Fragment(b, base, w, 0) \in NodesOf(nodes, b)
    BY <1>1, <1>3, <1>5
  <2> QED
    BY <2>1, <2>2 DEF MainOf
<1>7. LastOf(nodes, b) = Fragment(b, base, w, last)
  <2> DEFINE Max(n) == \A m \in NodesOf(nodes, b) : m.frag <= n.frag
  <2>1. Fragment(b, base, w, last) \in NodesOf(nodes, b)
    BY <1>1, <1>3, <1>5
  <2>2. Max(Fragment(b, base, w, last))
    BY <1>1, <1>2, <1>3, <1>4, <1>5
  <2>3. ASSUME NEW n \in NodesOf(nodes, b), Max(n)
        PROVE  n = Fragment(b, base, w, last)
    <3>1. last <= n.frag
      BY <2>1, <2>3, <1>3, <1>5
    <3>2. n.frag \in 0 .. last /\ n = Fragment(b, base, w, n.frag)
      BY <1>1, <1>4
    <3>3. n.frag = last
      BY <3>1, <3>2, <1>2
    <3> QED
      BY <3>2, <3>3
  <2> QED
    BY <2>1, <2>2, <2>3 DEF LastOf
<1>8. Fragment(b, base, w, 0).va = base
  BY FragPagesAssumption DEF Fragment
<1>9. End(Fragment(b, base, w, last)) = base + w
  <2>1. /\ last * FragPages + FragmentSize(w, last) = w
        /\ last * FragPages \in Nat /\ FragmentSize(w, last) \in Nat
    BY <1>1, <1>3, FragmentBounds
  <2>2. End(Fragment(b, base, w, last)) = base + last * FragPages + FragmentSize(w, last)
    BY DEF End, Fragment
  <2> QED
    BY <2>1, <2>2
<1> QED
  BY <1>6, <1>7, <1>8, <1>9 DEF Interval

\* A free range meets no interval: the page where they would meet is in a node.
LEMMA FreeRangeMeetsNoBlock ==
  ASSUME PoolInv, NEW c \in Bo, NEW base2 \in Nat, NEW w2 \in Nat, Block(pool, c, base2, w2),
         NEW base \in Nat, NEW w \in Nat \ {0}, Free(base, w)
  PROVE  ~(base < base2 + w2 /\ base2 < base + w)
<1> SUFFICES ASSUME base < base2 + w2, base2 < base + w PROVE FALSE
  OBVIOUS
<1> DEFINE p == (IF base < base2 THEN base2 ELSE base) - base2
<1>1. w2 \in Nat \ {0} /\ NodesOf(pool, c) = Fragments(c, base2, w2)
  BY DEF Block
<1>2. p \in 0 .. w2 - 1
  BY <1>1
<1>3. PICK i \in 0 .. FragmentNum(w2) - 1 :
        i * FragPages <= p /\ p < i * FragPages + FragmentSize(w2, i)
  BY <1>1, <1>2, PageCovered
<1> DEFINE q == Fragment(c, base2, w2, i)
<1>4. q \in List
  BY <1>1 DEF Fragments, NodesOf, List
<1>5. i * FragPages \in Nat /\ FragmentSize(w2, i) \in Nat
  BY <1>1, FragmentBounds
<1>6. q.va = base2 + i * FragPages /\ End(q) = base2 + i * FragPages + FragmentSize(w2, i)
  BY DEF Fragment, End
<1>7. End(q) <= base \/ base + w <= q.va
  BY <1>4 DEF Free
<1> QED
  BY <1>1, <1>2, <1>3, <1>5, <1>6, <1>7

\* Only the block of b changes when b's array is linked or unlinked.
LEMMA OtherIntervals ==
  ASSUME NEW nodes1, NEW nodes2, NEW c, NodesOf(nodes1, c) = NodesOf(nodes2, c)
  PROVE  Interval(nodes1, c) = Interval(nodes2, c)
BY DEF Interval, MainOf, LastOf

\* The intervals of the live arrays.
Intervals == {Interval(pool, b) : b \in Live}

\* Each live array owns the interval of its block.
LEMMA LiveInterval ==
  ASSUME PoolInv, NEW c \in Live
  PROVE  \E base, w \in Nat : /\ Block(pool, c, base, w)
                              /\ Interval(pool, c) = [lo |-> base, hi |-> base + w, bo |-> c]
<1>1. c \in Bo
  BY DEF Live, PoolInv, ListTypeOK, Node
<1>2. PICK base, w \in Nat : Block(pool, c, base, w)
  BY DEF PoolInv, WholeBlocks
<1> QED
  BY <1>1, <1>2, IntervalOfBlock

\* The owners of the intervals are the live arrays.
LEMMA OwnersAreLive ==
  ASSUME PoolInv
  PROVE  /\ {e.bo : e \in Intervals} = Live
         /\ \A c \in Live : Interval(pool, c).bo = c
<1>1. \A c \in Live : Interval(pool, c).bo = c
  BY DEF Interval
<1> QED
  BY <1>1 DEF Intervals

\* Allocation reserves one interval that meets no other.
LEMMA AllocReserves ==
  ASSUME PoolInv, NEW b \in Bo, NEW w \in 1 .. MaxPages, NEW a \in Alignments,
         compute_pool_alloc(b, w, a)
  PROVE  Space!Reserve(b)
<1>1. PICK base \in Nat : /\ base > Reserved
                          /\ Free(base, w)
                          /\ pool' = pool \cup Fragments(b, base, w)
  BY AllocatesFreeRange
<1>2. w \in Nat \ {0}
  BY MaxPagesAssumption
<1>3. b \notin Live
  BY DEF compute_pool_alloc
<1>4. \A n \in Fragments(b, base, w) : n.parent = b
  BY <1>2, FragmentNodes
<1>5. Block(pool', b, base, w)
  BY <1>1, <1>2, <1>3, <1>4 DEF NodesOf, Live, Block
<1> DEFINE e == [lo |-> base, hi |-> base + w, bo |-> b]
<1>6. Interval(pool', b) = e
  BY <1>2, <1>5, IntervalOfBlock
<1>7. Live' = Live \cup {b}
  <2>1. 0 \in 0 .. FragmentNum(w) - 1
    BY <1>2, FragmentNumBounds
  <2>2. Fragment(b, base, w, 0) \in Fragments(b, base, w)
    BY <2>1 DEF Fragments
  <2> QED
    BY <2>2, <1>1, <1>4 DEF Live
<1>8. \A c \in Live : Interval(pool', c) = Interval(pool, c)
  <2>1. \A c \in Live : NodesOf(pool', c) = NodesOf(pool, c)
    BY <1>1, <1>3, <1>4 DEF NodesOf
  <2> QED
    BY <2>1, OtherIntervals
<1>9. Intervals' = Intervals \cup {e}
  BY <1>6, <1>7, <1>8 DEF Intervals
<1>10. \A f \in Intervals : ~Space!Overlap(e, f)
  <2>1. ASSUME NEW c \in Live
        PROVE  ~Space!Overlap(e, Interval(pool, c))
    <3>1. PICK base2, w2 \in Nat :
             /\ Block(pool, c, base2, w2)
             /\ Interval(pool, c) = [lo |-> base2, hi |-> base2 + w2, bo |-> c]
      BY LiveInterval
    <3>2. c \in Bo
      BY DEF Live, PoolInv, ListTypeOK, Node
    <3>3. ~(base < base2 + w2 /\ base2 < base + w)
      BY <1>1, <1>2, <3>1, <3>2, FreeRangeMeetsNoBlock
    <3> QED
      BY <3>1, <3>3 DEF Space!Overlap
  <2> QED
    BY <2>1 DEF Intervals
<1>11. b \notin {f.bo : f \in Intervals}
  BY <1>3, OwnersAreLive
<1>12. /\ e \in Intervals' /\ e.bo = b /\ e.lo < e.hi /\ e.lo > Reserved
  BY <1>1, <1>2, <1>9
<1> QED
  BY <1>9, <1>10, <1>11, <1>12 DEF Space!Reserve, Space!Owners, Intervals

\* Unlinking an array releases its interval; crashing instead changes none.
LEMMA FreeReleases ==
  ASSUME PoolInv, NEW b \in Bo, compute_pool_free(b)
  PROVE  Space!Release(b) \/ UNCHANGED Intervals
<1>1. CASE headParent = b
  BY <1>1 DEF compute_pool_free, Intervals, Live
<1>2. CASE headParent # b
  <2>1. b \in Live /\ pool' = {n \in pool : n.parent # b}
    BY <1>2 DEF compute_pool_free
  <2>2. Live' = Live \ {b}
    BY <2>1 DEF Live
  <2>3. \A c \in Live' : Interval(pool', c) = Interval(pool, c)
    <3>1. \A c \in Live' : NodesOf(pool', c) = NodesOf(pool, c)
      BY <2>1, <2>2 DEF NodesOf
    <3> QED
      BY <3>1, OtherIntervals
  <2>4. Intervals' = {Interval(pool, c) : c \in Live \ {b}}
    BY <2>2, <2>3 DEF Intervals
  <2>5. \A c \in Live : Interval(pool, c).bo = c
    BY OwnersAreLive
  <2>6. Intervals' = {e \in Intervals : e.bo # b}
    BY <2>4, <2>5 DEF Intervals
  <2>7. b \in {e.bo : e \in Intervals}
    BY <2>1, OwnersAreLive
  <2> QED
    BY <2>6, <2>7 DEF Space!Release, Space!Owners, Intervals
<1> QED
  BY <1>1, <1>2

\* The pool implements the address space specification: whatever the order of
\* requests, an array receives one interval that meets no other, and keeps it
\* unchanged until it gives all of it back.
THEOREM PoolRefinement == PoolSpec => ImplementsVaSpace
<1>1. PoolInit => Space!Init
  BY DEF PoolInit, Space!Init, Live
<1>2. PoolInv /\ [PoolNext]_poolVars => [Space!Next]_Intervals
  <2> SUFFICES ASSUME PoolInv, [PoolNext]_poolVars PROVE [Space!Next]_Intervals
    OBVIOUS
  <2>1. ASSUME NEW b \in Bo, NEW w \in 1 .. MaxPages, NEW a \in Alignments,
               compute_pool_alloc(b, w, a)
        PROVE  Space!Next
    BY <2>1, AllocReserves DEF Space!Next
  <2>2. ASSUME NEW b \in Bo, compute_pool_free(b)
        PROVE  [Space!Next]_Intervals
    BY <2>2, FreeReleases DEF Space!Next
  <2>3. CASE UNCHANGED poolVars
    BY <2>3 DEF poolVars, Intervals, Live
  <2> QED
    BY <2>1, <2>2, <2>3 DEF PoolNext
<1> QED
  BY <1>1, <1>2, PoolInvariance, PTL DEF PoolSpec, ImplementsVaSpace, Space!Spec, Intervals
=============================================================================
