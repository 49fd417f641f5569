--------------------------- MODULE HostCopyProofs ---------------------------
(***************************************************************************)
(* What a transfer between host and object moves, for every fragment size, *)
(* object and transfer, checked by TLAPS.                                  *)
(***************************************************************************)
EXTENDS HostCopy, TLAPS

Types ==
  /\ object \in Nat \ {0} /\ size \in Nat /\ i \in Nat /\ start \in Nat
  /\ i <= FragmentNum

\* While the loop runs, it has copied all bytes before start, which is where
\* fragment i begins, or the end of the transfer.
IInv ==
  /\ Types
  /\ ret = "running" => start = Lesser(i * FragBytes, size) /\ CopiedUpTo(start)
  /\ MovesWhatFits
  /\ FailureLeavesPrefix

-----------------------------------------------------------------------------

\* The fragments hold the whole object.
LEMMA FragmentsHoldObject ==
  ASSUME object \in Nat \ {0}
  PROVE  /\ FragmentNum \in Nat
         /\ object <= FragmentNum * FragBytes
<1> DEFINE x == object + FragBytes - 1
           r == x % FragBytes
<1>1. FragBytes \in Nat \ {0} /\ x \in Nat
  BY FragBytesAssumption
<1>2. /\ FragmentNum \in Int
      /\ r \in 0 .. FragBytes - 1
      /\ x = FragmentNum * FragBytes + r
  BY <1>1, SMTT(30) DEF FragmentNum
<1> QED
  BY <1>1, <1>2, SMTT(30)

\* A turn begins where its fragment begins, and moves start to the beginning of
\* the next fragment or to the end of the transfer.
LEMMA TurnArithmetic ==
  ASSUME Types, start = Lesser(i * FragBytes, size), LocalSize # 0
  PROVE  /\ start = i * FragBytes
         /\ LocalSize \in Nat
         /\ start + LocalSize = Lesser((i + 1) * FragBytes, size)
<1> DEFINE s == i * FragBytes
<1>1. FragBytes \in Nat \ {0} /\ i \in Nat /\ size \in Nat /\ start \in Nat
  BY FragBytesAssumption DEF Types
<1>2. s \in Nat /\ (i + 1) * FragBytes = s + FragBytes
  BY <1>1, SMTT(30)
<1> HIDE DEF s
<1>3. start = Lesser(s, size)
  BY DEF s
<1> QED
  <2>1. start = s
    BY <1>1, <1>2, <1>3 DEF Lesser, LocalSize
  <2>2. LocalSize \in Nat /\ start + LocalSize = Lesser(s + FragBytes, size)
    BY <2>1, <1>1, <1>2, <1>3 DEF Lesser, LocalSize
  <2> QED
    BY <2>1, <2>2, <1>2 DEF s

\* When the loop is over, it has copied a transfer that fits into the object.
LEMMA LoopEndsAtSize ==
  ASSUME Types, start = Lesser(i * FragBytes, size), size <= object,
         i = FragmentNum \/ LocalSize = 0
  PROVE  start = size
<1>1. FragBytes \in Nat \ {0} /\ size \in Nat /\ object \in Nat \ {0} /\ start \in Nat
  BY FragBytesAssumption DEF Types
<1>2. CASE LocalSize = 0
  BY <1>1, <1>2 DEF LocalSize, Lesser
<1>3. CASE i = FragmentNum
  <2> DEFINE s == i * FragBytes
  <2>1. s \in Nat /\ object <= s
    BY <1>1, <1>3, FragmentsHoldObject, SMTT(30)
  <2> HIDE DEF s
  <2>2. start = Lesser(s, size)
    BY DEF s
  <2> QED
    BY <1>1, <2>1, <2>2 DEF Lesser
<1> QED
  BY <1>2, <1>3

\* Copying a fragment makes the copied prefix longer by it.
LEMMA CopyExtendsPrefix ==
  ASSUME Types, CopiedUpTo(start), start = i * FragBytes, LocalSize \in Nat, CopyFragment
  PROVE  \A k \in Byte : target'[k] = IF k < start + LocalSize THEN k ELSE Untouched
<1> SUFFICES ASSUME NEW k \in Byte
             PROVE  target'[k] = IF k < start + LocalSize THEN k ELSE Untouched
  OBVIOUS
<1> DEFINE n == LocalSize
<1>1. k \in Nat /\ start \in Nat /\ n \in Nat
  BY MaxBytesAssumption DEF Types, Byte
<1>2. target'[k] = IF k \in start .. start + n - 1 THEN k - start + start ELSE target[k]
  BY DEF CopyFragment
<1>3. target[k] = IF k < start THEN k ELSE Untouched
  BY DEF CopiedUpTo
<1> HIDE DEF n
<1>4. target'[k] = IF k < start + n THEN k ELSE Untouched
  BY <1>1, <1>2, <1>3
<1> QED
  BY <1>4 DEF n

-----------------------------------------------------------------------------

\* Before the first turn of the copy loop nothing is copied.
LEMMA InitEstablishes == Init => IInv
<1> SUFFICES ASSUME Init PROVE IInv
  OBVIOUS
<1>1. object \in Nat \ {0} /\ size \in Nat /\ i = 0 /\ start = 0 /\ ret = "running"
  BY MaxBytesAssumption DEF Init
<1>2. FragmentNum \in Nat
  BY <1>1, FragmentsHoldObject
<1>3. 0 * FragBytes = 0
  BY FragBytesAssumption
<1>4. start = Lesser(i * FragBytes, size)
  BY <1>1, <1>3 DEF Lesser
<1>5. CopiedUpTo(start)
  BY <1>1, MaxBytesAssumption DEF Init, CopiedUpTo, Byte
<1> QED
  BY <1>1, <1>2, <1>4, <1>5 DEF IInv, Types, MovesWhatFits, FailureLeavesPrefix

\* A transfer that stops at an error does so where a fragment begins.
LEMMA ErrorKeepsInvariant ==
  ASSUME IInv, InLoop, NEW code \in {"-1", "-2"}, Return(code)
  PROVE  IInv'
<1>1. start = Lesser(i * FragBytes, size) /\ CopiedUpTo(start) /\ LocalSize # 0
  BY DEF IInv, InLoop
<1>2. start = i * FragBytes
  BY <1>1, TurnArithmetic DEF IInv
<1>3. FailureLeavesPrefix'
  BY <1>1, <1>2 DEF Return, FailureLeavesPrefix, CopiedUpTo
<1>4. Types'
  BY DEF IInv, Types, Return, FragmentNum
<1> QED
  BY <1>3, <1>4 DEF IInv, Return, MovesWhatFits

\* A turn of the loop extends the copied prefix by exactly its fragment.
LEMMA CopyKeepsInvariant == IInv /\ CopyFragment => IInv'
<1> SUFFICES ASSUME IInv, CopyFragment PROVE IInv'
  OBVIOUS
<1>1. /\ Types /\ ret = "running" /\ LocalSize # 0 /\ i < FragmentNum
      /\ start = Lesser(i * FragBytes, size) /\ CopiedUpTo(start)
  BY DEF IInv, CopyFragment, InLoop
<1>2. /\ start = i * FragBytes
      /\ LocalSize \in Nat
      /\ start + LocalSize = Lesser((i + 1) * FragBytes, size)
  BY <1>1, TurnArithmetic
<1>3. i' = i + 1 /\ start' = start + LocalSize /\ size' = size /\ object' = object /\ ret' = ret
  BY DEF CopyFragment
<1>4. start' = Lesser(i' * FragBytes, size')
  BY <1>2, <1>3 DEF Lesser
<1>5. CopiedUpTo(start)'
  BY <1>1, <1>2, <1>3, CopyExtendsPrefix DEF CopiedUpTo
<1>6. Types'
  <2>1. FragmentNum \in Nat /\ FragmentNum' = FragmentNum
    BY <1>1, <1>3, FragmentsHoldObject DEF Types, FragmentNum
  <2> QED
    BY <1>1, <1>2, <1>3, <2>1 DEF Types
<1> QED
  BY <1>1, <1>3, <1>4, <1>5, <1>6 DEF IInv, MovesWhatFits, FailureLeavesPrefix

\* The loop ends with a transfer that fits in the object copied whole, and it copies nothing more.
LEMMA EndKeepsInvariant == IInv /\ LoopEnds => IInv'
<1> SUFFICES ASSUME IInv, LoopEnds PROVE IInv'
  OBVIOUS
<1>1. /\ Types
      /\ start = Lesser(i * FragBytes, size) /\ CopiedUpTo(start)
      /\ i = FragmentNum \/ LocalSize = 0
  BY DEF IInv, LoopEnds
<1>2. /\ object' = object /\ size' = size /\ i' = i /\ target' = target /\ start' = size
      /\ ret' \in {"aborted", "0"}
  BY DEF LoopEnds
<1>3. MovesWhatFits'
  <2>1. size <= object => CopiedUpTo(size)
    BY <1>1, LoopEndsAtSize
  <2> QED
    BY <1>2, <2>1 DEF MovesWhatFits, CopiedUpTo
<1>4. Types'
  BY <1>1, <1>2 DEF Types, FragmentNum
<1> QED
  BY <1>2, <1>3, <1>4 DEF IInv, FailureLeavesPrefix

\* IInv holds in every state of every transfer.
THEOREM Invariance == Spec => []IInv
<1>1. IInv /\ [Next]_vars => IInv'
  <2> SUFFICES ASSUME IInv, [Next]_vars PROVE IInv'
    OBVIOUS
  <2>1. CASE TooLarge
    BY <2>1, ErrorKeepsInvariant DEF TooLarge
  <2>2. CASE MapFails
    BY <2>2, ErrorKeepsInvariant DEF MapFails
  <2>3. CASE CopyFragment
    BY <2>3, CopyKeepsInvariant
  <2>4. CASE LoopEnds
    BY <2>4, EndKeepsInvariant
  <2>5. CASE UNCHANGED vars
    BY <2>5 DEF vars, IInv, Types, FragmentNum, LocalSize, MovesWhatFits, FailureLeavesPrefix, CopiedUpTo
  <2> QED
    BY <2>1, <2>2, <2>3, <2>4, <2>5 DEF Next
<1> QED
  BY <1>1, InitEstablishes, PTL DEF Spec

\* A transfer that fits into the object and returns 0 has moved each byte to its
\* place and nothing else: the loop neither skips nor repeats a byte at a
\* fragment boundary.
THEOREM FittingTransfersAreExact == Spec => []MovesWhatFits
<1>1. IInv => MovesWhatFits
  BY DEF IInv
<1> QED
  BY <1>1, Invariance, PTL

\* A transfer that reports an error has moved whole fragments from the beginning
\* on, and nothing else.
THEOREM ErrorsLeaveWholeFragments == Spec => []FailureLeavesPrefix
<1>1. IInv => FailureLeavesPrefix
  BY DEF IInv
<1> QED
  BY <1>1, Invariance, PTL
=============================================================================
