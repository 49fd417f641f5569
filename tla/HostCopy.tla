------------------------------ MODULE HostCopy ------------------------------
(***************************************************************************)
(* compute_copy_to_gpu and compute_copy_from_gpu of computesi.c: a         *)
(* transfer between host memory and a buffer object, which maps and copies *)
(* one fragment after the other.  The two functions differ in the          *)
(* direction of the memcpy only, so that one loop stands for both.         *)
(*                                                                         *)
(* Every caller in the repository begins at offset 0 of the object, and so *)
(* do the transfers here; start_gpu is then a multiple of the fragment     *)
(* size at each turn and local_offset is 0.                                *)
(***************************************************************************)
EXTENDS Integers

CONSTANTS
  FragBytes,  \* FRAGMENT_SIZE, in bytes
  MaxBytes    \* bound on the sizes of objects and transfers

ASSUME FragBytesAssumption == FragBytes \in Nat \ {0}
ASSUME MaxBytesAssumption  == MaxBytes \in Nat \ {0}

VARIABLES
  object,  \* the size of the buffer object
  size,    \* the size of the transfer
  i,       \* the fragment the loop is at
  start,   \* start_gpu, which is also how far the host pointer has moved
  target,  \* the source byte each byte of the target was copied from
  ret      \* how the function ended

vars == <<object, size, i, start, target, ret>>

Byte == 0 .. MaxBytes - 1
Untouched == -1

-----------------------------------------------------------------------------

Lesser(m, n) == IF m < n THEN m ELSE n

\* Fragments of the object as compute_alloc_gpu_buffer made them.
FragmentNum == (object + FragBytes - 1) \div FragBytes
FragmentSize == Lesser(FragBytes, object - i * FragBytes)

\* Fault: what is left is not less than what there was.
LocalSizeOfWhole == Lesser(size, FragBytes)

LocalSize == Lesser(size - start, FragBytes)

InLoop == ret = "running" /\ i < FragmentNum /\ LocalSize # 0

Return(code) == ret' = code /\ UNCHANGED <<object, size, i, start, target>>

\* The transfer is larger than the fragment.
TooLarge == InLoop /\ LocalSize > FragmentSize /\ Return("-1")

\* Fault: the loop goes on with the next fragment.
MapFailureSkipsFragment ==
  /\ InLoop /\ LocalSize <= FragmentSize
  /\ i' = i + 1
  /\ start' = start + LocalSize
  /\ UNCHANGED <<object, size, target, ret>>

\* GEM_MMAP is refused, or mmap fails with -3, which callers do not tell apart.
MapFails == InLoop /\ LocalSize <= FragmentSize /\ Return("-2")

CopyFragment ==
  /\ InLoop /\ LocalSize <= FragmentSize
  /\ target' = [k \in Byte |->
       IF k \in i * FragBytes .. i * FragBytes + LocalSize - 1
         THEN k - i * FragBytes + start ELSE target[k]]
  /\ i' = i + 1
  /\ start' = start + LocalSize
  /\ UNCHANGED <<object, size, ret>>

\* assert(start_gpu = size) assigns, and stops the program when size is 0.
LoopEnds ==
  /\ ret = "running"
  /\ i = FragmentNum \/ LocalSize = 0
  /\ start' = size
  /\ ret' = IF start' = 0 THEN "aborted" ELSE "0"
  /\ UNCHANGED <<object, size, i, target>>

-----------------------------------------------------------------------------

Init ==
  /\ object \in 1 .. MaxBytes
  /\ size \in 0 .. MaxBytes
  /\ i = 0
  /\ start = 0
  /\ target = [k \in Byte |-> Untouched]
  /\ ret = "running"

Next == TooLarge \/ MapFails \/ CopyFragment \/ LoopEnds

Spec == Init /\ [][Next]_vars

-----------------------------------------------------------------------------
(* Properties.                                                             *)

CopiedUpTo(n) == \A k \in Byte : target[k] = IF k < n THEN k ELSE Untouched

\* A transfer that fits into the object and returns 0 has moved each byte to its
\* place and nothing else, across all fragments.
MovesWhatFits == ret = "0" /\ size <= object => CopiedUpTo(size)

\* A transfer that reports an error has moved a prefix that ends with a fragment:
\* the caller can go on from there.
FailureLeavesPrefix == ret \in {"-1", "-2"} => CopiedUpTo(i * FragBytes)

\* What the assertion before the return means: the loop has reached the end of
\* the transfer when 0 is returned.
SuccessIsComplete == ret = "0" => CopiedUpTo(size)
=============================================================================
