------------------------------ MODULE VaSpace ------------------------------
(***************************************************************************)
(* What the virtual address pool of a compute context promises to its      *)
(* users, without saying how an address is found: every live buffer object *)
(* owns one interval of GPU pages, above the pages the driver reserves, no *)
(* two intervals meet, and an interval neither moves nor changes its size  *)
(* until the whole of it is given back.                                    *)
(***************************************************************************)
EXTENDS Integers

CONSTANTS
  Bo,        \* the buffer objects
  Reserved   \* pages [0, Reserved] belong to the driver

VARIABLE
  space      \* the intervals in use: [lo, hi, bo], hi is the page after the last

Overlap(e, f) == e.lo < f.hi /\ f.lo < e.hi

Owners == {e.bo : e \in space}

Init == space = {}

\* b receives an interval that meets no other; which one is left open.
Reserve(b) ==
  /\ b \notin Owners
  /\ \E e \in space' :
       /\ e.bo = b
       /\ e.lo < e.hi
       /\ e.lo > Reserved
       /\ \A f \in space : ~Overlap(e, f)
       /\ space' = space \cup {e}

Release(b) ==
  /\ b \in Owners
  /\ space' = {e \in space : e.bo # b}

Next == \E b \in Bo : Reserve(b) \/ Release(b)

Spec == Init /\ [][Next]_space
=============================================================================
