------------------------------ MODULE MCVmPool ------------------------------
(* Model values for VmPool: three buffer objects, fragments of two pages.   *)
EXTENDS VmPool
=============================================================================
