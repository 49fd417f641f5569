---------------------------- MODULE MCVmPoolList ----------------------------
(* Instances of VmPoolList; the .cfg files give the sizes.                  *)
EXTENDS VmPoolList
=============================================================================
