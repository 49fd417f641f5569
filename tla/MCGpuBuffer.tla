---------------------------- MODULE MCGpuBuffer ----------------------------
(* Instances of GpuBuffer; the .cfg files give the sizes.                   *)
EXTENDS GpuBuffer
=============================================================================
