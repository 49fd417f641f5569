----------------------------- MODULE MCHostCopy -----------------------------
(* Instances of HostCopy for TLC; the constants are set in the cfg files.   *)
EXTENDS HostCopy
=============================================================================
