---------------------------- MODULE MCWavefront ----------------------------
(* Wavefront with the programs of the repository. *)
EXTENDS Wavefront
=============================================================================
