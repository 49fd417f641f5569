---------------------------- MODULE MCAnimation -----------------------------
(* Instances of Animation for TLC; the constants are set in the cfg.        *)
EXTENDS Animation
=============================================================================
