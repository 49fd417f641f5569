----------------------------- MODULE MCDrmAuth -----------------------------
(* Two devices and calls that overlap or follow each other.                 *)
EXTENDS DrmAuth
=============================================================================
