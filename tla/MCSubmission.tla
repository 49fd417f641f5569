---------------------------- MODULE MCSubmission ----------------------------
(* Instances of Submission; the .cfg files give the sizes.                  *)
EXTENDS Submission
=============================================================================
