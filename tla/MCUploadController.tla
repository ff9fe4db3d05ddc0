---------------------------- MODULE MCUploadController ---------------------------
(***************************************************************************)
(* Instances of UploadController for TLC: values of the constants that a   *)
(* cfg cannot write.                                                       *)
(***************************************************************************)
EXTENDS UploadController, TLC

\* No ConflictResolver is set.
NoResolver == [pair \in {} |-> 0]
================================================================================
