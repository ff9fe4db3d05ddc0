-------------------------------- MODULE MCStore --------------------------------
(***************************************************************************)
(* Instances of Store for TLC.                                             *)
(***************************************************************************)
EXTENDS Store, TLC

\* No ConflictResolver is set.
NoResolver == [pair \in {} |-> 0]
================================================================================
