---------------------------- MODULE MCBackgroundSync ---------------------------
(***************************************************************************)
(* Instances of BackgroundSync for TLC.                                    *)
(***************************************************************************)
EXTENDS BackgroundSync
================================================================================
