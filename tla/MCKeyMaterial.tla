----------------------------- MODULE MCKeyMaterial -----------------------------
(***************************************************************************)
(* Instances of KeyMaterial for TLC.                                       *)
(***************************************************************************)
EXTENDS KeyMaterial
================================================================================
