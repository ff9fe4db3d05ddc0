---------------------------- MODULE MCUserExchange -----------------------------
(* Instances of UserExchange for TLC. *)
EXTENDS UserExchange
================================================================================
