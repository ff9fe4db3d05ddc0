------------------------------- MODULE MCExchange -------------------------------
(***************************************************************************)
(* Instances of Exchange for TLC: values of the constants that a cfg       *)
(* cannot write.                                                           *)
(***************************************************************************)
EXTENDS Exchange, TLC

\* No ConflictResolver is set.
NoResolver == [pair \in {} |-> 0]

\* A resolver that answers some conflicts, always with the smaller data, and
\* leaves the others to the default.  It does not depend on which side is local.
SmallerData ==
  [pair \in {p \in Data \X Data : p[1] # p[2] /\ {p[1], p[2]} # {2, 3}} |->
     IF pair[1] < pair[2] THEN pair[1] ELSE pair[2]]

Permuted == Permutations(Devices)
================================================================================
