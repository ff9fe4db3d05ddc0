-------------------------------- MODULE MCServer -------------------------------
(***************************************************************************)
(* Instances of Server for TLC.                                            *)
(***************************************************************************)
EXTENDS Server

CONSTANTS a, b, k, x, y

MCSize == [z \in Datasets |-> IF z = x THEN 1 ELSE 2]

\* Device a edits a dataset and sends another to a new device, k; device b reads
\* them and may remove a.
MCRequests == [d \in Devices |->
  CASE d = a -> {<<"change", x>>, <<"deviceChange", k, y>>}
    [] d = b -> {<<"sync">>, <<"remove", a>>}
    [] d = k -> {}]

\* One connection of a, and two of b, the second after the first.
MCOwner == <<a, b, b>>

\* What the two sent before, and the other one has not received.
MCHistories == {<< >>, <<<<a, y>>>>, <<<<a, y>>, <<a, x>>>>, <<<<a, y>>, <<b, x>>>>}
================================================================================
