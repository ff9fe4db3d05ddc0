------------------------------ MODULE MCMigration ------------------------------
(***************************************************************************)
(* Instances of Migration for TLC: values of the constants that a cfg      *)
(* cannot write.                                                           *)
(***************************************************************************)
EXTENDS Migration, TLC

CONSTANTS k1, k2, note, app

\* k1 was deleted in the old store, k2 is unchanged.
MCTypeOf == k1 :> note @@ k2 :> note
MCChanged == k1 :> 2 @@ k2 :> 0
MCOldData == k1 :> 1 @@ k2 :> 1
MCEntries == <<k1, k2>>
MCFlags == {{"data", "changed", "overwrite"}, {"data", "config", "cleanup"}, {"config", "cleanup"}}
NoResolver == [pair \in {} |-> 0]
================================================================================
