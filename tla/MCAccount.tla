-------------------------------- MODULE MCAccount ------------------------------
(* Two members, of which laptop exports the account, and a tablet that joins.  *)
EXTENDS Account

CONSTANTS laptop, phone, tablet
MCDevices == {laptop, phone, tablet}
MCMembers == {laptop, phone}
================================================================================
