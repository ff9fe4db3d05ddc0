------------------------------ MODULE AccountTables ----------------------------
(***************************************************************************)
(* What the server stores of one account (DatabaseController, tables       *)
(* users, devices and keychanges) and the transactions on it.              *)
(***************************************************************************)
EXTENDS KeyRing

\* A device has a new id whenever it asks for access; 0 is the one of the members.
CONSTANT MaxAttempts

Ids == Devices \X (0..MaxAttempts)

\* A key on its way to a device, and the key that signed it.
KeyChange == [id : Ids, key : Key, verify : Key]

\* keycount, the mac of each device's public key (by the key it was made with),
\* and the changes that have not been confirmed.
IsTables(t) ==
  /\ t.keycount \in Nat
  /\ DOMAIN t.keymac \subseteq Ids
  /\ \A id \in DOMAIN t.keymac : t.keymac[id] \in Key \cup {NoKey}
  /\ t.changes \subseteq KeyChange

Known(t, id) == id \in DOMAIN t.keymac

\* A partner that has left the account leaves the user id NULL: the insert fails.
addNewDeviceToUser(t, id) == [t EXCEPT !.keymac = Put(@, id, NoKey)]

\* The cascade removes the changes of the device.
removeDevice(t, id) ==
  [t EXCEPT !.keymac = Restrict(@, DOMAIN @ \ {id}),
            !.changes = {c \in @ : c.id # id}]

\* updateCmac only accepts the mac of the current key.
MacFits(t, i) == t.keycount = i

updateCmac(t, id, key) ==
  [t EXCEPT !.keymac[id] = key,
            !.changes = {c \in @ : ~(c.id = id /\ c.key.index = t.keycount)}]

\* Mutant: unconfirmed changes of earlier keys do not matter.
TryAlways(t, i) == i = t.keycount + 1

\* tryKeyChange accepts an index: it is the next one and nobody lags behind.
Acceptable(t, i) == i = t.keycount + 1 /\ t.changes = {}

Others(t, id) == Restrict(t.keymac, DOMAIN t.keymac \ {id})

\* Mutant: the index is not checked again.
CommitAnyIndex(t, i) == i > 0

\* updateExchangeKey checks the index again, in its own transaction.
IsNext(t, i) == t.keycount + 1 = i

updateExchangeKey(t, id, key, verify, receivers) ==
  [t EXCEPT !.keycount = @ + 1,
            !.changes = @ \cup {[id |-> r, key |-> key, verify |-> verify] : r \in receivers},
            !.keymac[id] = key]

\* loadKeyChanges reads the first row by index.
loadKeyChanges(t, id) ==
  {c \in t.changes : c.id = id /\ \A o \in t.changes : o.id = id => c.key.index <= o.key.index}
================================================================================
