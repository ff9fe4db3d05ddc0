--------------------------------- MODULE KeyRing -------------------------------
(***************************************************************************)
(* The exchange keys a device keeps (CryptoController): the keys it has    *)
(* stored, by index, the index of the one it encrypts with, and the index  *)
(* of a key it has prepared and proposed.  The operators are the bodies of *)
(* the functions that change them; where a function throws, its condition  *)
(* is an operator of its own.  A key is known by its index and by the      *)
(* device that made it: a device makes at most one key for an index, the   *)
(* one it has prepared is used again.                                      *)
(***************************************************************************)
EXTENDS Naturals, Functions

CONSTANTS
  Devices,
  KeptKeys   \* how many older keys cleanCiphers keeps

ASSUME KeyRingAssumption == KeptKeys \in Nat /\ "nobody" \notin Devices

Key == [index : Nat, maker : Devices]
NoKey == [index |-> 0, maker |-> "nobody"]

\* f with the value v at x.
Put(f, x, v) == [y \in DOMAIN f \cup {x} |-> IF y = x THEN v ELSE f[y]]

\* next = 0: no key is prepared; the server never assigns index 0.
IsRing(ring) ==
  /\ ring.local \in Nat /\ ring.next \in Nat
  /\ DOMAIN ring.keys \subseteq Nat
  /\ \A i \in DOMAIN ring.keys : ring.keys[i] \in Key

HasKey(ring, i) == i \in DOMAIN ring.keys
CurrentKey(ring) == ring.keys[ring.local]
hasKeyUpdate(ring) == ring.next # 0

\* A cmac stands for the key it was made with, which alone verifies it, and a
\* key encrypted for a peer for itself.  Each needs the key (getInfo).
createCmac(ring, i) == ring.keys[i]
verifyCmac(ring, i, cmac) == HasKey(ring, i) /\ ring.keys[i] = cmac
encryptSecretKey(ring, i) == ring.keys[i]
generateEncryptionKeyCmac(ring, i) == ring.keys[i]
verifyEncryptionKeyCmac(ring, cmac) == verifyCmac(ring, ring.local, cmac)

StoreKey(ring, i, key) == [ring EXCEPT !.keys = Put(@, i, key)]

cleanCiphers(ring) ==
  [ring EXCEPT !.keys = Restrict(@, {i \in DOMAIN @ : i + KeptKeys >= ring.local})]

\* decryptSecretKey of a grant: the joiner has made a key of its own, which nothing
\* was ever sent with and which is left out.
GrantedRing(ring, i, key) == [ring EXCEPT !.local = i, !.keys = [j \in {i} |-> key]]

\* decryptSecretKey of a welcome.
ImportKey(ring, i, key) ==
  LET stored == StoreKey(ring, i, key) IN
  IF i > ring.local THEN cleanCiphers([stored EXCEPT !.local = i]) ELSE stored

\* generateNextKey uses a prepared key again, and throws if that cannot be loaded.
Prepared(ring) == ring.next = ring.local + 1
CanGenerate(ring) == Prepared(ring) => HasKey(ring, ring.next)

generateNextKey(ring, d) ==
  LET i == ring.local + 1 IN
  IF Prepared(ring) THEN ring
  ELSE [StoreKey(ring, i, [index |-> i, maker |-> d]) EXCEPT !.next = i]

\* activateNextKey returns early unless the key is the one that was prepared.
Activates(ring, i) == i = ring.local + 1 /\ i = ring.next

activateNextKey(ring, i) ==
  IF Activates(ring, i) THEN cleanCiphers([ring EXCEPT !.local = i, !.next = 0]) ELSE ring
================================================================================
