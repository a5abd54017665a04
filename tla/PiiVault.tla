------------------------------ MODULE PiiVault ------------------------------
(***************************************************************************)
(* KeyedPiiStore: one key and one ciphertext per identity; destroying the  *)
(* key erases what it encrypts.  Three plain dictionaries of the process,  *)
(* without a lock: one operator per access, for the callers to put in the  *)
(* order of put and erase.  Of a ciphertext only the key it was encrypted  *)
(* under is kept, and a key is named by the call that generated it.        *)
(***************************************************************************)
CONSTANTS Identities, NoKey

VARIABLES
  keys,       \* _keys
  texts,      \* _ct: the key of each ciphertext
  tombstoned  \* _tombstoned

VaultInit ==
  /\ keys = [i \in Identities |-> NoKey]
  /\ texts = [i \in Identities |-> NoKey]
  /\ tombstoned = {}

IsErased(i) == i \in tombstoned

(* Variant: a key of its own for every ciphertext. *)
AlwaysNewKey(i, new) == new

(* self._keys.get(identity_id) or Fernet.generate_key() *)
KeyFor(i, new) == IF keys[i] = NoKey THEN new ELSE keys[i]

StoreKey(i, key) ==
  keys' = [keys EXCEPT ![i] = key] /\ UNCHANGED <<texts, tombstoned>>

StoreText(i, key) ==
  texts' = [texts EXCEPT ![i] = key] /\ UNCHANGED <<keys, tombstoned>>

(* Variant: the key is destroyed, the identity is not barred. *)
TombstoneNobody(i) == UNCHANGED <<keys, texts, tombstoned>>

Tombstone(i) ==
  tombstoned' = tombstoned \cup {i} /\ UNCHANGED <<keys, texts>>

DestroyKey(i) == StoreKey(i, NoKey)

(* get: Erased without a key; KeyError without, InvalidToken with a        *)
(* ciphertext of another key                                               *)
HasKey(i) == keys[i] # NoKey
Readable(i) == HasKey(i) /\ texts[i] = keys[i]
=============================================================================
