----------------------------- MODULE AuthzTable ------------------------------
(***************************************************************************)
(* The authorization table of src/src/config.rs and the two questions the  *)
(* server asks of it.  A table is a record: grants, a set of records of    *)
(* cn, op and label; and peer_keys, a function from some of these to sets  *)
(* of peer keys.                                                           *)
(***************************************************************************)
Operation == {"sign", "verify", "encrypt", "decrypt",
              "derive_and_encrypt", "derive_and_decrypt"}

DeriveOps == {"derive_and_encrypt", "derive_and_decrypt"}

is_authorized(t, client, op, label) ==
    [cn |-> client, op |-> op, label |-> label] \in t.grants

is_peer_key_authorized(t, client, op, label, key) ==
    LET g == [cn |-> client, op |-> op, label |-> label]
    IN  g \in DOMAIN t.peer_keys /\ key \in t.peer_keys[g]

=============================================================================
