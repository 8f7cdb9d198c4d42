---------------------------- MODULE MCHsmClient -----------------------------
(***************************************************************************)
(* HsmClient for TLC: one label that names a key pair and a secret key,    *)
(* and one that names nothing of one class and two objects of another.     *)
(***************************************************************************)
EXTENDS HsmClient, TLC

MCLabels == {"key", "clash"}

MCObjects ==
    [key |-> [PRIVATE_KEY |-> 1, PUBLIC_KEY |-> 1, SECRET_KEY |-> 1],
     clash |-> [PRIVATE_KEY |-> 2, PUBLIC_KEY |-> 1, SECRET_KEY |-> 0]]

=============================================================================
