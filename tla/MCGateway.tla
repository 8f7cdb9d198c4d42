----------------------------- MODULE MCGateway ------------------------------
(***************************************************************************)
(* Gateway for TLC: two clients.  app-a may encrypt and decrypt with       *)
(* "data", sign and verify with "base", and wrap and unwrap with "base"    *)
(* and peer "p"; app-b may sign with "data".                               *)
(***************************************************************************)
EXTENDS Gateway

CONSTANTS k1, k2

MCCnOf == [k \in Conns |-> IF k = k1 THEN "app-a" ELSE "app-b"]

Grant(cn, op, label) == [cn |-> cn, op |-> op, label |-> label]

DeriveGrants == {Grant("app-a", op, "base") : op \in DeriveOps}

MCAuthz ==
    [grants |-> DeriveGrants \cup
        {Grant("app-a", op, "data") : op \in {"encrypt", "decrypt"}} \cup
        {Grant("app-a", op, "base") : op \in {"sign", "verify"}} \cup
        {Grant("app-b", "sign", "data")},
     peer_keys |-> [g \in DeriveGrants |-> {"p"}]]

MCLabels == {"data", "base", "seal"}

MCObjects ==
    [data |-> [PRIVATE_KEY |-> 1, PUBLIC_KEY |-> 1, SECRET_KEY |-> 1],
     base |-> [PRIVATE_KEY |-> 1, PUBLIC_KEY |-> 1, SECRET_KEY |-> 0],
     seal |-> [PRIVATE_KEY |-> 1, PUBLIC_KEY |-> 1, SECRET_KEY |-> 0]]

Request(op, label) ==
    [parses |-> TRUE, op |-> op, label |-> label, peer |-> "p", decodes |-> TRUE,
     valid |-> TRUE, ivOk |-> TRUE, sealed |-> TRUE]

Decrypt == Request("decrypt", "data")
Sign == Request("sign", "data")
Encrypt == Request("encrypt", "data")
Derive == Request("derive_and_decrypt", "base")

\* One request for each client, refused to the other.
TwoLines == {Decrypt, Sign}

\* A granted request of every operation, and every way one can go wrong.
AllLines ==
    {[parses |-> FALSE], Decrypt, [Decrypt EXCEPT !.sealed = FALSE],
     [Decrypt EXCEPT !.ivOk = FALSE], Encrypt, [Encrypt EXCEPT !.valid = FALSE],
     Request("sign", "base"), Request("verify", "base"), Request("derive_and_encrypt", "base"),
     Derive, [Derive EXCEPT !.peer = "other"], [Derive EXCEPT !.decodes = FALSE],
     Request("sign", "seal")}
=============================================================================
