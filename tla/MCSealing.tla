----------------------------- MODULE MCSealing ------------------------------
(***************************************************************************)
(* Client and Sealing for TLC.  The labels are such that bytes can move    *)
(* between a label, an IV and a ciphertext.                                *)
(***************************************************************************)
EXTENDS Client

Zero == <<0>>
One == <<1>>
Base == <<0, 0>>
Key == <<5>>
Domain == <<7>>

Grant(cn, op, label) == [cn |-> cn, op |-> op, label |-> label]

DeriveGrants == {Grant("other", op, Base) : op \in DeriveOps}

MCAuthz ==
    [grants |-> DeriveGrants \cup
        {Grant("demo", op, Zero) : op \in {"sign", "verify", "encrypt", "decrypt"}} \cup
        {Grant("other", op, Zero) : op \in {"sign", "decrypt"}} \cup
        {Grant("other", "decrypt", Base)},
     peer_keys |-> [g \in DeriveGrants |-> {"p", "q"}]]

MCLabels == {Zero, Base}
MCIvs == {Zero, One}
MCPlaintexts == {Zero, One}
MCCiphertexts == {Zero, One, <<0, 1>>}

\* Clients ask for signatures of greetings, and of payloads.
MCSignedTexts == {One, integrity_payload(Zero, Zero, One)}
=============================================================================
