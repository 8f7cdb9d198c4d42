------------------------------ MODULE MCAuthz -------------------------------
(***************************************************************************)
(* Authz for TLC.  The same texts serve as CNs, labels and keys.  Of the   *)
(* lists below two label lists and four key lists are accepted; each other *)
(* list fails one check of add_permission and passes the rest.             *)
(***************************************************************************)
EXTENDS Authz

Plain(t) == [txt |-> t, pad |-> FALSE]
Padded(t) == [txt |-> t, pad |-> TRUE]

MCTexts == {"", "x", "y", "integrity"}

MCBase64Texts == {"x", "y"}

MCCns == {Plain("x"), Padded("x"), Plain("y"), Padded("")}

MCIntegrity == Plain("integrity")

LabelLists ==
    {<< >>, <<Plain("x")>>, <<Padded("x"), Plain("y")>>,
     <<Plain("x"), Padded("x")>>, <<Plain("x"), Padded("integrity")>>,
     <<Plain("x"), Padded("")>>}

KeyLists ==
    {<< >>, <<Plain("x")>>, <<Padded("x")>>, <<Plain("y")>>,
     <<Padded("x"), Plain("y")>>, <<Plain("x"), Padded("x")>>,
     <<Plain("x"), Plain("integrity")>>, <<Plain("x"), Plain("")>>}

MCPerms ==
    [operation : {"sign", "derive_and_encrypt"},
     key_labels : LabelLists,
     peer_public_keys : [given : {TRUE}, keys : KeyLists]
                            \cup {[given |-> FALSE, keys |-> << >>]}]
=============================================================================
