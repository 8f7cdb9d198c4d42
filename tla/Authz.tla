-------------------------------- MODULE Authz --------------------------------
(***************************************************************************)
(* Loading clients.yaml into the authorization table of src/src/config.rs. *)
(*                                                                         *)
(* The loader is sequential.  The file is revealed as it reads it: a step  *)
(* is the next client entry, the next permission entry of that client, or  *)
(* the end of the file.  A string is its text without surrounding white    *)
(* space, and whether there is any: the loader trims what it reads, while  *)
(* a certificate's CN, a request's label and key, and the integrity label  *)
(* from the environment are compared as they are.                          *)
(***************************************************************************)
EXTENDS Naturals, Sequences, AuthzTable

CONSTANTS
    Texts,                \* what strings say; "" for nothing
    Base64Texts,          \* the texts that B64.decode accepts
    Cns,                  \* the cn fields a file may hold
    Perms,                \* the permission entries a file may hold
    integrity_key_label,  \* GATEWAY_INTEGRITY_KEY_LABEL, never trimmed
    MaxPerms              \* bound on the permission entries of a file

Strings == [txt : Texts, pad : BOOLEAN]

PermissionEntry ==
    [operation : Operation,
     key_labels : Seq(Strings),
     peer_public_keys : [given : BOOLEAN, keys : Seq(Strings)]]

ASSUME AuthzConstants ==
    /\ "" \in Texts
    /\ Cns \subseteq Strings
    /\ \A perm \in Perms :
        /\ perm.operation \in Operation
        /\ perm.key_labels \in Seq(Strings)
        /\ perm.peer_public_keys.given \in BOOLEAN
        /\ perm.peer_public_keys.keys \in Seq(Strings)
    /\ integrity_key_label \in Strings
    /\ MaxPerms \in Nat

VARIABLES
    phase,      \* "start", "loading", then "loaded" or "failed"
    seen_cn,    \* the CNs of the clients so far, the last one in cn
    cn,         \* the client whose permissions are being read, or NoClient
    grants,     \* AuthzTable.grants
    peer_keys,  \* AuthzTable.peer_keys, a function on some of the grants
    heads,      \* history: the cn fields of the client entries accepted so far
    entries     \* history: the permission entries accepted so far

table == [grants |-> grants, peer_keys |-> peer_keys]

authzVars == <<phase, seen_cn, cn, grants, peer_keys, heads, entries>>

-----------------------------------------------------------------------------
(***************************************************************************)
(* Validation of one permission entry.                                     *)
(***************************************************************************)
NoClient == [txt |-> "", pad |-> TRUE]

\* Mutant of trim: strings are taken as they stand in the file.
trimNothing(s) == s

trim(s) == [txt |-> s.txt, pad |-> FALSE]

Trimmed(list) == {trim(list[i]) : i \in 1..Len(list)}

Empty(s) == s.txt = ""

Distinct(list) ==
    \A i, j \in 1..Len(list) : i # j => trim(list[i]) # trim(list[j])

\* Mutant of LabelsAccepted: the integrity label is looked for before the
\* label is trimmed.
LabelsAcceptedUntrimmed(labels) ==
    /\ labels # << >>
    /\ \A i \in 1..Len(labels) :
        /\ ~Empty(labels[i])
        /\ labels[i] # integrity_key_label
    /\ Distinct(labels)

LabelsAccepted(labels) ==
    /\ labels # << >>
    /\ \A i \in 1..Len(labels) :
        /\ ~Empty(labels[i])
        /\ trim(labels[i]) # integrity_key_label
    /\ Distinct(labels)

KeysAccepted(keys) ==
    /\ keys # << >>
    /\ \A i \in 1..Len(keys) :
        /\ ~Empty(keys[i])
        /\ keys[i].txt \in Base64Texts
    /\ Distinct(keys)

\* Mutant of AllowlistAccepted: a derive entry without an allowlist is a
\* wildcard.
AllowlistOptional(perm) ==
    IF perm.operation \in DeriveOps
    THEN perm.peer_public_keys.given => KeysAccepted(perm.peer_public_keys.keys)
    ELSE ~perm.peer_public_keys.given

\* The allowlist is mandatory on derive operations, forbidden on others.
AllowlistAccepted(perm) ==
    IF perm.operation \in DeriveOps
    THEN perm.peer_public_keys.given /\ KeysAccepted(perm.peer_public_keys.keys)
    ELSE ~perm.peer_public_keys.given

Accepted(perm) == LabelsAccepted(perm.key_labels) /\ AllowlistAccepted(perm)

\* The table's keys for a client's permission entry.
GrantsOf(client, perm) ==
    {[cn |-> client, op |-> perm.operation, label |-> l] :
        l \in Trimmed(perm.key_labels)}

\* Mutant of WithPeerKeys: a later allowlist adds to an earlier one.
WithPeerKeysMerged(new, perm) ==
    IF perm.operation \in DeriveOps
    THEN [g \in DOMAIN peer_keys \cup new |->
            (IF g \in new THEN Trimmed(perm.peer_public_keys.keys) ELSE {})
            \cup (IF g \in DOMAIN peer_keys THEN peer_keys[g] ELSE {})]
    ELSE peer_keys

\* What peer_keys.insert makes of the map: entries for derive operations
\* replace the allowlist of a grant that has one.
WithPeerKeys(new, perm) ==
    IF perm.operation \in DeriveOps
    THEN [g \in DOMAIN peer_keys \cup new |->
            IF g \in new THEN Trimmed(perm.peer_public_keys.keys) ELSE peer_keys[g]]
    ELSE peer_keys

-----------------------------------------------------------------------------
(***************************************************************************)
(* The loader.                                                             *)
(***************************************************************************)
\* Mutant of Fail: a rejected entry is skipped and the rest is served.
FailKeepsTable ==
    /\ phase' = "failed"
    /\ cn' = NoClient
    /\ UNCHANGED <<seen_cn, grants, peer_keys, heads, entries>>

\* bail!: the table built so far is dropped and the gateway does not start.
Fail ==
    /\ phase' = "failed"
    /\ grants' = {}
    /\ peer_keys' = << >>
    /\ cn' = NoClient
    /\ UNCHANGED <<seen_cn, heads, entries>>

\* load: the file is read and is YAML for a FileConfig, or is not.
Load ==
    /\ phase = "start"
    /\ \/ phase' = "loading" /\ UNCHANGED <<seen_cn, cn, grants, peer_keys, heads, entries>>
       \/ Fail

\* Mutant of ClientAccepted: a CN may come a second time.
ClientAcceptedAgain(raw) == ~Empty(raw)

ClientAccepted(raw) == ~Empty(raw) /\ trim(raw) \notin seen_cn

\* from_str: the head of a client entry.
AddClient(raw) ==
    /\ phase = "loading"
    /\ ClientAccepted(raw)
    /\ seen_cn' = seen_cn \cup {trim(raw)}
    /\ cn' = trim(raw)
    /\ heads' = Append(heads, raw)
    /\ UNCHANGED <<phase, grants, peer_keys, entries>>

RejectClient(raw) ==
    /\ phase = "loading"
    /\ ~ClientAccepted(raw)
    /\ Fail

\* add_permission.
AddPermission(perm) ==
    /\ phase = "loading"
    /\ cn # NoClient
    /\ Accepted(perm)
    /\ grants' = grants \cup GrantsOf(cn, perm)
    /\ peer_keys' = WithPeerKeys(GrantsOf(cn, perm), perm)
    /\ entries' = Append(entries, [head |-> Len(heads), cn |-> cn, perm |-> perm])
    /\ UNCHANGED <<phase, seen_cn, cn, heads>>

RejectPermission(perm) ==
    /\ phase = "loading"
    /\ cn # NoClient
    /\ ~Accepted(perm)
    /\ Fail

\* from_str returns the table.
Finish ==
    /\ phase = "loading"
    /\ phase' = "loaded"
    /\ cn' = NoClient
    /\ UNCHANGED <<seen_cn, grants, peer_keys, heads, entries>>

-----------------------------------------------------------------------------
Init ==
    /\ phase = "start"
    /\ seen_cn = {}
    /\ cn = NoClient
    /\ grants = {}
    /\ peer_keys = << >>
    /\ heads = << >>
    /\ entries = << >>

Next ==
    \/ Load
    \/ \E raw \in Cns : AddClient(raw) \/ RejectClient(raw)
    \/ \E perm \in Perms : \/ Len(entries) < MaxPerms /\ AddPermission(perm)
                           \/ RejectPermission(perm)
    \/ Finish

Spec == Init /\ [][Next]_authzVars

-----------------------------------------------------------------------------
(***************************************************************************)
(* Properties.                                                             *)
(***************************************************************************)
Grants == [cn : Strings, op : Operation, label : Strings]

\* The variables have their types, and a failed load leaves no table.
TypeOK ==
    /\ phase \in {"start", "loading", "loaded", "failed"}
    /\ seen_cn \subseteq Strings
    /\ cn \in Strings
    /\ grants \subseteq Grants
    /\ DOMAIN peer_keys \subseteq Grants
    /\ \A g \in DOMAIN peer_keys : peer_keys[g] \subseteq Strings
    /\ heads \in Seq(Strings)
    /\ entries \in Seq([head : 1..Len(heads), cn : Strings, perm : Perms])
    /\ phase = "failed" => grants = {} /\ DOMAIN peer_keys = {}

\* A list of the file holds this string, white space around it aside.
Holds(list, s) == ~s.pad /\ \E i \in 1..Len(list) : list[i].txt = s.txt

\* An entry of the file names this client, operation and label.
Names(i, client, op, label) ==
    /\ entries[i].cn = client
    /\ entries[i].perm.operation = op
    /\ Holds(entries[i].perm.key_labels, label)

\* Default-deny, end to end: for every CN a certificate may carry and every
\* label a request may name, padded ones included, is_authorized says yes
\* exactly when some entry of the file names them.
DecisionsFollowFile ==
    phase = "loaded" =>
        \A client, label \in Strings, op \in Operation :
            is_authorized(table, client, op, label) <=>
                \E i \in 1..Len(entries) : Names(i, client, op, label)

\* The peer keys allowed for a client, operation and label are those of the
\* last entry of the file that names them: a later entry narrows or widens
\* the allowlist of an earlier one, it does not add to it.
LastAllowlistDecides ==
    phase = "loaded" =>
        \A client, label, key \in Strings, op \in Operation :
            is_peer_key_authorized(table, client, op, label, key) <=>
                /\ op \in DeriveOps
                /\ \E i \in 1..Len(entries) :
                    /\ Names(i, client, op, label)
                    /\ \A j \in (i+1)..Len(entries) : ~Names(j, client, op, label)
                    /\ Holds(entries[i].perm.peer_public_keys.keys, key)

\* Whatever white space stands in the file or around the environment's
\* label, no client is granted the label the gateway signs integrity with
\* ("must never be granted to clients", src/src/config.rs:120).
IntegrityKeyNeverGranted ==
    \A client \in Strings, op \in Operation :
        ~is_authorized(table, client, op, integrity_key_label)

\* No wildcards: a client that may derive has at least one peer key and every
\* one of them is base64; a client that may not has none.
DeriveHasAllowlist ==
    \A g \in Grants :
        LET allowed == {key \in Strings :
                            is_peer_key_authorized(table, g.cn, g.op, g.label, key)}
        IN  /\ allowed # {} <=> g \in grants /\ g.op \in DeriveOps
            /\ \A key \in allowed : key.txt \in Base64Texts

\* "duplicate client cn" (src/src/config.rs:88): whoever is granted something
\* has one client entry in the file, white space around the CN aside, and
\* every permission that counts for it stands in that entry.
OneEntryPerClient ==
    \A g \in grants :
        \E h \in 1..Len(heads) :
            /\ \A l \in 1..Len(heads) : heads[l].txt = g.cn.txt <=> l = h
            /\ \A i \in 1..Len(entries) : entries[i].cn = g.cn => entries[i].head = h
=============================================================================
