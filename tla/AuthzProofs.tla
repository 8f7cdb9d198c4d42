----------------------------- MODULE AuthzProofs -----------------------------
(***************************************************************************)
(* Proofs about Authz, for every file: all texts, CNs and permission       *)
(* entries, and any number of them.                                        *)
(***************************************************************************)
EXTENDS Authz, TLAPS

-----------------------------------------------------------------------------
(***************************************************************************)
(* The inductive invariant.                                                *)
(***************************************************************************)
\* The table is what the entries so far say, unless it was dropped.
GrantsFollow ==
    phase # "failed" =>
        \A g \in Grants :
            g \in grants <=> \E i \in 1..Len(entries) : Names(i, g.cn, g.op, g.label)

\* Entry i is the last one that names g.
LastNaming(i, g) ==
    /\ Names(i, g.cn, g.op, g.label)
    /\ \A j \in (i+1)..Len(entries) : ~Names(j, g.cn, g.op, g.label)

\* Allowlists belong to the grants of derive operations, and each is the one
\* of the last entry that names its grant.
AllowlistsFollow ==
    phase # "failed" =>
        /\ DOMAIN peer_keys = {g \in grants : g.op \in DeriveOps}
        /\ \A g \in DOMAIN peer_keys :
            \E i \in 1..Len(entries) :
                /\ LastNaming(i, g)
                /\ peer_keys[g] = Trimmed(entries[i].perm.peer_public_keys.keys)

\* Only accepted permissions are entries.
EntriesAccepted == \A i \in 1..Len(entries) : Accepted(entries[i].perm)

\* seen_cn holds the CN of every client entry, no two of which have the same,
\* the last one is being read, and permissions have the CN of their entry.
ClientsInTurn ==
    /\ \A h \in 1..Len(heads) : trim(heads[h]) \in seen_cn
    /\ \A h, l \in 1..Len(heads) : heads[h].txt = heads[l].txt => h = l
    /\ cn # NoClient => Len(heads) > 0 /\ cn = trim(heads[Len(heads)])
    /\ \A i \in 1..Len(entries) : entries[i].cn = trim(heads[entries[i].head])

IInv ==
    /\ TypeOK
    /\ GrantsFollow
    /\ AllowlistsFollow
    /\ EntriesAccepted
    /\ ClientsInTurn

-----------------------------------------------------------------------------
(***************************************************************************)
(* Strings, lists and entries.                                             *)
(***************************************************************************)
LEMMA TrimType ==
    ASSUME NEW s \in Strings
    PROVE  trim(s) \in Strings /\ ~trim(s).pad /\ trim(s).txt = s.txt
  BY DEF trim, Strings

LEMMA StringsEqual ==
    ASSUME NEW s \in Strings, NEW t \in Strings, s.txt = t.txt, s.pad = t.pad
    PROVE  s = t
  BY DEF Strings

LEMMA PermTypes ==
    ASSUME NEW perm \in Perms
    PROVE  /\ perm.operation \in Operation
           /\ perm.key_labels \in Seq(Strings)
           /\ perm.peer_public_keys.keys \in Seq(Strings)
  BY AuthzConstants

\* What a list holds is what is left of it when it is trimmed.
LEMMA TrimmedHolds ==
    ASSUME NEW list \in Seq(Strings), NEW s \in Strings
    PROVE  s \in Trimmed(list) <=> Holds(list, s)
  <1>1. \A i \in 1..Len(list) : list[i] \in Strings
    OBVIOUS
  <1>2. ASSUME s \in Trimmed(list) PROVE Holds(list, s)
    <2>1. PICK i \in 1..Len(list) : s = trim(list[i])
      BY <1>2 DEF Trimmed
    <2> QED
      BY <1>1, <2>1, TrimType DEF Holds
  <1>3. ASSUME Holds(list, s) PROVE s \in Trimmed(list)
    <2>1. PICK i \in 1..Len(list) : list[i].txt = s.txt
      BY <1>3 DEF Holds
    <2>2. s.pad = FALSE
      BY <1>3 DEF Holds, Strings
    <2>3. trim(list[i]) = s
      BY <1>1, <2>1, <2>2, TrimType, StringsEqual DEF trim
    <2> QED
      BY <2>3 DEF Trimmed
  <1> QED
    BY <1>2, <1>3

LEMMA TrimmedType ==
    ASSUME NEW list \in Seq(Strings)
    PROVE  Trimmed(list) \subseteq Strings
  BY TrimType DEF Trimmed

\* The grants of an entry are those it names.
LEMMA GrantsOfNames ==
    ASSUME NEW perm \in Perms, NEW client \in Strings
    PROVE  /\ GrantsOf(client, perm) \subseteq Grants
           /\ \A g \in Grants :
                g \in GrantsOf(client, perm) <=>
                    /\ g.cn = client
                    /\ g.op = perm.operation
                    /\ Holds(perm.key_labels, g.label)
  <1>1. perm.key_labels \in Seq(Strings) /\ perm.operation \in Operation
    BY PermTypes
  <1>2. \A l \in Strings : l \in Trimmed(perm.key_labels) <=> Holds(perm.key_labels, l)
    BY <1>1, TrimmedHolds
  <1>3. GrantsOf(client, perm) \subseteq Grants
    BY <1>1, TrimmedType DEF GrantsOf, Grants
  <1>4. ASSUME NEW g \in Grants
        PROVE  g \in GrantsOf(client, perm) <=>
                    /\ g.cn = client
                    /\ g.op = perm.operation
                    /\ g.label \in Trimmed(perm.key_labels)
    BY DEF GrantsOf, Grants
  <1> QED
    BY <1>2, <1>3, <1>4 DEF Grants

\* An accepted allowlist has a key, and keys that are base64.
LEMMA AcceptedKeys ==
    ASSUME NEW perm \in Perms, Accepted(perm), perm.operation \in DeriveOps
    PROVE  LET allowed == Trimmed(perm.peer_public_keys.keys)
           IN  allowed # {} /\ \A key \in allowed : key.txt \in Base64Texts
  <1> DEFINE keys == perm.peer_public_keys.keys
  <1>1. keys \in Seq(Strings)
    BY PermTypes
  <1>2. keys # << >> /\ \A i \in 1..Len(keys) : keys[i].txt \in Base64Texts
    BY DEF Accepted, AllowlistAccepted, KeysAccepted
  <1> HIDE DEF keys
  <1>3. 1 \in 1..Len(keys)
    BY <1>1, <1>2
  <1>4. Trimmed(keys) # {}
    BY <1>3 DEF Trimmed
  <1>5. \A key \in Trimmed(keys) : key.txt \in Base64Texts
    BY <1>1, <1>2, TrimType DEF Trimmed
  <1> QED
    BY <1>4, <1>5 DEF keys

\* No grant of an accepted entry is for the integrity label.
LEMMA AcceptedLabels ==
    ASSUME NEW perm \in Perms, Accepted(perm), NEW client, NEW g \in GrantsOf(client, perm)
    PROVE  g.label # integrity_key_label
  BY DEF Accepted, LabelsAccepted, GrantsOf, Trimmed

LEMMA EntryTypes ==
    ASSUME IInv, NEW i \in 1..Len(entries)
    PROVE  /\ entries[i].head \in 1..Len(heads)
           /\ entries[i].perm \in Perms /\ Accepted(entries[i].perm)
  <1> DEFINE S == [head : 1..Len(heads), cn : Strings, perm : Perms]
  <1>1. entries[i] \in S
    <2>1. entries \in Seq(S)
      BY DEF IInv, TypeOK
    <2> HIDE DEF S
    <2> QED
      BY <2>1
  <1> QED
    BY <1>1 DEF IInv, EntriesAccepted

-----------------------------------------------------------------------------
(***************************************************************************)
(* Every step keeps the invariant.                                         *)
(***************************************************************************)
LEMMA NoClientType == NoClient \in Strings /\ NoClient.pad
  BY AuthzConstants DEF NoClient, Strings

LEMMA InitIInv == Init => IInv
  <1> SUFFICES ASSUME Init PROVE IInv
    OBVIOUS
  <1> USE DEF Init
  <1>1. Len(entries) = 0 /\ Len(heads) = 0 /\ DOMAIN peer_keys = {}
    OBVIOUS
  <1>2. TypeOK
    BY <1>1, NoClientType DEF TypeOK
  <1>3. GrantsFollow /\ AllowlistsFollow
    BY <1>1 DEF GrantsFollow, AllowlistsFollow
  <1>4. EntriesAccepted /\ ClientsInTurn
    BY <1>1 DEF EntriesAccepted, ClientsInTurn
  <1> QED
    BY <1>2, <1>3, <1>4 DEF IInv

\* Steps that leave the table and the entries alone.
LEMMA QuietStep ==
    ASSUME IInv, phase # "failed", UNCHANGED <<grants, peer_keys, entries>>
    PROVE  GrantsFollow' /\ AllowlistsFollow' /\ EntriesAccepted'
  BY DEF IInv, GrantsFollow, AllowlistsFollow, EntriesAccepted, Names, LastNaming

\* Between clients nobody's entries are being read.
LEMMA BetweenClients ==
    ASSUME IInv, cn' = NoClient, UNCHANGED <<seen_cn, heads, entries>>
    PROVE  ClientsInTurn'
  BY DEF IInv, ClientsInTurn

LEMMA FailStep ==
    ASSUME IInv, Fail
    PROVE  IInv'
  <1>1. DOMAIN peer_keys' = {}
    BY DEF Fail
  <1>2. TypeOK'
    BY <1>1, NoClientType DEF Fail, IInv, TypeOK
  <1>3. GrantsFollow' /\ AllowlistsFollow'
    BY DEF Fail, GrantsFollow, AllowlistsFollow
  <1>4. EntriesAccepted'
    BY DEF Fail, IInv, EntriesAccepted
  <1>5. ClientsInTurn'
    BY BetweenClients DEF Fail
  <1> QED
    BY <1>2, <1>3, <1>4, <1>5 DEF IInv

LEMMA LoadStep ==
    ASSUME IInv, Load
    PROVE  IInv'
  <1>1. CASE Fail
    BY <1>1, FailStep
  <1>2. CASE phase' = "loading" /\ UNCHANGED <<seen_cn, cn, grants, peer_keys, heads, entries>>
    <2>1. phase = "start"
      BY DEF Load
    <2>2. TypeOK'
      BY <1>2, <2>1 DEF IInv, TypeOK
    <2>3. ClientsInTurn'
      BY <1>2 DEF IInv, ClientsInTurn
    <2> QED
      BY <1>2, <2>1, <2>2, <2>3, QuietStep DEF IInv
  <1> QED
    BY <1>1, <1>2 DEF Load

\* A CN that was not seen before is that of no earlier client entry.
LEMMA AddClientStep ==
    ASSUME IInv, NEW raw \in Cns, AddClient(raw)
    PROVE  IInv'
  <1>1. raw \in Strings
    BY AuthzConstants
  <1>2. trim(raw) \in Strings /\ ~trim(raw).pad /\ trim(raw) \notin seen_cn
    BY <1>1, TrimType DEF AddClient, ClientAccepted
  <1>3. PICK n : n = Len(heads)
    OBVIOUS
  <1>4. heads \in Seq(Strings) /\ n \in Nat
    BY <1>3 DEF IInv, TypeOK
  <1>5. /\ heads' \in Seq(Strings) /\ Len(heads') = n + 1
        /\ \A h \in 1..n : heads'[h] = heads[h]
        /\ heads'[n+1] = raw
    BY <1>1, <1>3, <1>4 DEF AddClient
  <1>6. \A i \in 1..Len(entries) : entries[i].head \in 1..n
    BY <1>3, EntryTypes
  <1>7. TypeOK'
    <2> DEFINE S == [head : 1..n, cn : Strings, perm : Perms]
               T == [head : 1..(n+1), cn : Strings, perm : Perms]
    <2>1. entries \in Seq(S)
      BY <1>3 DEF IInv, TypeOK
    <2>2. S \subseteq T
      BY <1>4
    <2>3. entries \in Seq(T)
      <3> HIDE DEF S, T
      <3> QED
        BY <2>1, <2>2
    <2>4. entries' \in Seq([head : 1..Len(heads'), cn : Strings, perm : Perms])
      BY <1>5, <2>3 DEF AddClient
    <2> QED
      BY <1>2, <1>5, <2>4 DEF AddClient, IInv, TypeOK
  <1>8. \A h \in 1..n : heads[h] \in Strings /\ trim(heads[h]) \in seen_cn /\ heads[h].txt # raw.txt
    <2> SUFFICES ASSUME NEW h \in 1..n
                 PROVE  heads[h] \in Strings /\ trim(heads[h]) \in seen_cn /\ heads[h].txt # raw.txt
      OBVIOUS
    <2>1. heads[h] \in Strings /\ trim(heads[h]) \in seen_cn
      BY <1>3, <1>4 DEF IInv, ClientsInTurn
    <2>2. heads[h].txt = raw.txt => trim(heads[h]) = trim(raw)
      BY DEF trim
    <2> QED
      BY <1>2, <2>1, <2>2
  <1>9. ClientsInTurn'
    <2>1. \A h \in 1..(n+1) : trim(heads'[h]) \in seen_cn'
      <3>1. \A h \in 1..(n+1) : h \in 1..n \/ h = n+1
        BY <1>4
      <3> QED
        BY <1>5, <1>8, <3>1 DEF AddClient
    <2>2. \A h, l \in 1..(n+1) : heads'[h].txt = heads'[l].txt => h = l
      <3>1. \A h \in 1..(n+1) : h \in 1..n \/ h = n+1
        BY <1>4
      <3>2. \A h, l \in 1..n : heads[h].txt = heads[l].txt => h = l
        BY <1>3 DEF IInv, ClientsInTurn
      <3> QED
        BY <1>5, <1>8, <3>1, <3>2
    <2>3. Len(heads') > 0 /\ cn' = trim(heads'[Len(heads')])
      BY <1>4, <1>5 DEF AddClient
    <2>4. \A i \in 1..Len(entries') : entries'[i].cn = trim(heads'[entries'[i].head])
      BY <1>5, <1>6 DEF AddClient, IInv, ClientsInTurn
    <2> QED
      BY <1>5, <2>1, <2>2, <2>3, <2>4 DEF ClientsInTurn
  <1> QED
    BY <1>7, <1>9, QuietStep DEF AddClient, IInv

LEMMA FinishStep ==
    ASSUME IInv, Finish
    PROVE  IInv'
  <1>1. TypeOK'
    BY NoClientType DEF Finish, IInv, TypeOK
  <1>2. ClientsInTurn'
    BY BetweenClients DEF Finish
  <1> QED
    BY <1>1, <1>2, QuietStep DEF Finish, IInv

LEMMA AddPermissionStep ==
    ASSUME IInv, NEW perm \in Perms, AddPermission(perm)
    PROVE  IInv'
  <1>0. PICK n, new : n = Len(entries) /\ new = GrantsOf(cn, perm)
    OBVIOUS
  <1>1. /\ phase = "loading" /\ phase' = "loading" /\ cn # NoClient /\ Accepted(perm)
        /\ grants' = grants \cup new
        /\ peer_keys' = WithPeerKeys(new, perm)
        /\ seen_cn' = seen_cn /\ cn' = cn /\ heads' = heads
    BY <1>0 DEF AddPermission
  <1>2. cn \in Strings /\ Len(heads) \in 1..Len(heads) /\ cn = trim(heads[Len(heads)])
    BY <1>1 DEF IInv, TypeOK, ClientsInTurn
  <1>3. n \in Nat
    BY <1>0 DEF IInv, TypeOK
  <1>a. /\ entries' \in Seq([head : 1..Len(heads), cn : Strings, perm : Perms])
        /\ Len(entries') = n + 1
        /\ \A i \in 1..n : entries'[i] = entries[i]
        /\ entries'[n+1] = [head |-> Len(heads), cn |-> cn, perm |-> perm]
    <2> DEFINE S == [head : 1..Len(heads), cn : Strings, perm : Perms]
    <2>1. PICK e : e = [head |-> Len(heads), cn |-> cn, perm |-> perm]
      OBVIOUS
    <2>2. e \in S
      BY <1>2, <2>1
    <2>3. entries \in Seq(S) /\ entries' = Append(entries, e)
      BY <2>1 DEF AddPermission, IInv, TypeOK
    <2> HIDE DEF S
    <2>4. /\ entries' \in Seq(S)
          /\ Len(entries') = n + 1
          /\ \A i \in 1..n : entries'[i] = entries[i]
          /\ entries'[n+1] = e
      BY <1>0, <2>2, <2>3
    <2> QED
      BY <2>1, <2>4 DEF S
  <1>4. /\ Len(entries') = n + 1
        /\ \A i \in 1..n : entries'[i] = entries[i]
        /\ entries'[n+1] = [head |-> Len(heads), cn |-> cn, perm |-> perm]
    BY <1>a
  <1>5. new \subseteq Grants /\ \A g \in Grants : g \in new <=> Names(n+1, g.cn, g.op, g.label)'
    BY <1>0, <1>2, <1>4, GrantsOfNames DEF Names
  <1>6. \A i \in 1..n : \A g : Names(i, g.cn, g.op, g.label)' <=> Names(i, g.cn, g.op, g.label)
    BY <1>4 DEF Names
  <1>7. PICK keys : keys = Trimmed(perm.peer_public_keys.keys)
    OBVIOUS
  <1>8. keys \subseteq Strings
    BY <1>7, PermTypes, TrimmedType
  <1>9. /\ perm.operation \in DeriveOps =>
            peer_keys' = [g \in DOMAIN peer_keys \cup new |->
                            IF g \in new THEN keys ELSE peer_keys[g]]
        /\ perm.operation \notin DeriveOps => peer_keys' = peer_keys
    BY <1>1, <1>7 DEF WithPeerKeys
  <1>10. TypeOK'
    <2>1. DOMAIN peer_keys' \subseteq Grants /\ \A g \in DOMAIN peer_keys' : peer_keys'[g] \subseteq Strings
      BY <1>5, <1>8, <1>9 DEF IInv, TypeOK
    <2> QED
      BY <1>1, <1>a, <1>5, <2>1 DEF IInv, TypeOK
  <1>11. GrantsFollow'
    <2> SUFFICES ASSUME NEW g \in Grants
                 PROVE  g \in grants' <=> \E i \in 1..Len(entries') : Names(i, g.cn, g.op, g.label)'
      BY DEF GrantsFollow, Grants
    <2>1. g \in grants <=> \E i \in 1..n : Names(i, g.cn, g.op, g.label)
      BY <1>0, <1>1 DEF IInv, GrantsFollow
    <2>2. (\E i \in 1..Len(entries') : Names(i, g.cn, g.op, g.label)') <=>
            \/ \E i \in 1..n : Names(i, g.cn, g.op, g.label)
            \/ Names(n+1, g.cn, g.op, g.label)'
      <3>1. 1..Len(entries') = 1..n \cup {n + 1}
        BY <1>3, <1>4
      <3>2. \A i \in 1..n : Names(i, g.cn, g.op, g.label)' <=> Names(i, g.cn, g.op, g.label)
        BY <1>6
      <3> QED
        BY <3>1, <3>2
    <2> QED
      BY <1>1, <1>5, <2>1, <2>2
  <1>12. AllowlistsFollow'
    <2>1. \A g \in new : g.op = perm.operation
      BY <1>0 DEF GrantsOf
    <2>2. /\ DOMAIN peer_keys = {g \in grants : g.op \in DeriveOps}
          /\ \A g \in DOMAIN peer_keys :
                \E i \in 1..n :
                    /\ LastNaming(i, g)
                    /\ peer_keys[g] = Trimmed(entries[i].perm.peer_public_keys.keys)
      BY <1>0, <1>1 DEF IInv, AllowlistsFollow
    <2>3. DOMAIN peer_keys' = {g \in grants' : g.op \in DeriveOps}
      BY <1>1, <1>9, <2>1, <2>2
    <2>4. ASSUME NEW g \in DOMAIN peer_keys'
          PROVE  \E i \in 1..Len(entries') :
                    /\ LastNaming(i, g)'
                    /\ peer_keys'[g] = Trimmed(entries'[i].perm.peer_public_keys.keys)
      <3>0. g \in Grants
        BY <1>10 DEF TypeOK
      <3>1. CASE g \in new
        <4>1. LastNaming(n+1, g)'
          BY <1>3, <1>4, <1>5, <3>0, <3>1 DEF LastNaming
        <4>2. peer_keys'[g] = keys
          BY <1>9, <2>1, <2>3, <2>4, <3>1
        <4>3. keys = Trimmed(entries'[n+1].perm.peer_public_keys.keys)
          BY <1>4, <1>7
        <4> QED
          BY <1>3, <1>4, <4>1, <4>2, <4>3
      <3>2. CASE g \notin new
        <4>1. g \in DOMAIN peer_keys /\ peer_keys'[g] = peer_keys[g]
          BY <1>9, <2>4, <3>2
        <4>2. PICK i \in 1..n : /\ LastNaming(i, g)
                                /\ peer_keys[g] = Trimmed(entries[i].perm.peer_public_keys.keys)
          BY <2>2, <4>1
        <4>3. LastNaming(i, g)'
          <5>1. Names(i, g.cn, g.op, g.label)'
            BY <1>6, <4>2 DEF LastNaming
          <5>2. ~Names(n+1, g.cn, g.op, g.label)'
            BY <1>5, <3>0, <3>2
          <5>3. ASSUME NEW j \in (i+1)..(n+1) PROVE ~Names(j, g.cn, g.op, g.label)'
            <6>1. CASE j = n+1
              BY <5>2, <6>1
            <6>2. CASE j # n+1
              <7>1. j \in 1..n /\ j \in (i+1)..n
                BY <1>3, <6>2
              <7>2. ~Names(j, g.cn, g.op, g.label)
                BY <1>0, <4>2, <7>1 DEF LastNaming
              <7> QED
                BY <1>6, <7>1, <7>2
            <6> QED
              BY <6>1, <6>2
          <5> QED
            BY <1>4, <5>1, <5>3 DEF LastNaming
        <4>4. entries'[i] = entries[i] /\ i \in 1..Len(entries')
          BY <1>3, <1>4
        <4> QED
          BY <4>1, <4>2, <4>3, <4>4
      <3> QED
        BY <3>1, <3>2
    <2> QED
      BY <2>3, <2>4 DEF AllowlistsFollow
  <1>13. EntriesAccepted'
    BY <1>0, <1>1, <1>3, <1>4 DEF IInv, EntriesAccepted, Accepted, LabelsAccepted, AllowlistAccepted
  <1>14. ClientsInTurn'
    BY <1>0, <1>1, <1>2, <1>3, <1>4 DEF IInv, ClientsInTurn
  <1> QED
    BY <1>10, <1>11, <1>12, <1>13, <1>14 DEF IInv

LEMMA NextIInv == IInv /\ [Next]_authzVars => IInv'
  <1> SUFFICES ASSUME IInv, [Next]_authzVars PROVE IInv'
    OBVIOUS
  <1>1. CASE Load
    BY <1>1, LoadStep
  <1>2. ASSUME NEW raw \in Cns, AddClient(raw) PROVE IInv'
    BY <1>2, AddClientStep
  <1>3. ASSUME NEW raw \in Cns, RejectClient(raw) PROVE IInv'
    BY <1>3, FailStep DEF RejectClient
  <1>4. ASSUME NEW perm \in Perms, AddPermission(perm) PROVE IInv'
    BY <1>4, AddPermissionStep
  <1>5. ASSUME NEW perm \in Perms, RejectPermission(perm) PROVE IInv'
    BY <1>5, FailStep DEF RejectPermission
  <1>6. CASE Finish
    BY <1>6, FinishStep
  <1>7. CASE UNCHANGED authzVars
    BY <1>7 DEF authzVars, IInv, TypeOK, GrantsFollow, AllowlistsFollow, EntriesAccepted,
                ClientsInTurn, Names, LastNaming
  <1> QED
    BY <1>1, <1>2, <1>3, <1>4, <1>5, <1>6, <1>7 DEF Next

-----------------------------------------------------------------------------
(***************************************************************************)
(* What the invariant says of the table's answers.                         *)
(***************************************************************************)
\* The entry that decides about the peer keys of a grant.
LEMMA LastNamingUnique ==
    ASSUME NEW g, NEW i \in 1..Len(entries), NEW j \in 1..Len(entries),
           LastNaming(i, g), LastNaming(j, g)
    PROVE  i = j
  <1>1. CASE i < j
    <2>1. j \in (i+1)..Len(entries)
      BY <1>1
    <2> QED
      BY <2>1 DEF LastNaming
  <1>2. CASE j < i
    <2>1. i \in (j+1)..Len(entries)
      BY <1>2
    <2> QED
      BY <2>1 DEF LastNaming
  <1> QED
    BY <1>1, <1>2

LEMMA DecisionsFromInv == IInv => DecisionsFollowFile
  <1> SUFFICES ASSUME IInv, phase = "loaded",
                      NEW client \in Strings, NEW label \in Strings, NEW op \in Operation
               PROVE  is_authorized(table, client, op, label) <=>
                        \E i \in 1..Len(entries) : Names(i, client, op, label)
    BY DEF DecisionsFollowFile
  <1>1. PICK g : g = [cn |-> client, op |-> op, label |-> label]
    OBVIOUS
  <1>2. g \in Grants /\ g.cn = client /\ g.op = op /\ g.label = label
    BY <1>1 DEF Grants
  <1>3. g \in grants <=> \E i \in 1..Len(entries) : Names(i, g.cn, g.op, g.label)
    BY <1>2 DEF IInv, GrantsFollow
  <1> QED
    BY <1>1, <1>2, <1>3 DEF is_authorized, table

LEMMA IntegrityFromInv == IInv => IntegrityKeyNeverGranted
  <1> SUFFICES ASSUME IInv, NEW g \in grants, g.label = integrity_key_label
               PROVE  FALSE
    BY DEF IntegrityKeyNeverGranted, is_authorized, table
  <1>1. g \in Grants /\ phase # "failed"
    BY DEF IInv, TypeOK
  <1>2. PICK i \in 1..Len(entries) : Names(i, g.cn, g.op, g.label)
    BY <1>1 DEF IInv, GrantsFollow
  <1> DEFINE labels == entries[i].perm.key_labels
  <1>3. labels \in Seq(Strings) /\ LabelsAccepted(labels)
    BY EntryTypes, PermTypes DEF Accepted
  <1>4. g.label \in Trimmed(labels)
    BY <1>1, <1>2, <1>3, TrimmedHolds DEF Names, Grants
  <1> QED
    BY <1>3, <1>4 DEF Trimmed, LabelsAccepted

\* An allowlist comes from an accepted derive entry.
LEMMA AllowlistFromInv ==
    ASSUME IInv, NEW g \in DOMAIN peer_keys
    PROVE  /\ g \in Grants /\ g \in grants /\ g.op \in DeriveOps
           /\ peer_keys[g] # {}
           /\ peer_keys[g] \subseteq Strings
           /\ \A key \in peer_keys[g] : key.txt \in Base64Texts
  <1>1. phase # "failed" /\ g \in Grants /\ peer_keys[g] \subseteq Strings
    BY DEF IInv, TypeOK
  <1>2. g \in grants /\ g.op \in DeriveOps
    BY <1>1 DEF IInv, AllowlistsFollow
  <1>3. PICK i \in 1..Len(entries) :
            LastNaming(i, g) /\ peer_keys[g] = Trimmed(entries[i].perm.peer_public_keys.keys)
    BY <1>1 DEF IInv, AllowlistsFollow
  <1>4. entries[i].perm.operation \in DeriveOps
    BY <1>2, <1>3 DEF LastNaming, Names
  <1> QED
    BY <1>1, <1>2, <1>3, <1>4, EntryTypes, AcceptedKeys

LEMMA AllowlistsFromInv == IInv => DeriveHasAllowlist
  <1> SUFFICES ASSUME IInv, NEW g \in Grants
               PROVE  LET allowed == {key \in Strings :
                                is_peer_key_authorized(table, g.cn, g.op, g.label, key)}
                      IN  /\ allowed # {} <=> g \in grants /\ g.op \in DeriveOps
                          /\ \A key \in allowed : key.txt \in Base64Texts
    BY DEF DeriveHasAllowlist
  <1> DEFINE allowed == {key \in Strings :
                            is_peer_key_authorized(table, g.cn, g.op, g.label, key)}
  <1>1. g = [cn |-> g.cn, op |-> g.op, label |-> g.label]
    BY DEF Grants
  <1>2. allowed = {key \in Strings : g \in DOMAIN peer_keys /\ key \in peer_keys[g]}
    BY <1>1 DEF is_peer_key_authorized, table
  <1>3. CASE g \in DOMAIN peer_keys
    BY <1>2, <1>3, AllowlistFromInv
  <1>4. CASE g \notin DOMAIN peer_keys
    <2>1. ~(g \in grants /\ g.op \in DeriveOps)
      BY <1>4 DEF IInv, TypeOK, AllowlistsFollow
    <2> QED
      BY <1>2, <1>4, <2>1
  <1> QED
    BY <1>3, <1>4

\* The client entry of a permission that grants g is the only one for g.cn.
LEMMA OneEntryFromInv == IInv => OneEntryPerClient
  <1> SUFFICES ASSUME IInv, NEW g \in grants
               PROVE  \E h \in 1..Len(heads) :
                        /\ \A l \in 1..Len(heads) : heads[l].txt = g.cn.txt <=> l = h
                        /\ \A i \in 1..Len(entries) : entries[i].cn = g.cn => entries[i].head = h
    BY DEF OneEntryPerClient
  <1>1. g \in Grants /\ phase # "failed"
    BY DEF IInv, TypeOK
  <1>2. PICK j \in 1..Len(entries) : Names(j, g.cn, g.op, g.label)
    BY <1>1 DEF IInv, GrantsFollow
  <1>3. PICK h : h = entries[j].head
    OBVIOUS
  <1>4. \A i \in 1..Len(entries) : /\ entries[i].head \in 1..Len(heads)
                                  /\ entries[i].cn.txt = heads[entries[i].head].txt
    <2>1. \A i \in 1..Len(entries) : entries[i].cn = trim(heads[entries[i].head])
      BY DEF IInv, ClientsInTurn
    <2>2. \A s : trim(s).txt = s.txt
      BY DEF trim
    <2>3. \A i \in 1..Len(entries) : entries[i].cn.txt = heads[entries[i].head].txt
      BY <2>1, <2>2, Zenon
    <2> QED
      BY <2>3, EntryTypes
  <1>5. h \in 1..Len(heads) /\ g.cn.txt = heads[h].txt
    BY <1>2, <1>3, <1>4 DEF Names
  <1>6. \A l \in 1..Len(heads) : heads[l].txt = g.cn.txt <=> l = h
    BY <1>5 DEF IInv, ClientsInTurn
  <1>7. \A i \in 1..Len(entries) : entries[i].cn = g.cn => entries[i].head = h
    BY <1>4, <1>6
  <1> QED
    BY <1>5, <1>6, <1>7

LEMMA LastAllowlistFromInv == IInv => LastAllowlistDecides
  <1> SUFFICES ASSUME IInv, phase = "loaded", NEW client \in Strings, NEW label \in Strings,
                      NEW key \in Strings, NEW op \in Operation
               PROVE  is_peer_key_authorized(table, client, op, label, key) <=>
                        /\ op \in DeriveOps
                        /\ \E i \in 1..Len(entries) :
                            /\ Names(i, client, op, label)
                            /\ \A j \in (i+1)..Len(entries) : ~Names(j, client, op, label)
                            /\ Holds(entries[i].perm.peer_public_keys.keys, key)
    BY DEF LastAllowlistDecides
  <1>1. PICK g : g = [cn |-> client, op |-> op, label |-> label]
    OBVIOUS
  <1>2. g \in Grants /\ g.cn = client /\ g.op = op /\ g.label = label
    BY <1>1 DEF Grants
  <1>3. is_peer_key_authorized(table, client, op, label, key) <=>
            g \in DOMAIN peer_keys /\ key \in peer_keys[g]
    BY <1>1 DEF is_peer_key_authorized, table
  <1>4. \A i \in 1..Len(entries) :
            key \in Trimmed(entries[i].perm.peer_public_keys.keys) <=>
                Holds(entries[i].perm.peer_public_keys.keys, key)
    BY EntryTypes, PermTypes, TrimmedHolds
  <1>5. (g \in DOMAIN peer_keys /\ key \in peer_keys[g]) <=>
            /\ op \in DeriveOps
            /\ \E i \in 1..Len(entries) :
                LastNaming(i, g) /\ key \in Trimmed(entries[i].perm.peer_public_keys.keys)
    <2>1. ASSUME g \in DOMAIN peer_keys, key \in peer_keys[g]
          PROVE  /\ op \in DeriveOps
                 /\ \E i \in 1..Len(entries) :
                        LastNaming(i, g) /\ key \in Trimmed(entries[i].perm.peer_public_keys.keys)
      BY <1>2, <2>1 DEF IInv, AllowlistsFollow
    <2>2. ASSUME op \in DeriveOps, NEW i \in 1..Len(entries), LastNaming(i, g),
                 key \in Trimmed(entries[i].perm.peer_public_keys.keys)
          PROVE  g \in DOMAIN peer_keys /\ key \in peer_keys[g]
      <3>1. g \in grants
        BY <1>2, <2>2 DEF IInv, GrantsFollow, LastNaming
      <3>2. g \in DOMAIN peer_keys
        BY <1>2, <2>2, <3>1 DEF IInv, AllowlistsFollow
      <3>3. PICK j \in 1..Len(entries) :
                LastNaming(j, g) /\ peer_keys[g] = Trimmed(entries[j].perm.peer_public_keys.keys)
        BY <3>2 DEF IInv, AllowlistsFollow
      <3>4. j = i
        BY <2>2, <3>3, LastNamingUnique
      <3> QED
        BY <2>2, <3>2, <3>3, <3>4
    <2> QED
      BY <2>1, <2>2
  <1> QED
    BY <1>2, <1>3, <1>4, <1>5 DEF LastNaming

-----------------------------------------------------------------------------
(***************************************************************************)
(* The theorems.                                                           *)
(***************************************************************************)
LEMMA Invariance == Spec => []IInv
  BY InitIInv, NextIInv, PTL DEF Spec

\* The types, and that a failed load leaves no table behind (every bail! of
\* src/src/config.rs:86-153).
THEOREM TypeCorrect == Spec => []TypeOK
  <1>1. IInv => TypeOK
    BY DEF IInv
  <1> QED
    BY Invariance, <1>1, PTL

\* Default-deny: is_authorized says yes exactly for what an entry of the
\* file names (add_permission and is_authorized, src/src/config.rs).
THEOREM DecidesByFile == Spec => []DecisionsFollowFile
  BY Invariance, DecisionsFromInv, PTL

\* The last entry that names a grant has its allowlist (peer_keys.insert in
\* add_permission).
THEOREM LastAllowlistWins == Spec => []LastAllowlistDecides
  BY Invariance, LastAllowlistFromInv, PTL

\* No file grants the integrity key (the label check of add_permission).
THEOREM IntegrityKeyReserved == Spec => []IntegrityKeyNeverGranted
  BY Invariance, IntegrityFromInv, PTL

\* Deriving takes an allowlist, which has keys, all base64 (the
\* peer_public_keys checks of add_permission).
THEOREM NoWildcards == Spec => []DeriveHasAllowlist
  BY Invariance, AllowlistsFromInv, PTL

\* Whoever is granted something has one client entry in the file, which has
\* all its permissions (the duplicate check on the trimmed cn in from_str).
THEOREM ClientsStayWhole == Spec => []OneEntryPerClient
  BY Invariance, OneEntryFromInv, PTL
=============================================================================
