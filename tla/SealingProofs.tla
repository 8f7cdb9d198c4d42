---------------------------- MODULE SealingProofs ----------------------------
(***************************************************************************)
(* Proofs about Sealing, for all clients, labels, texts and bounds.        *)
(***************************************************************************)
EXTENDS Sealing, SequenceTheorems, TLAPS

-----------------------------------------------------------------------------
(***************************************************************************)
(* The payload.                                                            *)
(***************************************************************************)
LEMMA ConcatParts ==
    ASSUME NEW p \in Bytes, NEW x \in Bytes
    PROVE  /\ p \o x \in Bytes
           /\ Len(p \o x) = Len(p) + Len(x)
           /\ \A i \in 1..Len(p) : (p \o x)[i] = p[i]
           /\ \A i \in 1..Len(x) : (p \o x)[Len(p) + i] = x[i]
  <1>1. p \in Seq(Nat) /\ x \in Seq(Nat)
    BY DEF Bytes
  <1>2. Len(p) \in Nat /\ Len(x) \in Nat
    BY <1>1, LenProperties
  <1>3. /\ p \o x \in Seq(Nat)
        /\ Len(p \o x) = Len(p) + Len(x)
        /\ \A i \in 1..Len(p) + Len(x) :
                (p \o x)[i] = IF i <= Len(p) THEN p[i] ELSE x[i - Len(p)]
    BY <1>1, ConcatProperties, Zenon
  <1> DEFINE s == p \o x
  <1> HIDE DEF s
  <1>4. \A i \in 1..Len(p) + Len(x) : s[i] = IF i <= Len(p) THEN p[i] ELSE x[i - Len(p)]
    BY <1>3 DEF s
  <1>5. \A i \in 1..Len(p) : s[i] = p[i]
    BY <1>2, <1>4
  <1>6. \A i \in 1..Len(x) : s[Len(p) + i] = x[i]
    <2>1. TAKE i \in 1..Len(x)
    <2>2. Len(p) + i \in 1..Len(p) + Len(x) /\ ~(Len(p) + i <= Len(p)) /\ Len(p) + i - Len(p) = i
      BY <1>2
    <2> QED
      BY <1>4, <2>2
  <1> QED
    BY <1>3, <1>5, <1>6 DEF s, Bytes

LEMMA PrefixedParts ==
    ASSUME NEW a \in Bytes
    PROVE  /\ Prefixed(a) \in Bytes
           /\ Len(Prefixed(a)) = 1 + Len(a)
           /\ Prefixed(a)[1] = Len(a)
           /\ \A i \in 1..Len(a) : Prefixed(a)[1 + i] = a[i]
  <1> DEFINE h == <<Len(a)>>
  <1>1. Len(a) \in Nat
    BY DEF Bytes
  <1>2. h \in Bytes /\ Len(h) = 1 /\ h[1] = Len(a)
    BY <1>1 DEF Bytes
  <1> HIDE DEF h
  <1>3. Prefixed(a) = h \o a
    BY DEF Prefixed, h
  <1>4. 1 \in 1..Len(h)
    BY <1>2
  <1>5. /\ h \o a \in Bytes
        /\ Len(h \o a) = Len(h) + Len(a)
        /\ \A i \in 1..Len(h) : (h \o a)[i] = h[i]
        /\ \A i \in 1..Len(a) : (h \o a)[Len(h) + i] = a[i]
    BY <1>2, ConcatParts, Zenon
  <1> DEFINE s == Prefixed(a)
  <1>6. /\ s \in Bytes
        /\ Len(s) = Len(h) + Len(a)
        /\ \A i \in 1..Len(h) : s[i] = h[i]
        /\ \A i \in 1..Len(a) : s[Len(h) + i] = a[i]
    BY <1>3, <1>5
  <1> HIDE DEF s
  <1>7. s \in Bytes /\ Len(s) = 1 + Len(a) /\ s[1] = Len(a) /\ \A i \in 1..Len(a) : s[1 + i] = a[i]
    BY <1>2, <1>4, <1>6
  <1> QED
    BY <1>7 DEF s

LEMMA SequencesEqual ==
    ASSUME NEW a \in Bytes, NEW b \in Bytes, Len(a) = Len(b),
           \A i \in 1..Len(a) : a[i] = b[i]
    PROVE  a = b
  BY SeqEqual, Zenon DEF Bytes

\* A length in front of each part keeps the parts apart.
LEMMA PrefixedInjective ==
    ASSUME NEW a \in Bytes, NEW b \in Bytes, NEW x \in Bytes, NEW y \in Bytes,
           Prefixed(a) \o x = Prefixed(b) \o y
    PROVE  a = b /\ x = y
  <1> DEFINE s == Prefixed(a) \o x
             p == Prefixed(a)
             q == Prefixed(b)
  <1>0. Len(a) \in Nat /\ Len(b) \in Nat /\ Len(x) \in Nat /\ Len(y) \in Nat
    BY DEF Bytes
  <1>1. p \in Bytes /\ Len(p) = 1 + Len(a) /\ p[1] = Len(a) /\ \A i \in 1..Len(a) : p[1 + i] = a[i]
    BY PrefixedParts, Zenon
  <1>2. q \in Bytes /\ Len(q) = 1 + Len(b) /\ q[1] = Len(b) /\ \A i \in 1..Len(b) : q[1 + i] = b[i]
    BY PrefixedParts, Zenon
  <1>3. s = p \o x /\ s = q \o y
    OBVIOUS
  <1> HIDE DEF s, p, q
  <1>4. /\ Len(s) = Len(p) + Len(x)
        /\ \A i \in 1..Len(p) : s[i] = p[i]
        /\ \A i \in 1..Len(x) : s[Len(p) + i] = x[i]
    <2>1. /\ Len(p \o x) = Len(p) + Len(x)
          /\ \A i \in 1..Len(p) : (p \o x)[i] = p[i]
          /\ \A i \in 1..Len(x) : (p \o x)[Len(p) + i] = x[i]
      BY <1>1, ConcatParts, Zenon
    <2> QED
      BY <1>3, <2>1
  <1>5. /\ Len(s) = Len(q) + Len(y)
        /\ \A i \in 1..Len(q) : s[i] = q[i]
        /\ \A i \in 1..Len(y) : s[Len(q) + i] = y[i]
    <2>1. /\ Len(q \o y) = Len(q) + Len(y)
          /\ \A i \in 1..Len(q) : (q \o y)[i] = q[i]
          /\ \A i \in 1..Len(y) : (q \o y)[Len(q) + i] = y[i]
      BY <1>2, ConcatParts, Zenon
    <2> QED
      BY <1>3, <2>1
  <1>6. Len(a) = Len(b)
    <2>1. 1 \in 1..Len(p) /\ 1 \in 1..Len(q)
      BY <1>0, <1>1, <1>2
    <2> QED
      BY <2>1, <1>1, <1>2, <1>4, <1>5
  <1>7. Len(x) = Len(y)
    BY <1>0, <1>1, <1>2, <1>4, <1>5, <1>6
  <1>8. \A i \in 1..Len(a) : a[i] = b[i]
    <2>1. TAKE i \in 1..Len(a)
    <2>2. 1 + i \in 1..Len(p) /\ 1 + i \in 1..Len(q) /\ i \in 1..Len(b)
      BY <1>0, <1>1, <1>2, <1>6
    <2> QED
      <3>1. s[1 + i] = p[1 + i] /\ s[1 + i] = q[1 + i]
        BY <2>2, <1>4, <1>5
      <3>2. p[1 + i] = a[i] /\ q[1 + i] = b[i]
        BY <2>2, <1>1, <1>2
      <3> QED
        BY <3>1, <3>2
  <1>9. \A i \in 1..Len(x) : x[i] = y[i]
    <2>1. TAKE i \in 1..Len(x)
    <2>2. i \in 1..Len(y) /\ Len(p) = Len(q)
      BY <1>1, <1>2, <1>6, <1>7
    <2> QED
      BY <2>2, <1>4, <1>5
  <1> QED
    BY <1>6, <1>7, <1>8, <1>9, SequencesEqual, Zenon

\* No two triples of label, IV and ciphertext have the same payload
\* (integrity_payload, src/src/server.rs:318-330).
THEOREM PayloadInjective ==
    ASSUME NEW l1 \in Bytes, NEW iv1 \in Bytes, NEW ct1 \in Bytes,
           NEW l2 \in Bytes, NEW iv2 \in Bytes, NEW ct2 \in Bytes,
           integrity_payload(l1, iv1, ct1) = integrity_payload(l2, iv2, ct2)
    PROVE  l1 = l2 /\ iv1 = iv2 /\ ct1 = ct2
  <1> DEFINE r1 == Prefixed(iv1) \o Prefixed(ct1)
             r2 == Prefixed(iv2) \o Prefixed(ct2)
             u1 == Prefixed(l1) \o r1
             u2 == Prefixed(l2) \o r2
  <1>1. /\ Prefixed(l1) \in Bytes /\ Prefixed(iv1) \in Bytes /\ Prefixed(ct1) \in Bytes
        /\ Prefixed(l2) \in Bytes /\ Prefixed(iv2) \in Bytes /\ Prefixed(ct2) \in Bytes
    BY PrefixedParts, Zenon
  <1>2. r1 \in Bytes /\ r2 \in Bytes
    BY <1>1, ConcatParts, Zenon
  <1>3. u1 \in Bytes /\ u2 \in Bytes
    BY <1>1, <1>2, ConcatParts, Zenon
  <1>4. Prefixed(INTEGRITY_DOMAIN) \o u1 = Prefixed(INTEGRITY_DOMAIN) \o u2
    BY Zenon DEF integrity_payload
  <1> HIDE DEF u1, u2
  <1>5. u1 = u2
    BY <1>3, <1>4, SealingConstants, PrefixedInjective, Zenon
  <1>6. Prefixed(l1) \o r1 = Prefixed(l2) \o r2
    BY <1>5, Zenon DEF u1, u2
  <1> HIDE DEF r1, r2
  <1>7. l1 = l2 /\ r1 = r2
    <2>1. l1 = l2
      BY <1>2, <1>6, PrefixedInjective, Zenon
    <2>2. Prefixed(l1) \o r1 = Prefixed(l1) \o r2
      BY <1>6, <2>1
    <2>3. r1 = r2
      BY <1>2, <2>2, PrefixedInjective, Zenon
    <2> QED
      BY <2>1, <2>3
  <1>8. Prefixed(iv1) \o Prefixed(ct1) = Prefixed(iv2) \o Prefixed(ct2)
    BY <1>7, Zenon DEF r1, r2
  <1>9. iv1 = iv2 /\ Prefixed(ct1) = Prefixed(ct2)
    <2>1. iv1 = iv2
      BY <1>1, <1>8, PrefixedInjective, Zenon
    <2>2. Prefixed(iv1) \o Prefixed(ct1) = Prefixed(iv1) \o Prefixed(ct2)
      BY <1>8, <2>1
    <2>3. Prefixed(ct1) = Prefixed(ct2)
      BY <1>1, <2>2, PrefixedInjective, Zenon
    <2> QED
      BY <2>1, <2>3
  <1>10. << >> \in Bytes
    BY EmptySeq DEF Bytes
  <1>11. ct1 = ct2
    BY <1>9, <1>10, PrefixedInjective, Zenon
  <1> QED
    BY <1>7, <1>9, <1>11

LEMMA PayloadIsBytes ==
    ASSUME NEW l \in Bytes, NEW iv \in Bytes, NEW ct \in Bytes
    PROVE  integrity_payload(l, iv, ct) \in Bytes
  <1>1. /\ Prefixed(INTEGRITY_DOMAIN) \in Bytes /\ Prefixed(l) \in Bytes
        /\ Prefixed(iv) \in Bytes /\ Prefixed(ct) \in Bytes
    BY SealingConstants, PrefixedParts, Zenon
  <1>2. Prefixed(iv) \o Prefixed(ct) \in Bytes
    BY <1>1, ConcatParts, Zenon
  <1>3. Prefixed(l) \o (Prefixed(iv) \o Prefixed(ct)) \in Bytes
    BY <1>1, <1>2, ConcatParts, Zenon
  <1> QED
    BY <1>1, <1>3, ConcatParts, Zenon DEF integrity_payload

-----------------------------------------------------------------------------
(***************************************************************************)
(* The inductive invariant.                                                *)
(***************************************************************************)
\* A signature with the integrity key is the seal of an encryption.
SealsAreIssued ==
    \A s \in sigs :
        s.key.label = integrity_label =>
            \E e \in issued :
                e.sig = s /\ s.data = integrity_payload(e.req.label, e.iv, e.ct)

\* Every encryption has its seal.
IssuedAreSealed ==
    \A e \in issued :
        /\ e.sig.key.label = integrity_label
        /\ e.sig.data = integrity_payload(e.req.label, e.iv, e.ct)

\* A request that was turned down for its seal: the seal is not of this
\* integrity key, or not of these bytes.
TurnedDown ==
    \A c \in Clients :
        task[c].at = "answer" /\ task[c].resp = denied("integrity") =>
            /\ task[c].req \in OpeningRequests(sigs, Bytes)
            /\ LET req == task[c].req
               IN  req.sig # Signature(integrity_label, integrity_payload(req.label, req.iv, req.data))

IInv ==
    /\ TypeOK
    /\ SealsAreIssued
    /\ IssuedAreSealed
    /\ TurnedDown
    /\ OnlyIssuedIsDecrypted

-----------------------------------------------------------------------------
(***************************************************************************)
(* What a task carries.                                                    *)
(***************************************************************************)
LEMMA TaskTypes ==
    ASSUME TypeOK, NEW c \in Clients
    PROVE  /\ task[c].at = "sign" =>
                /\ task[c].req \in SigningRequests
                /\ task[c].req.label # integrity_label
           /\ task[c].at = "encrypt" => task[c].req \in SealingRequests
           /\ task[c].at = "seal" =>
                task[c].req \in SealingRequests /\ task[c].iv \in Ivs /\ task[c].ct \in Ciphertexts
           /\ task[c].at \in {"check", "decrypt"} => task[c].req \in OpeningRequests(sigs, Bytes)
  <1>1. task[c] \in Tasks \/ task[c].at = "answer"
    BY DEF TypeOK
  <1>2. task[c].at = "sign" => task[c].req.label # integrity_label
    BY DEF TypeOK
  <1>3. CASE task[c].at = "answer"
    BY <1>2, <1>3
  <1>4. CASE task[c] \in Tasks
    BY <1>2, <1>4 DEF Tasks, Idle
  <1> QED
    BY <1>1, <1>3, <1>4

LEMMA OpeningTypes ==
    ASSUME NEW ss, NEW req \in OpeningRequests(ss, Bytes)
    PROVE  req.label \in Bytes /\ req.iv \in Bytes /\ req.data \in Bytes /\ req.sig \in ss
  <1>1. << >> \in Bytes
    BY EmptySeq DEF Bytes
  <1> QED
    BY <1>1, SealingConstants DEF OpeningRequests

LEMMA SealingTypes ==
    ASSUME NEW req \in SealingRequests
    PROVE  req.label \in Labels /\ req.label \in Bytes
  BY SealingConstants DEF SealingRequests

\* More signatures keep tasks well-typed.
LEMMA TasksGrow ==
    ASSUME sigs \subseteq sigs'
    PROVE  Tasks \subseteq Tasks'
  BY DEF Tasks, OpeningRequests, VerifyRequests

-----------------------------------------------------------------------------
(***************************************************************************)
(* Every step keeps the invariant.                                         *)
(***************************************************************************)
LEMMA InitIInv == Init => IInv
  <1> SUFFICES ASSUME Init PROVE IInv
    OBVIOUS
  <1> USE DEF Init
  <1>1. TypeOK
    BY DEF TypeOK, Tasks, Idle
  <1> QED
    BY <1>1 DEF IInv, SealsAreIssued, IssuedAreSealed, TurnedDown, OnlyIssuedIsDecrypted, Idle

\* What is asked of the new state of a task.
Proper(new) ==
    /\ new \in Tasks \/ new.at = "answer"
    /\ new.at = "sign" => new.req.label # integrity_label
    /\ new.at = "answer" /\ new.resp = denied("integrity") =>
            /\ new.req \in OpeningRequests(sigs, Bytes)
            /\ new.req.sig # Signature(integrity_label,
                                       integrity_payload(new.req.label, new.req.iv, new.req.data))
    /\ new.at = "decrypt" =>
            \E e \in issued :
                /\ e.req.label = new.req.label
                /\ e.iv = new.req.iv
                /\ e.ct = new.req.data
                /\ e.sig = new.req.sig

LEMMA IInvProper ==
    ASSUME IInv, NEW c \in Clients
    PROVE  Proper(task[c])
  BY DEF Proper, IInv, TypeOK, TurnedDown, OnlyIssuedIsDecrypted

\* More signatures and encryptions keep a task proper.
LEMMA ProperGrows ==
    ASSUME NEW new, Proper(new), sigs \subseteq sigs', issued \subseteq issued', gen' = gen
    PROVE  Proper(new)'
  <1>1. new \in Tasks => new \in Tasks'
    BY TasksGrow
  <1>2. \A req : req \in OpeningRequests(sigs, Bytes) => req \in OpeningRequests(sigs', Bytes)
    BY DEF OpeningRequests
  <1> QED
    BY <1>1, <1>2 DEF Proper, Signature, SigningKey

\* A step of one task.
LEMMA TaskStep ==
    ASSUME IInv, NEW c \in Clients, NEW new,
           task' = [task EXCEPT ![c] = new], Proper(new)',
           sigs \subseteq sigs', issued \subseteq issued', gen' = gen,
           sigs' \subseteq Signatures', issued' \subseteq Encryptions',
           SealsAreIssued', IssuedAreSealed'
    PROVE  IInv'
  <1>1. DOMAIN task = Clients /\ gen \in Nat
    BY DEF IInv, TypeOK
  <1>2. DOMAIN task' = Clients
    BY <1>1
  <1>3. \A d \in Clients : Proper(task[d])'
    <2> SUFFICES ASSUME NEW d \in Clients PROVE Proper(task[d])'
      OBVIOUS
    <2>1. CASE d = c
      BY <1>1, <2>1 DEF Proper
    <2>2. CASE d # c
      BY <1>1, <2>2, IInvProper, ProperGrows
    <2> QED
      BY <2>1, <2>2
  <1> QED
    BY <1>1, <1>2, <1>3 DEF IInv, TypeOK, Proper, TurnedDown, OnlyIssuedIsDecrypted

\* A step that leaves signatures and encryptions alone.
LEMMA QuietStep ==
    ASSUME IInv, NEW c \in Clients, NEW new,
           task' = [task EXCEPT ![c] = new], Proper(new),
           UNCHANGED <<sigs, issued, gen>>
    PROVE  IInv'
  <1>1. Proper(new)'
    BY ProperGrows
  <1>2. /\ sigs' \subseteq Signatures' /\ issued' \subseteq Encryptions'
        /\ SealsAreIssued' /\ IssuedAreSealed'
    BY DEF IInv, TypeOK, Signatures, Encryptions, SealsAreIssued, IssuedAreSealed
  <1> QED
    BY <1>1, <1>2, TaskStep

\* An answer other than "integrity signature invalid".
LEMMA AnswerProper ==
    ASSUME NEW req, NEW resp, resp # denied("integrity")
    PROVE  Proper(Answering(req, resp))
  BY DEF Proper, Answering

\* Any bytes may be sent to be decrypted.
LEMMA SendStep ==
    ASSUME IInv, NEW c \in Clients, NEW req \in Request \cup OpeningRequests(sigs, Bytes),
           Receive(c, req)
    PROVE  IInv'
  <1> DEFINE new == IF Cleared(c, req) THEN Running(FirstCall(req), req)
                    ELSE Answering(req, denied("authorization"))
  <1>1. task' = [task EXCEPT ![c] = new] /\ UNCHANGED <<sigs, issued, gen>>
    BY DEF Receive
  <1>2. Proper(new)
    <2>1. CASE ~Cleared(c, req)
      BY <2>1, AnswerProper DEF denied
    <2>2. CASE Cleared(c, req)
      <3>1. req.label # integrity_label
        BY <2>2, SealingConstants DEF Cleared, is_authorized
      <3>2. new \in Tasks
        <4>1. CASE req \in SigningRequests
          BY <2>2, <4>1 DEF SigningRequests, Tasks, Running, FirstCall, Opens
        <4>2. CASE req \in SealingRequests
          BY <2>2, <4>2 DEF SealingRequests, Tasks, Running, FirstCall, Opens
        <4>3. CASE req \in VerifyRequests(sigs)
          BY <2>2, <4>3 DEF VerifyRequests, Tasks, Running, FirstCall, Opens
        <4>4. CASE req \in OpeningRequests(sigs, Ciphertexts) \cup OpeningRequests(sigs, Bytes)
          <5>1. req \in OpeningRequests(sigs, Bytes) /\ req.op \in Opens
            BY <4>4, SealingConstants DEF OpeningRequests, Opens
          <5>2. FirstCall(req) = "check"
            BY <5>1 DEF FirstCall, Opens
          <5> QED
            BY <2>2, <5>1, <5>2 DEF Tasks, Running
        <4> QED
          BY <4>1, <4>2, <4>3, <4>4 DEF Request
      <3>3. new.at \notin {"answer", "decrypt"} /\ new.req = req
        BY <2>2 DEF Running, FirstCall, Request, SealingRequests, SigningRequests,
                    VerifyRequests, OpeningRequests, Opens
      <3> QED
        BY <3>1, <3>2, <3>3 DEF Proper
    <2> QED
      BY <2>1, <2>2
  <1> HIDE DEF new
  <1> QED
    BY <1>1, <1>2, QuietStep

LEMMA IntentFailsStep ==
    ASSUME IInv, NEW c \in Clients, NEW req, IntentFails(c, req)
    PROVE  IInv'
  <1>1. PICK new : new = Answering(req, err("audit"))
    OBVIOUS
  <1>2. task' = [task EXCEPT ![c] = new] /\ UNCHANGED <<sigs, issued, gen>>
    BY <1>1 DEF IntentFails
  <1>3. err("audit") # denied("integrity")
    BY DEF err, denied
  <1>4. Proper(new)
    BY <1>1, <1>3, AnswerProper
  <1> QED
    BY <1>2, <1>4, QuietStep

\* Nothing a client has signed is a seal.
LEMMA SignStep ==
    ASSUME IInv, NEW c \in Clients, Sign(c)
    PROVE  IInv'
  <1> DEFINE req == task[c].req
             sig == Signature(req.label, req.data)
             new == Answering(req, ok_result(sig))
  <1>1. /\ task' = [task EXCEPT ![c] = new] /\ sigs' = sigs \cup {sig}
        /\ UNCHANGED <<issued, gen>> /\ task[c].at = "sign"
    BY DEF Sign
  <1>2. req \in SigningRequests /\ req.label # integrity_label
    BY <1>1, TaskTypes DEF IInv
  <1>3. TypeOK /\ SealsAreIssued /\ IssuedAreSealed /\ gen \in Nat
    BY DEF IInv, TypeOK
  <1>4. sig.key.label # integrity_label /\ sig \in Signatures
    BY <1>2, <1>3, SealingConstants DEF Signature, SigningKey, Signatures, SigningRequests
  <1>5. Proper(new)
    BY AnswerProper DEF denied, ok_result
  <1>6. PICK n, s : n = new /\ s = sig
    OBVIOUS
  <1> HIDE DEF new, sig
  <1>7. Proper(n)'
    BY <1>1, <1>5, <1>6, ProperGrows
  <1>8. sigs' \subseteq Signatures' /\ issued' \subseteq Encryptions'
    BY <1>1, <1>3, <1>4 DEF TypeOK, Signatures, Encryptions
  <1>9. SealsAreIssued' /\ IssuedAreSealed'
    BY <1>1, <1>3, <1>4 DEF SealsAreIssued, IssuedAreSealed
  <1> QED
    BY <1>1, <1>6, <1>7, <1>8, <1>9, TaskStep

LEMMA SealStep ==
    ASSUME IInv, NEW c \in Clients, Seal(c)
    PROVE  IInv'
  <1> DEFINE t == task[c]
             sig == Signature(integrity_label, integrity_payload(t.req.label, t.iv, t.ct))
             e == [req |-> t.req, iv |-> t.iv, ct |-> t.ct, sig |-> sig]
             new == Answering(t.req, Sealed(e))
  <1>1. /\ task' = [task EXCEPT ![c] = new] /\ sigs' = sigs \cup {sig}
        /\ issued' = issued \cup {e} /\ gen' = gen /\ task[c].at = "seal"
    BY DEF Seal
  <1>2. t.req \in SealingRequests /\ t.iv \in Ivs /\ t.ct \in Ciphertexts
    BY <1>1, TaskTypes DEF IInv
  <1>3. TypeOK /\ SealsAreIssued /\ IssuedAreSealed /\ gen \in Nat
    BY DEF IInv, TypeOK
  <1>4. integrity_payload(t.req.label, t.iv, t.ct) \in Bytes
    BY <1>2, SealingTypes, SealingConstants, PayloadIsBytes
  <1>5. sig \in Signatures /\ sig.key.label = integrity_label
        /\ sig.data = integrity_payload(t.req.label, t.iv, t.ct)
    BY <1>3, <1>4, SealingConstants DEF Signature, SigningKey, Signatures
  <1>6. Proper(new)
    BY AnswerProper DEF denied, Sealed
  <1>7. /\ e.req = t.req /\ e.iv = t.iv /\ e.ct = t.ct /\ e.sig = sig
        /\ \A ss : sig \in ss => e \in [req : SealingRequests, iv : Ivs, ct : Ciphertexts, sig : ss]
    BY <1>2
  <1>8. PICK n : n = new
    OBVIOUS
  <1> HIDE DEF new, e, sig
  <1>9. Proper(n)'
    BY <1>1, <1>6, <1>8, ProperGrows
  <1>10. sigs' \subseteq Signatures' /\ issued' \subseteq Encryptions'
    BY <1>1, <1>3, <1>5, <1>7 DEF TypeOK, Signatures, Encryptions
  <1>11. SealsAreIssued' /\ IssuedAreSealed'
    BY <1>1, <1>3, <1>5, <1>7 DEF SealsAreIssued, IssuedAreSealed
  <1> QED
    BY <1>1, <1>8, <1>9, <1>10, <1>11, TaskStep

LEMMA VerifyStep ==
    ASSUME IInv, NEW c \in Clients, Verify(c)
    PROVE  IInv'
  <1> DEFINE req == task[c].req
  <1>1. PICK new : new = Answering(req, Verified(req.sig = Signature(req.label, req.data)))
    OBVIOUS
  <1>2. task' = [task EXCEPT ![c] = new] /\ UNCHANGED <<sigs, issued, gen>>
    BY <1>1 DEF Verify
  <1>3. Proper(new)
    BY <1>1, AnswerProper DEF denied, Verified
  <1> QED
    BY <1>2, <1>3, QuietStep

LEMMA EncryptStep ==
    ASSUME IInv, NEW c \in Clients, NEW iv \in Ivs, NEW ct \in Ciphertexts, Encrypt(c, iv, ct)
    PROVE  IInv'
  <1>1. PICK new : new = [at |-> "seal", req |-> task[c].req, iv |-> iv, ct |-> ct]
    OBVIOUS
  <1>2. task' = [task EXCEPT ![c] = new] /\ UNCHANGED <<sigs, issued, gen>>
    BY <1>1 DEF Encrypt
  <1>3. task[c].req \in SealingRequests
    BY TaskTypes DEF Encrypt, IInv
  <1>4. Proper(new)
    BY <1>1, <1>3 DEF Proper, Tasks
  <1> QED
    BY <1>2, <1>4, QuietStep

\* A signature that passes the check is the seal of an encryption with the
\* same payload, and so of the same label, IV and ciphertext.
LEMMA CheckedIsIssued ==
    ASSUME IInv, NEW req \in OpeningRequests(sigs, Bytes), check_integrity(req)
    PROVE  \E e \in issued :
                /\ e.req.label = req.label
                /\ e.iv = req.iv
                /\ e.ct = req.data
                /\ e.sig = req.sig
  <1>1. req.label \in Bytes /\ req.iv \in Bytes /\ req.data \in Bytes /\ req.sig \in sigs
    BY OpeningTypes
  <1>2. /\ req.sig.key.label = integrity_label
        /\ req.sig.data = integrity_payload(req.label, req.iv, req.data)
    BY DEF check_integrity, Signature, SigningKey
  <1>3. PICK e \in issued :
            e.sig = req.sig /\ req.sig.data = integrity_payload(e.req.label, e.iv, e.ct)
    BY <1>1, <1>2 DEF IInv, SealsAreIssued
  <1>4. e.req \in SealingRequests /\ e.iv \in Bytes /\ e.ct \in Bytes
    BY <1>3, SealingConstants DEF IInv, TypeOK, Encryptions
  <1>5. e.req.label \in Bytes
    BY <1>4, SealingTypes
  <1>6. integrity_payload(e.req.label, e.iv, e.ct) = integrity_payload(req.label, req.iv, req.data)
    BY <1>2, <1>3
  <1>7. e.req.label = req.label /\ e.iv = req.iv /\ e.ct = req.data
    <2>1. PICK l1, i1, d1, l2, i2, d2 :
            /\ l1 = e.req.label /\ i1 = e.iv /\ d1 = e.ct
            /\ l2 = req.label /\ i2 = req.iv /\ d2 = req.data
      OBVIOUS
    <2>2. integrity_payload(l1, i1, d1) = integrity_payload(l2, i2, d2)
      BY <1>6, <2>1
    <2>3. /\ l1 \in Bytes /\ i1 \in Bytes /\ d1 \in Bytes
          /\ l2 \in Bytes /\ i2 \in Bytes /\ d2 \in Bytes
      BY <1>1, <1>4, <1>5, <2>1
    <2>4. l1 = l2 /\ i1 = i2 /\ d1 = d2
      BY <2>2, <2>3, PayloadInjective, SMT
    <2> QED
      BY <2>1, <2>4
  <1> QED
    BY <1>3, <1>7

LEMMA CheckStep ==
    ASSUME IInv, NEW c \in Clients, Check(c)
    PROVE  IInv'
  <1>1. PICK req : req = task[c].req
    OBVIOUS
  <1>2. req \in OpeningRequests(sigs, Bytes)
    BY <1>1, TaskTypes DEF Check, IInv
  <1>3. UNCHANGED <<sigs, issued, gen>>
    BY DEF Check
  <1>4. CASE check_integrity(req)
    <2>1. PICK new : new = Running("decrypt", req)
      OBVIOUS
    <2>2. task' = [task EXCEPT ![c] = new]
      BY <1>1, <1>4, <2>1 DEF Check
    <2>3. Proper(new)
      BY <1>2, <1>4, <2>1, CheckedIsIssued DEF Proper, Running, Tasks
    <2> QED
      BY <1>3, <2>2, <2>3, QuietStep
  <1>5. CASE ~check_integrity(req)
    <2>1. PICK new : new = Answering(req, denied("integrity"))
      OBVIOUS
    <2>2. task' = [task EXCEPT ![c] = new]
      BY <1>1, <1>5, <2>1 DEF Check
    <2>3. Proper(new)
      BY <1>2, <1>5, <2>1 DEF Proper, Answering, check_integrity
    <2> QED
      BY <1>3, <2>2, <2>3, QuietStep
  <1> QED
    BY <1>4, <1>5

LEMMA DecryptStep ==
    ASSUME IInv, NEW c \in Clients, Decrypt(c)
    PROVE  IInv'
  <1> DEFINE req == task[c].req
  <1>1. PICK resp : /\ resp.status = "error" \/ \E t : resp = ok_result(t)
                    /\ task' = [task EXCEPT ![c] = Answering(req, resp)]
    BY DEF Decrypt, err
  <1>2. PICK new : new = Answering(req, resp)
    OBVIOUS
  <1>3. task' = [task EXCEPT ![c] = new] /\ UNCHANGED <<sigs, issued, gen>>
    BY <1>1, <1>2 DEF Decrypt
  <1>4. resp # denied("integrity")
    BY <1>1 DEF denied, ok_result
  <1>5. Proper(new)
    BY <1>2, <1>4, AnswerProper
  <1> QED
    BY <1>3, <1>5, QuietStep

\* A call that returns an error, in the HSM or at its login.
LEMMA FailedStep ==
    ASSUME IInv, NEW c \in Clients, HsmFails(c) \/ LoginRefused(c)
    PROVE  IInv'
  <1>1. PICK resp : /\ resp \in {Failed(task[c].at, why) : why \in {"hsm", "login"}}
                    /\ task' = [task EXCEPT ![c] = Answering(task[c].req, resp)]
    BY DEF HsmFails, LoginRefused
  <1>2. PICK new : new = Answering(task[c].req, resp)
    OBVIOUS
  <1>3. task' = [task EXCEPT ![c] = new] /\ UNCHANGED <<sigs, issued, gen>>
    BY <1>1, <1>2 DEF HsmFails, LoginRefused
  <1>4. resp # denied("integrity")
    BY <1>1 DEF Failed, denied, err
  <1>5. Proper(new)
    BY <1>2, <1>4, AnswerProper
  <1> QED
    BY <1>3, <1>5, QuietStep

LEMMA AnswerStep ==
    ASSUME IInv, NEW c \in Clients, Answer(c)
    PROVE  IInv'
  <1>1. task' = [task EXCEPT ![c] = Idle] /\ UNCHANGED <<sigs, issued, gen>>
    BY DEF Answer
  <1>2. Proper(Idle)
    BY DEF Proper, Idle, Tasks
  <1> QED
    BY <1>1, <1>2, QuietStep

\* With a new integrity key, what was turned down stays turned down: no
\* signature of that key exists yet.
LEMMA ReplaceKeyStep ==
    ASSUME IInv, ReplaceKey
    PROVE  IInv'
  <1>1. gen \in Nat /\ gen' = gen + 1 /\ UNCHANGED <<task, sigs, issued>>
    BY DEF IInv, TypeOK, ReplaceKey
  <1>2. \A s \in sigs : s.key.gen \in 0..gen
    BY DEF IInv, TypeOK, Signatures
  <1>3. TypeOK'
    <2>1. Tasks' = Tasks
      BY <1>1 DEF Tasks
    <2>2. sigs' \subseteq Signatures'
      BY <1>1 DEF IInv, TypeOK, Signatures
    <2>3. issued' \subseteq Encryptions'
      BY <1>1 DEF IInv, TypeOK, Encryptions
    <2> QED
      BY <1>1, <2>1, <2>2, <2>3 DEF IInv, TypeOK
  <1>4. SealsAreIssued' /\ IssuedAreSealed' /\ OnlyIssuedIsDecrypted'
    BY <1>1 DEF IInv, SealsAreIssued, IssuedAreSealed, OnlyIssuedIsDecrypted
  <1>5. TurnedDown'
    <2> SUFFICES ASSUME NEW c \in Clients, task[c].at = "answer", task[c].resp = denied("integrity")
                 PROVE  /\ task[c].req \in OpeningRequests(sigs, Bytes)
                        /\ \A data : task[c].req.sig # Signature(integrity_label, data)'
      BY <1>1 DEF TurnedDown, Signature, SigningKey
    <2>1. task[c].req \in OpeningRequests(sigs, Bytes)
      BY DEF IInv, TurnedDown
    <2>2. task[c].req.sig.key.gen \in 0..gen
      BY <1>2, <2>1, OpeningTypes
    <2>3. \A data : Signature(integrity_label, data)'.key.gen = gen + 1
      BY <1>1 DEF Signature, SigningKey
    <2> QED
      BY <1>1, <2>1, <2>2, <2>3
  <1> QED
    BY <1>3, <1>4, <1>5 DEF IInv

LEMMA NextIInv == IInv /\ [Next]_vars => IInv'
  <1> SUFFICES ASSUME IInv, [Next]_vars PROVE IInv'
    OBVIOUS
  <1>1. ASSUME NEW c \in Clients, Send(c) PROVE IInv'
    BY <1>1, SendStep, IntentFailsStep DEF Send
  <1>2. ASSUME NEW c \in Clients, Work(c) PROVE IInv'
    BY <1>2, SignStep, VerifyStep, EncryptStep, SealStep, CheckStep, DecryptStep, FailedStep
       DEF Work
  <1>3. ASSUME NEW c \in Clients, Answer(c) PROVE IInv'
    BY <1>3, AnswerStep
  <1>4. ASSUME ReplaceKey PROVE IInv'
    BY <1>4, ReplaceKeyStep
  <1>5. ASSUME UNCHANGED vars PROVE IInv'
    BY <1>5 DEF vars, IInv, TypeOK, Tasks, Signatures, Encryptions, SealsAreIssued,
                IssuedAreSealed, TurnedDown, OnlyIssuedIsDecrypted, Signature, SigningKey
  <1> QED
    BY <1>1, <1>2, <1>3, <1>4, <1>5 DEF Next

\* What was turned down is not sealed with the present key.
LEMMA IInvAccepts == IInv => IssuedIsAccepted
  <1> SUFFICES ASSUME IInv, NEW c \in Clients,
                      task[c].at = "answer", task[c].resp = denied("integrity"),
                      NEW e \in issued,
                      e.req.label = task[c].req.label, e.iv = task[c].req.iv,
                      e.ct = task[c].req.data, e.sig = task[c].req.sig,
                      e.sig.key.gen = gen
               PROVE  FALSE
    BY DEF IssuedIsAccepted
  <1> DEFINE data == integrity_payload(e.req.label, e.iv, e.ct)
  <1>1. e.sig # Signature(integrity_label, data)
    BY DEF IInv, TurnedDown
  <1>2. e.sig \in Signatures
    BY DEF IInv, TypeOK, Encryptions
  <1>3. e.sig.key.label = integrity_label /\ e.sig.data = data
    BY DEF IInv, IssuedAreSealed
  <1> HIDE DEF data
  <1>4. e.sig.key = [label |-> integrity_label, gen |-> gen]
    BY <1>2, <1>3 DEF Signatures
  <1>5. e.sig = Signature(integrity_label, data)
    BY <1>2, <1>3, <1>4 DEF Signatures, Signature, SigningKey
  <1> QED
    BY <1>1, <1>5

-----------------------------------------------------------------------------
(***************************************************************************)
(* When the label says which key: the claim of src/src/server.rs:320 in    *)
(* NoCrossKeyReplay.                                                       *)
(***************************************************************************)
AesOps == {"encrypt", "decrypt"} \cup DeriveOps

PeersOf(g) == IF g \in DOMAIN authz.peer_keys THEN authz.peer_keys[g] ELSE {}

\* The clients file gives a label to plain encryption or to derivation, and
\* to derivation with one peer key.
OneKeyPerLabel ==
    \A g, h \in {k \in authz.grants : k.op \in AesOps} :
        g.label = h.label =>
            /\ g.op \in DeriveOps <=> h.op \in DeriveOps
            /\ \A p \in PeersOf(g), q \in PeersOf(h) : p = q

\* Who uses AES keys, or did for what was given out, was allowed to.
UsesAreCleared ==
    /\ \A c \in Clients : task[c].at \in {"encrypt", "seal", "check", "decrypt"} =>
            Cleared(c, task[c].req)
    /\ \A e \in issued : \E c \in Clients : Cleared(c, e.req)

\* A step of one task.
LEMMA ClearedTask ==
    ASSUME IInv, UsesAreCleared, NEW c \in Clients, NEW new, task' = [task EXCEPT ![c] = new],
           new.at \in {"encrypt", "seal", "check", "decrypt"} => Cleared(c, new.req),
           issued' = issued
    PROVE  UsesAreCleared'
  <1>1. DOMAIN task = Clients
    BY DEF IInv, TypeOK
  <1>2. task'[c] = new /\ \A d \in Clients \ {c} : task'[d] = task[d]
    BY <1>1
  <1> QED
    BY <1>2 DEF UsesAreCleared, Cleared

LEMMA NextCleared == IInv /\ UsesAreCleared /\ [Next]_vars => UsesAreCleared'
  <1> SUFFICES ASSUME IInv, UsesAreCleared, [Next]_vars PROVE UsesAreCleared'
    OBVIOUS
  <1>1. ASSUME NEW c \in Clients, NEW req \in Request, Receive(c, req) PROVE UsesAreCleared'
    <2>1. PICK new : new = IF Cleared(c, req) THEN Running(FirstCall(req), req)
                           ELSE Answering(req, denied("authorization"))
      OBVIOUS
    <2>2. task' = [task EXCEPT ![c] = new] /\ issued' = issued
      BY <1>1, <2>1 DEF Receive
    <2>3. new.at # "answer" => Cleared(c, new.req)
      BY <2>1 DEF Running, Answering
    <2> QED
      BY <2>2, <2>3, ClearedTask
  <1>2. ASSUME NEW c \in Clients, NEW resp, task' = [task EXCEPT ![c] = Answering(task[c].req, resp)],
               issued' = issued
        PROVE  UsesAreCleared'
    <2>1. PICK new : new = Answering(task[c].req, resp)
      OBVIOUS
    <2>2. new.at = "answer" /\ task' = [task EXCEPT ![c] = new]
      BY <1>2, <2>1 DEF Answering
    <2> QED
      BY <1>2, <2>2, ClearedTask
  <1>3. ASSUME NEW c \in Clients, Sign(c) PROVE UsesAreCleared'
    BY <1>2, <1>3 DEF Sign
  <1>4. ASSUME NEW c \in Clients, Verify(c) PROVE UsesAreCleared'
    <2>1. PICK resp : resp = Verified(task[c].req.sig = Signature(task[c].req.label, task[c].req.data))
      OBVIOUS
    <2>2. task' = [task EXCEPT ![c] = Answering(task[c].req, resp)] /\ issued' = issued
      BY <1>4, <2>1 DEF Verify
    <2> QED
      BY <1>2, <2>2
  <1>5. ASSUME NEW c \in Clients, NEW iv \in Ivs, NEW ct \in Ciphertexts, Encrypt(c, iv, ct)
        PROVE  UsesAreCleared'
    <2>1. PICK new : new = [at |-> "seal", req |-> task[c].req, iv |-> iv, ct |-> ct]
      OBVIOUS
    <2>2. task' = [task EXCEPT ![c] = new] /\ issued' = issued /\ task[c].at = "encrypt"
      BY <1>5, <2>1 DEF Encrypt
    <2>3. Cleared(c, new.req)
      BY <2>1, <2>2 DEF UsesAreCleared
    <2> QED
      BY <2>2, <2>3, ClearedTask
  <1>6. ASSUME NEW c \in Clients, Seal(c) PROVE UsesAreCleared'
    <2>1. PICK e, new :
            /\ task[c].at = "seal" /\ e.req = task[c].req /\ new.at = "answer"
            /\ task' = [task EXCEPT ![c] = new] /\ issued' = issued \cup {e}
      BY <1>6 DEF Seal, Answering
    <2>2. Cleared(c, e.req)
      BY <2>1 DEF UsesAreCleared
    <2>3. DOMAIN task = Clients
      BY DEF IInv, TypeOK
    <2>4. \A d \in Clients : task'[d] = new \/ task'[d] = task[d]
      BY <2>1, <2>3
    <2> QED
      BY <2>1, <2>2, <2>4 DEF UsesAreCleared, Cleared
  <1>7. ASSUME NEW c \in Clients, Check(c) PROVE UsesAreCleared'
    <2>1. PICK new : new = IF check_integrity(task[c].req) THEN Running("decrypt", task[c].req)
                           ELSE Answering(task[c].req, denied("integrity"))
      OBVIOUS
    <2>2. task' = [task EXCEPT ![c] = new] /\ issued' = issued /\ task[c].at = "check"
      BY <1>7, <2>1 DEF Check
    <2>3. new.req = task[c].req
      BY <2>1 DEF Running, Answering
    <2>4. Cleared(c, new.req)
      BY <2>2, <2>3 DEF UsesAreCleared
    <2> QED
      BY <2>2, <2>4, ClearedTask
  <1>8. ASSUME NEW c \in Clients, Decrypt(c) PROVE UsesAreCleared'
    <2>1. PICK resp : task' = [task EXCEPT ![c] = Answering(task[c].req, resp)]
      BY <1>8 DEF Decrypt
    <2> QED
      BY <1>2, <1>8, <2>1 DEF Decrypt
  <1>9. ASSUME NEW c \in Clients, HsmFails(c) \/ LoginRefused(c) PROVE UsesAreCleared'
    BY <1>2, <1>9 DEF HsmFails, LoginRefused
  <1>10. ASSUME NEW c \in Clients, Answer(c) PROVE UsesAreCleared'
    BY <1>10, ClearedTask DEF Answer, Idle
  <1>11. ASSUME UNCHANGED <<task, issued>> PROVE UsesAreCleared'
    BY <1>11 DEF UsesAreCleared, Cleared
  <1>12. ASSUME NEW c \in Clients, Send(c) PROVE UsesAreCleared'
    <2>1. ASSUME NEW req \in Request, IntentFails(c, req) PROVE UsesAreCleared'
      <3>1. PICK new : new = Answering(req, err("audit"))
        OBVIOUS
      <3>2. task' = [task EXCEPT ![c] = new] /\ issued' = issued /\ new.at = "answer"
        BY <2>1, <3>1 DEF IntentFails, Answering
      <3> QED
        BY <3>2, ClearedTask
    <2> QED
      BY <1>1, <1>12, <2>1 DEF Send
  <1>13. ASSUME NEW c \in Clients, Work(c) PROVE UsesAreCleared'
    BY <1>3, <1>4, <1>5, <1>6, <1>7, <1>8, <1>9, <1>13 DEF Work
  <1> QED
    BY <1>10, <1>11, <1>12, <1>13 DEF Next, ReplaceKey, vars

\* Two requests cleared for one label use one key.
LEMMA OneKey ==
    ASSUME OneKeyPerLabel, NEW c, NEW d, NEW r, NEW q, Cleared(c, r), Cleared(d, q),
           r.label = q.label, r.op \in AesOps, q.op \in AesOps
    PROVE  AesKey(r) = AesKey(q)
  <1>1. PICK g, h : /\ g = [cn |-> c, op |-> r.op, label |-> r.label]
                    /\ h = [cn |-> d, op |-> q.op, label |-> q.label]
    OBVIOUS
  <1>2. /\ g \in authz.grants /\ g.op = r.op /\ g.label = r.label
        /\ h \in authz.grants /\ h.op = q.op /\ h.label = q.label
    BY <1>1 DEF Cleared, is_authorized
  <1>3. /\ r.op \in DeriveOps <=> q.op \in DeriveOps
        /\ \A p1 \in PeersOf(g), p2 \in PeersOf(h) : p1 = p2
    BY <1>2 DEF OneKeyPerLabel
  <1>4. CASE r.op \notin DeriveOps
    BY <1>3, <1>4 DEF AesKey
  <1>5. CASE r.op \in DeriveOps
    <2>1. r.peer \in PeersOf(g) /\ q.peer \in PeersOf(h)
      BY <1>1, <1>3, <1>5 DEF Cleared, is_peer_key_authorized, PeersOf
    <2>2. r.peer = q.peer
      BY <1>3, <2>1
    <2> QED
      BY <1>3, <1>5, <2>2 DEF AesKey
  <1> QED
    BY <1>4, <1>5

LEMMA ClearedStaysWithKey ==
    ASSUME OneKeyPerLabel, IInv, UsesAreCleared
    PROVE  NoCrossKeyReplay
  <1> SUFFICES ASSUME NEW c \in Clients, task[c].at = "decrypt" PROVE Source(task[c].req) # {}
    BY DEF NoCrossKeyReplay
  <1>1. PICK req : req = task[c].req
    OBVIOUS
  <1>2. req.op \in AesOps /\ Cleared(c, req)
    <2>1. req \in OpeningRequests(sigs, Bytes)
      BY <1>1, TaskTypes DEF IInv
    <2> QED
      BY <1>1, <2>1 DEF OpeningRequests, AesOps, DeriveOps, UsesAreCleared
  <1>3. PICK e \in issued : e.req.label = req.label /\ e.iv = req.iv /\ e.ct = req.data
    BY <1>1 DEF IInv, OnlyIssuedIsDecrypted
  <1>4. PICK d \in Clients : Cleared(d, e.req)
    BY DEF UsesAreCleared
  <1>5. e.req.op \in AesOps
    BY DEF IInv, TypeOK, Encryptions, SealingRequests, AesOps, DeriveOps
  <1>6. PICK q : q = e.req
    OBVIOUS
  <1>7. AesKey(q) = AesKey(req)
    BY <1>2, <1>3, <1>4, <1>5, <1>6, OneKey
  <1>8. e \in Source(req)
    BY <1>3, <1>6, <1>7 DEF Source
  <1> QED
    BY <1>1, <1>8

-----------------------------------------------------------------------------
(***************************************************************************)
(* The theorems.                                                           *)
(***************************************************************************)
\* The types, and that no client has anything signed with the integrity key
\* (is_authorized before execute, src/src/server.rs:125-134).
THEOREM TypeCorrect == Spec => []TypeOK
  <1>1. IInv => TypeOK
    BY DEF IInv
  <1> QED
    BY InitIInv, NextIInv, <1>1, PTL DEF Spec

\* Whatever clients recombine, only ciphertexts the gateway gave out reach
\* the token's decryption (check_integrity, src/src/server.rs:307-315).
THEOREM DecryptsOnlyIssued == Spec => []OnlyIssuedIsDecrypted
  <1>1. IInv => OnlyIssuedIsDecrypted
    BY DEF IInv
  <1> QED
    BY InitIInv, NextIInv, <1>1, PTL DEF Spec

\* What the gateway gave out passes check_integrity
\* (src/src/server.rs:293-330) as long as the integrity key is the same.
THEOREM AcceptsIssued == Spec => []IssuedIsAccepted
  BY InitIInv, NextIInv, IInvAccepts, PTL DEF Spec

\* "The bound key label prevents cross-key replay of a ciphertext"
\* (src/src/server.rs:320), which the code alone does not ensure, is true
\* wherever the clients file gives each label to one key.
THEOREM NoReplayWithOneKey ==
    ASSUME OneKeyPerLabel
    PROVE  Spec => []NoCrossKeyReplay
  <1>1. Init => UsesAreCleared
    BY DEF Init, UsesAreCleared, Idle
  <1>2. IInv /\ UsesAreCleared => NoCrossKeyReplay
    BY ClearedStaysWithKey
  <1> QED
    BY InitIInv, NextIInv, NextCleared, <1>1, <1>2, PTL DEF Spec
=============================================================================
