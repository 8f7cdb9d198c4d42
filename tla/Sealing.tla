------------------------------ MODULE Sealing ------------------------------
(***************************************************************************)
(* Encrypt-then-Sign of src/src/server.rs: what goes into an integrity     *)
(* signature, who can get one, and what a ciphertext has to bring along    *)
(* before the token decrypts it.                                           *)
(*                                                                         *)
(* Labels, IVs, plaintexts and ciphertexts are byte strings, because the   *)
(* signed payload is put together from them.  Signatures and AES are       *)
(* ideal: a signature verifies for the key and the bytes it was made with  *)
(* and for no others, and a ciphertext says nothing under another key.     *)
(* Each client has one connection.  Whatever clients were ever given they  *)
(* share, take apart and recombine.  Of the audit log and of the PKCS#11   *)
(* sessions, which are in Gateway, only their errors are here: an intent   *)
(* that cannot be written, and a login refused while another task works.   *)
(***************************************************************************)
EXTENDS Naturals, Sequences, AuthzTable

CONSTANTS
    Clients,           \* the CNs of the clients
    authz,             \* the AuthzTable loaded at startup
    integrity_label,   \* the label of the key that seals
    INTEGRITY_DOMAIN,
    Labels, Peers,     \* labels and peer keys in requests
    Ivs,               \* what the token's random generator returns
    Plaintexts, Ciphertexts,
    SignedTexts,       \* what clients ask signatures for
    MaxRequests,       \* bound on the requests of a client
    MaxFaults          \* bound on failures of the HSM and of the log, and on replaced keys

Bytes == Seq(Nat)

ASSUME SealingConstants ==
    /\ integrity_label \in Bytes /\ INTEGRITY_DOMAIN \in Bytes
    /\ Labels \subseteq Bytes
    /\ Ivs \subseteq Bytes
    /\ Ciphertexts \subseteq Bytes
    /\ SignedTexts \subseteq Bytes
    /\ MaxRequests \in Nat /\ MaxFaults \in Nat
    \* Authz never grants it (IntegrityKeyNeverGranted there).
    /\ \A g \in authz.grants : g.label # integrity_label

VARIABLES
    task,      \* per client, where its connection's task is
    sigs,      \* the signatures the gateway has given out
    issued,    \* the encryptions it has given out
    gen,       \* how often the integrity key was replaced
    sent,      \* per client, the requests it has sent
    faults     \* failures and replacements so far

vars == <<task, sigs, issued, gen, sent, faults>>

-----------------------------------------------------------------------------
(***************************************************************************)
(* Keys and payloads.                                                      *)
(***************************************************************************)
Opens == {"decrypt", "derive_and_decrypt"}

\* The key pair that signs for a label.
SigningKey(label) == [label |-> label, gen |-> IF label = integrity_label THEN gen ELSE 0]

Signature(label, data) == [key |-> SigningKey(label), data |-> data]

\* The AES key of a request: the secret key of the label, or the one derived
\* from the label's private key and the peer's public key.
AesKey(req) ==
    IF req.op \in DeriveOps THEN <<"derived", req.label, req.peer>> ELSE <<"secret", req.label>>

Prefixed(part) == <<Len(part)>> \o part

\* Mutant of integrity_payload: no lengths.
PayloadUnprefixed(label, iv, ct) == INTEGRITY_DOMAIN \o label \o iv \o ct

integrity_payload(label, iv, ct) ==
    Prefixed(INTEGRITY_DOMAIN) \o (Prefixed(label) \o (Prefixed(iv) \o Prefixed(ct)))

-----------------------------------------------------------------------------
(***************************************************************************)
(* Requests and responses.                                                 *)
(***************************************************************************)
SealingRequests == [op : {"encrypt"}, label : Labels, data : Plaintexts]
    \cup [op : {"derive_and_encrypt"}, label : Labels, peer : Peers, data : Plaintexts]

SigningRequests == [op : {"sign"}, label : Labels \cup {integrity_label}, data : SignedTexts]

\* With a signature of ss.  No signature at all fares as a wrong one.
VerifyRequests(ss) == [op : {"verify"}, label : Labels, data : SignedTexts, sig : ss]

OpeningRequests(ss, ciphertexts) ==
    [op : {"decrypt"}, label : Labels, data : ciphertexts, iv : Ivs \cup {<< >>}, sig : ss]
    \cup [op : {"derive_and_decrypt"}, label : Labels, peer : Peers, data : ciphertexts,
          iv : Ivs \cup {<< >>}, sig : ss]

Request ==
    SealingRequests \cup SigningRequests \cup VerifyRequests(sigs)
    \cup OpeningRequests(sigs, Ciphertexts)

ok_result(result) == [status |-> "ok", result |-> result]

Verified(valid) == [status |-> "ok", verified |-> valid]

Sealed(e) == [status |-> "ok", result |-> e.ct, iv |-> e.iv, integrity |-> e.sig]

\* why is the cause, for the properties.
denied(why) == [status |-> "denied", why |-> why]

err(why) == [status |-> "error", why |-> why]

Idle == [at |-> "idle"]

\* In an HSM call of execute.
Running(at, req) == [at |-> at, req |-> req]

Answering(req, resp) == [at |-> "answer", req |-> req, resp |-> resp]

-----------------------------------------------------------------------------
(***************************************************************************)
(* process_line and execute, up to the first HSM call.                     *)
(***************************************************************************)
\* Mutant of Cleared: sign is granted with every label.
ClearedToSign(c, req) ==
    \/ req.op = "sign"
    \/ /\ is_authorized(authz, c, req.op, req.label)
       /\ req.op \in DeriveOps => is_peer_key_authorized(authz, c, req.op, req.label, req.peer)

Cleared(c, req) ==
    /\ is_authorized(authz, c, req.op, req.label)
    /\ req.op \in DeriveOps => is_peer_key_authorized(authz, c, req.op, req.label, req.peer)

\* The first HSM call.
FirstCall(req) ==
    IF req.op \in {"sign", "verify"} THEN req.op
    ELSE IF req.op \in Opens THEN "check" ELSE "encrypt"

Receive(c, req) ==
    /\ task[c] = Idle
    /\ task' = [task EXCEPT ![c] = IF Cleared(c, req) THEN Running(FirstCall(req), req)
                                   ELSE Answering(req, denied("authorization"))]
    /\ UNCHANGED <<sigs, issued, gen, faults>>

\* The intent cannot be written: the request is turned down before the HSM.
IntentFails(c, req) ==
    /\ faults < MaxFaults
    /\ faults' = faults + 1
    /\ task[c] = Idle /\ Cleared(c, req)
    /\ task' = [task EXCEPT ![c] = Answering(req, err("audit"))]
    /\ UNCHANGED <<sigs, issued, gen>>

-----------------------------------------------------------------------------
(***************************************************************************)
(* The HSM calls.                                                          *)
(***************************************************************************)
Sign(c) ==
    /\ task[c].at = "sign"
    /\ LET sig == Signature(task[c].req.label, task[c].req.data)
       IN  /\ sigs' = sigs \cup {sig}
           /\ task' = [task EXCEPT ![c] = Answering(@.req, ok_result(sig))]
    /\ UNCHANGED <<issued, gen, sent, faults>>

Verify(c) ==
    /\ task[c].at = "verify"
    /\ LET req == task[c].req
       IN  task' = [task EXCEPT ![c] =
                Answering(req, Verified(req.sig = Signature(req.label, req.data)))]
    /\ UNCHANGED <<sigs, issued, gen, sent, faults>>

\* The IVs in use.  Fresh random IVs are taken to be different.
UsedIvs == {e.iv : e \in issued} \cup {task[c].iv : c \in {d \in Clients : task[d].at = "seal"}}

Encrypt(c, iv, ct) ==
    /\ task[c].at = "encrypt"
    /\ iv \in Ivs \ UsedIvs
    /\ task' = [task EXCEPT ![c] = [at |-> "seal", req |-> @.req, iv |-> iv, ct |-> ct]]
    /\ UNCHANGED <<sigs, issued, gen, sent, faults>>

\* Mutant of Seal: the plaintext is sealed.
SealPlaintext(c) ==
    /\ task[c].at = "seal"
    /\ LET t == task[c]
           sig == Signature(integrity_label, integrity_payload(t.req.label, t.iv, t.req.data))
           e == [req |-> t.req, iv |-> t.iv, ct |-> t.ct, sig |-> sig]
       IN  /\ sigs' = sigs \cup {sig}
           /\ issued' = issued \cup {e}
           /\ task' = [task EXCEPT ![c] = Answering(t.req, Sealed(e))]
    /\ UNCHANGED <<gen, sent, faults>>

\* The ciphertext leaves the gateway together with its seal.
Seal(c) ==
    /\ task[c].at = "seal"
    /\ LET t == task[c]
           sig == Signature(integrity_label, integrity_payload(t.req.label, t.iv, t.ct))
           e == [req |-> t.req, iv |-> t.iv, ct |-> t.ct, sig |-> sig]
       IN  /\ sigs' = sigs \cup {sig}
           /\ issued' = issued \cup {e}
           /\ task' = [task EXCEPT ![c] = Answering(t.req, Sealed(e))]
    /\ UNCHANGED <<gen, sent, faults>>

\* Mutant of check_integrity: any seal that was made with the key will do.
check_key_only(req) == req.sig.key = SigningKey(integrity_label)

check_integrity(req) ==
    req.sig = Signature(integrity_label, integrity_payload(req.label, req.iv, req.data))

Check(c) ==
    /\ task[c].at = "check"
    /\ task' = [task EXCEPT ![c] =
            IF check_integrity(@.req) THEN Running("decrypt", @.req)
            ELSE Answering(@.req, denied("integrity"))]
    /\ UNCHANGED <<sigs, issued, gen, sent, faults>>

\* The encryptions a request's ciphertext comes from, under its own key.
Source(req) == {e \in issued : AesKey(e.req) = AesKey(req) /\ e.iv = req.iv /\ e.ct = req.data}

\* Under another key the padding is wrong, or by chance right and the
\* plaintext is anything.
Decrypt(c) ==
    /\ task[c].at = "decrypt"
    /\ LET req == task[c].req
       IN  \E resp \in IF req.iv = << >> THEN {err("iv")}
                       ELSE IF Source(req) = {}
                            THEN {err("padding")} \cup {ok_result(t) : t \in Plaintexts}
                       ELSE {ok_result(e.req.data) : e \in Source(req)} :
                task' = [task EXCEPT ![c] = Answering(req, resp)]
    /\ UNCHANGED <<sigs, issued, gen, sent, faults>>

InCall(c) == task[c].at \in {"sign", "verify", "encrypt", "seal", "decrypt", "check"}

\* The response to a call that returned an error.  A check that fails rejects.
Failed(call, why) == IF call = "check" THEN denied(why) ELSE err(why)

\* Any of the calls fails in the HSM.
HsmFails(c) ==
    /\ faults < MaxFaults
    /\ faults' = faults + 1
    /\ InCall(c)
    /\ task' = [task EXCEPT ![c] = Answering(@.req, Failed(@.at, "hsm"))]
    /\ UNCHANGED <<sigs, issued, gen, sent>>

\* Any of the calls finds another task logged in, and its own login is
\* refused.  Nothing has failed in the HSM.
LoginRefused(c) ==
    /\ InCall(c)
    /\ \E d \in Clients \ {c} : InCall(d)
    /\ task' = [task EXCEPT ![c] = Answering(@.req, Failed(@.at, "login"))]
    /\ UNCHANGED <<sigs, issued, gen, sent, faults>>

\* The client gets its answer.
Answer(c) ==
    /\ task[c].at = "answer"
    /\ task' = [task EXCEPT ![c] = Idle]
    /\ UNCHANGED <<sigs, issued, gen, sent, faults>>

\* The operator replaces the integrity key in the token.
ReplaceKey ==
    /\ faults < MaxFaults
    /\ faults' = faults + 1
    /\ gen' = gen + 1
    /\ UNCHANGED <<task, sigs, issued, sent>>

-----------------------------------------------------------------------------
Init ==
    /\ task = [c \in Clients |-> Idle]
    /\ sigs = {}
    /\ issued = {}
    /\ gen = 0
    /\ sent = [c \in Clients |-> 0]
    /\ faults = 0

\* A client sends any request it can put together.
Send(c) ==
    /\ sent[c] < MaxRequests
    /\ sent' = [sent EXCEPT ![c] = @ + 1]
    /\ \E req \in Request : Receive(c, req) \/ IntentFails(c, req)

Work(c) ==
    \/ Sign(c) \/ Verify(c)
    \/ \E iv \in Ivs, ct \in Ciphertexts : Encrypt(c, iv, ct)
    \/ Seal(c) \/ Check(c) \/ Decrypt(c)
    \/ HsmFails(c) \/ LoginRefused(c)

Next ==
    \/ \E c \in Clients : Send(c) \/ Work(c) \/ Answer(c)
    \/ ReplaceKey

Spec == Init /\ [][Next]_vars

-----------------------------------------------------------------------------
(***************************************************************************)
(* Properties.                                                             *)
(***************************************************************************)
\* Where tasks are and what they carry.
Tasks ==
    {Idle} \cup [at : {"sign"}, req : SigningRequests]
    \cup [at : {"encrypt"}, req : SealingRequests]
    \cup [at : {"seal"}, req : SealingRequests, iv : Ivs, ct : Ciphertexts]
    \cup [at : {"verify"}, req : VerifyRequests(sigs)]
    \cup [at : {"check", "decrypt"}, req : OpeningRequests(sigs, Bytes)]

Signatures == [key : [label : Labels \cup {integrity_label}, gen : 0..gen], data : Bytes]

Encryptions == [req : SealingRequests, iv : Ivs, ct : Ciphertexts, sig : sigs]

\* The variables have their types, and nothing is signed for a client with
\* the integrity key.
TypeOK ==
    /\ gen \in Nat
    /\ sigs \subseteq Signatures
    /\ issued \subseteq Encryptions
    /\ DOMAIN task = Clients
    /\ \A c \in Clients : task[c] \in Tasks \/ task[c].at = "answer"
    /\ \A c \in Clients : task[c].at = "sign" => task[c].req.label # integrity_label

\* "tampered data never reaches the PKCS#11 unpadding" (src/README.md:96):
\* what is decrypted is a ciphertext the gateway has given out, for the same
\* label, with the same IV, and with that very seal.
OnlyIssuedIsDecrypted ==
    \A c \in Clients :
        task[c].at = "decrypt" =>
            \E e \in issued :
                /\ e.req.label = task[c].req.label
                /\ e.iv = task[c].req.iv
                /\ e.ct = task[c].req.data
                /\ e.sig = task[c].req.sig

\* The converse: what the gateway gave out is not turned down for its seal,
\* unless the integrity key was replaced since ("replacing this key orphans
\* all previously encrypted data", src/docs/16-real-hardware-and-cert-rotation.md:42).
IssuedIsAccepted ==
    \A c \in Clients :
        task[c].at = "answer" /\ task[c].resp = denied("integrity") =>
            \A e \in issued :
                /\ e.req.label = task[c].req.label
                /\ e.iv = task[c].req.iv
                /\ e.ct = task[c].req.data
                /\ e.sig = task[c].req.sig
                => e.sig.key.gen # gen

\* "The bound key label prevents cross-key replay of a ciphertext"
\* (src/src/server.rs:320): what is decrypted was encrypted with that key.
NoCrossKeyReplay ==
    \A c \in Clients : task[c].at = "decrypt" => Source(task[c].req) # {}
=============================================================================
