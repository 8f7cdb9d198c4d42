------------------------------- MODULE Gateway -------------------------------
(***************************************************************************)
(* The gateway of src/src/server.rs: connections that take requests through *)
(* authorization, the audit intent, the HSM, the closing audit entry and   *)
(* the answer, each on a task of its own.  It composes AuditLog and        *)
(* HsmClient, whose callers are the connections, and asks AuthzTable.      *)
(*                                                                         *)
(* What a task does by itself between two shared accesses is part of the   *)
(* step of the access that follows.  A request is reduced to what the      *)
(* server's conditions tell apart; a connection, a certificate and a       *)
(* client's reaction to an answer are chosen freely.                       *)
(***************************************************************************)
EXTENDS Naturals, Sequences, AuthzTable

CONSTANTS
    Conns,            \* connections, each of one client
    CnOf,             \* the CN of a connection's certificate
    authz,            \* the AuthzTable loaded at startup
    integrity_label,  \* the label of the key that seals ciphertexts
    Requests,         \* the lines clients may send
    Certs,            \* "fine", "expiring", "too_long" certificates
    KeyLabels, Objects, Slots,        \* see HsmClient
    MaxRequests,      \* bound on the lines read from a connection
    MaxLines, MaxFaults               \* see AuditLog

\* What lines a Request is made of; and from_raw leaves no grant of the
\* integrity key in the table (Authz).
ASSUME GatewayConstants ==
    /\ MaxRequests \in Nat /\ MaxLines \in Nat /\ MaxFaults \in Nat
    /\ \A line \in Requests :
        /\ line.parses \in BOOLEAN
        /\ line.parses =>
            /\ line.op \in Operation /\ line.label \in KeyLabels
            /\ {line.decodes, line.valid, line.ivOk, line.sealed} \subseteq BOOLEAN
    /\ integrity_label \in KeyLabels
    /\ \A g \in authz.grants : g.label # integrity_label
    /\ Objects \in [KeyLabels -> [{"PRIVATE_KEY", "PUBLIC_KEY", "SECRET_KEY"} -> Nat]]
    /\ "no slot" \notin Slots

VARIABLES
    conn,             \* per connection, where its task is
    served,           \* per connection, the lines read from it so far
    file, newline, last, status, calls, faults, overlapped, torn,
    tokens, slot, sessions, loggedIn, derived, work

gatewayVars == <<conn, served>>

logVars == <<file, newline, last, status, calls, faults, overlapped, torn>>

hsmVars == <<tokens, slot, sessions, loggedIn, derived, work>>

\* outcome is an Outcome of src/src/audit.rs.  An entry about a request says
\* which one; n = 0 is about the connection.
Entries == [conn : Conns, n : 0..MaxRequests,
            outcome : {"intent", "authorized", "denied", "error", "cert_expiring_soon"}]

A == INSTANCE AuditLog WITH Callers <- Conns, Bodies <- Entries

H == INSTANCE HsmClient WITH Callers <- Conns, Labels <- KeyLabels

vars == <<gatewayVars, logVars, hsmVars>>

-----------------------------------------------------------------------------
(***************************************************************************)
(* Requests.                                                               *)
(*                                                                         *)
(*   parses    the line is a Request                                       *)
(*   op, label, peer                                                       *)
(*   decodes   peer_public_key_b64 is base64                               *)
(*   valid     the mechanisms are supported and all other base64 decodes   *)
(*   ivOk      the IV has 16 bytes                                         *)
(*   sealed    the integrity signature fits the label, IV and ciphertext   *)
(***************************************************************************)
IsAuthorized(k, req) == is_authorized(authz, CnOf[k], req.op, req.label)

\* Mutant of Cleared: a peer key that is base64 is taken for an allowed one.
ClearedWithAnyPeer(k, req) ==
    /\ IsAuthorized(k, req)
    /\ req.op \in DeriveOps => req.decodes

\* Steps 1 and 2 of process_line let the request pass.
Cleared(k, req) ==
    /\ IsAuthorized(k, req)
    /\ req.op \in DeriveOps =>
        /\ req.decodes
        /\ is_peer_key_authorized(authz, CnOf[k], req.op, req.label, req.peer)

Opens == {"decrypt", "derive_and_decrypt"}

\* The HSM calls of execute, in order.  Sealing follows an encryption;
\* check_integrity precedes a decryption.
Plan(req) ==
    LET call(f, label) == [f |-> f, label |-> label]
        seal == call("sign_ecdsa_sha256", integrity_label)
        check == call("verify_ecdsa_sha256", integrity_label)
    IN  CASE req.op = "sign" -> <<call("sign_ecdsa_sha256", req.label)>>
          [] req.op = "verify" -> <<call("verify_ecdsa_sha256", req.label)>>
          [] req.op = "encrypt" -> <<call("encrypt_aes_cbc_pad", req.label), seal>>
          [] req.op = "decrypt" -> <<check, call("decrypt_aes_cbc_pad", req.label)>>
          [] req.op = "derive_and_encrypt" -> <<call("derive_and_encrypt", req.label), seal>>
          [] req.op = "derive_and_decrypt" -> <<check, call("derive_and_decrypt", req.label)>>

\* The task of a connection k is at check_integrity.
Checking(k) == conn[k].req.op \in Opens /\ Len(conn[k].plan) = 2

\* Mutant of Outcome: a rejected ciphertext is logged as an error.
OutcomeLumped(resp) == IF resp = "ok" THEN "authorized" ELSE "error"

\* The outcome of the closing entry for a response.
Outcome(resp) == IF resp = "ok" THEN "authorized" ELSE resp

-----------------------------------------------------------------------------
(***************************************************************************)
(* Where a task is.                                                        *)
(***************************************************************************)
Closed == [at |-> "closed"]

Ready == [at |-> "ready"]

\* In audit.append, for one of the calls of server.rs.
Logging(why, req, resp) == [at |-> "log", why |-> why, req |-> req, resp |-> resp]

\* In execute, before or in the first HSM call of plan.
Running(req, plan) == [at |-> "run", req |-> req, plan |-> plan]

\* After execute returned.
Executed(req, resp) == [at |-> "executed", req |-> req, resp |-> resp]

\* About to write the response; logged is whether the append before it
\* returned Ok.
Answering(req, resp, why, logged) ==
    [at |-> "answer", req |-> req, resp |-> resp, why |-> why, logged |-> logged]

Body(k, n, outcome) == [conn |-> k, n |-> n, outcome |-> outcome]

-----------------------------------------------------------------------------
(***************************************************************************)
(* The process: main opens the audit log, then connects to the HSM; a      *)
(* failure of either ends it.  Ending drops all tasks.                     *)
(***************************************************************************)
Start ==
    /\ A!Open
    /\ \/ status' = "up" /\ H!Connect
       \/ status' # "up" /\ UNCHANGED hsmVars
    /\ UNCHANGED gatewayVars

Exit ==
    /\ A!Crash \/ A!PowerLoss \/ \E k \in Conns : A!CrashMidWrite(k)
    /\ H!Exit
    /\ conn' = [k \in Conns |-> Closed]
    /\ UNCHANGED served

MoveToken ==
    /\ \E s \in Slots : H!Unplug(s) \/ H!Plug(s)
    /\ UNCHANGED <<gatewayVars, logVars>>

-----------------------------------------------------------------------------
(***************************************************************************)
(* handle_connection.                                                      *)
(***************************************************************************)
Accept(k) ==
    /\ status = "up"
    /\ conn[k] = Closed
    /\ "fine" \in Certs
    /\ conn' = [conn EXCEPT ![k] = Ready]
    /\ UNCHANGED <<served, logVars, hsmVars>>

\* The two cases of the certificate policy that write an audit entry.
AcceptAudited(k, cert) ==
    /\ conn[k] = Closed
    /\ \/ cert = "expiring" /\ A!Begin(k, Body(k, 0, "cert_expiring_soon"))
       \/ cert = "too_long" /\ A!Begin(k, Body(k, 0, "denied"))
    /\ conn' = [conn EXCEPT ![k] = Logging(cert, << >>, "none")]
    /\ UNCHANGED <<served, hsmVars>>

\* Mutant of Disconnect: the task is dropped when the client goes, wherever
\* it is.
DisconnectAborts(k) ==
    /\ conn[k] # Closed
    /\ conn' = [conn EXCEPT ![k] = Closed]
    /\ UNCHANGED <<served, logVars, hsmVars>>

\* The client closes the connection between two requests.
Disconnect(k) ==
    /\ conn[k] = Ready
    /\ conn' = [conn EXCEPT ![k] = Closed]
    /\ UNCHANGED <<served, logVars, hsmVars>>

\* The response is written, once the client takes it: writer.write_all has no
\* time limit.  Or the write fails and the loop ends.
Answer(k) ==
    /\ conn[k].at = "answer"
    /\ \E next \in {Ready, Closed} : conn' = [conn EXCEPT ![k] = next]
    /\ UNCHANGED <<served, logVars, hsmVars>>

-----------------------------------------------------------------------------
(***************************************************************************)
(* process_line.                                                           *)
(***************************************************************************)
Receive(k) ==
    /\ conn[k] = Ready
    /\ served[k] < MaxRequests
    /\ served' = [served EXCEPT ![k] = @ + 1]

\* A line that is no Request is answered without an audit entry.
ReceiveMalformed(k, line) ==
    /\ Receive(k)
    /\ ~line.parses
    /\ conn' = [conn EXCEPT ![k] = Answering(line, "error", "malformed", FALSE)]
    /\ UNCHANGED <<logVars, hsmVars>>

\* Mutant of ReceiveDenied: the intent comes before the authorization.
ReceiveDeniedAfterIntent(k, line) ==
    /\ Receive(k)
    /\ line.parses
    /\ ~Cleared(k, line)
    /\ A!Begin(k, Body(k, served'[k], "intent"))
    /\ conn' = [conn EXCEPT ![k] = Logging("denied", line, "denied")]
    /\ UNCHANGED hsmVars

ReceiveDenied(k, line) ==
    /\ Receive(k)
    /\ line.parses
    /\ ~Cleared(k, line)
    /\ A!Begin(k, Body(k, served'[k], "denied"))
    /\ conn' = [conn EXCEPT ![k] = Logging("denied", line, "denied")]
    /\ UNCHANGED hsmVars

ReceiveCleared(k, line) ==
    /\ Receive(k)
    /\ line.parses
    /\ Cleared(k, line)
    /\ A!Begin(k, Body(k, served'[k], "intent"))
    /\ conn' = [conn EXCEPT ![k] = Logging("intent", line, "none")]
    /\ UNCHANGED hsmVars

\* Mutant of AfterAppend: the intent's error is not looked at either.
AfterAppendIgnored(k, ok) ==
    LET c == conn[k]
    IN  CASE c.why = "expiring" -> Ready
          [] c.why = "too_long" -> Closed
          [] c.why = "intent" /\ c.req.valid -> Running(c.req, Plan(c.req))
          [] c.why = "intent" /\ ~c.req.valid -> Executed(c.req, "error")
          [] OTHER -> Answering(c.req, c.resp, c.why, ok)

\* Mutant of AfterAppend: an answer waits for its closing entry.
AfterAppendWaits(k, ok) ==
    LET c == conn[k]
    IN  CASE c.why = "expiring" -> Ready
          [] c.why = "too_long" -> Closed
          [] c.why = "intent" /\ ~ok -> Answering(c.req, "error", c.why, ok)
          [] c.why = "intent" /\ ok /\ c.req.valid -> Running(c.req, Plan(c.req))
          [] c.why = "intent" /\ ok /\ ~c.req.valid -> Executed(c.req, "error")
          [] OTHER -> IF ok THEN Answering(c.req, c.resp, c.why, ok) ELSE c

\* What follows an append, ok or not.  Only the intent's error is looked at:
\* the others are let _ = self.audit.append(..).
AfterAppend(k, ok) ==
    LET c == conn[k]
    IN  CASE c.why = "expiring" -> Ready
          [] c.why = "too_long" -> Closed
          [] c.why = "intent" /\ ~ok -> Answering(c.req, "error", c.why, ok)
          [] c.why = "intent" /\ ok /\ c.req.valid -> Running(c.req, Plan(c.req))
          [] c.why = "intent" /\ ok /\ ~c.req.valid -> Executed(c.req, "error")
          [] OTHER -> Answering(c.req, c.resp, c.why, ok)

AppendWrites(k) ==
    /\ A!WriteOk(k)
    /\ UNCHANGED <<gatewayVars, hsmVars>>

AppendOk(k) ==
    /\ A!Publish(k)
    /\ conn' = [conn EXCEPT ![k] = AfterAppend(k, TRUE)]
    /\ UNCHANGED <<served, hsmVars>>

AppendFails(k) ==
    /\ A!WriteFails(k) \/ A!WriteTorn(k)
    /\ conn' = [conn EXCEPT ![k] = AfterAppend(k, FALSE)]
    /\ UNCHANGED <<served, hsmVars>>

\* execute enters the next HSM call.
HsmCall(k) ==
    /\ conn[k].at = "run"
    /\ LET call == Head(conn[k].plan)
       IN  H!Call(k, call.f, call.label, conn[k].req.ivOk)
    /\ UNCHANGED <<gatewayVars, logVars>>

\* The call goes on in HsmClient.  Verifying a seal says what is the case.
HsmSteps(k) ==
    /\ \/ H!OpenSession(k) \/ H!NoToken(k)
       \/ H!Login(k) \/ H!LoginRefused(k)
       \/ H!Step(k) \/ H!Fails(k)
       \/ H!Drop(k)
    /\ Checking(k) =>
        /\ work'[k].at = "drop" /\ work'[k].result = "ok" => conn[k].req.sealed
        /\ work'[k].at = "drop" /\ work'[k].result = "mismatch" => ~conn[k].req.sealed
    /\ UNCHANGED <<gatewayVars, logVars>>

HsmFails(k) ==
    /\ H!DeviceFails(k)
    /\ UNCHANGED <<gatewayVars, logVars>>

\* What execute makes of the result of an HSM call: check_integrity turns
\* every error into a rejection, and a verify request answers ok either way.
AfterHsm(k, result) ==
    LET c == conn[k]
        good == result = "ok" \/ (result = "mismatch" /\ ~Checking(k))
    IN  CASE good /\ Len(c.plan) > 1 -> Running(c.req, Tail(c.plan))
          [] good /\ Len(c.plan) = 1 -> Executed(c.req, "ok")
          [] ~good /\ Checking(k) -> Executed(c.req, "denied")
          [] ~good /\ ~Checking(k) -> Executed(c.req, "error")

HsmReturns(k) ==
    /\ H!Take(k)
    /\ conn' = [conn EXCEPT ![k] = AfterHsm(k, work[k].result)]
    /\ UNCHANGED <<served, logVars>>

CloseRequest(k) ==
    /\ conn[k].at = "executed"
    /\ A!Begin(k, Body(k, served[k], Outcome(conn[k].resp)))
    /\ conn' = [conn EXCEPT ![k] = Logging("closing", @.req, @.resp)]
    /\ UNCHANGED <<served, hsmVars>>

-----------------------------------------------------------------------------
Init ==
    /\ A!Init
    /\ H!Init
    /\ conn = [k \in Conns |-> Closed]
    /\ served = [k \in Conns |-> 0]

\* What a task does next that does not wait for its client.
Proceed(k) ==
    \/ AppendWrites(k) \/ AppendOk(k)
    \/ HsmCall(k) \/ HsmSteps(k) \/ HsmReturns(k)
    \/ CloseRequest(k)

Next ==
    \/ Start
    \/ Exit
    \/ MoveToken
    \/ \E k \in Conns :
        \/ Accept(k)
        \/ Len(file) < MaxLines /\ \E cert \in Certs : AcceptAudited(k, cert)
        \/ Disconnect(k)
        \/ \E line \in Requests :
            ReceiveMalformed(k, line) \/ ReceiveDenied(k, line) \/ ReceiveCleared(k, line)
        \/ Proceed(k)
        \/ Answer(k)
        \/ AppendFails(k)
        \/ HsmFails(k)

Spec == Init /\ [][Next]_vars

\* The runtime polls every task that can run, and every PKCS#11 and file
\* system call returns.  Clients need neither send nor read anything.
FairSpec == Spec /\ \A k \in Conns : WF_vars(Proceed(k))

-----------------------------------------------------------------------------
(***************************************************************************)
(* Properties.                                                             *)
(***************************************************************************)
\* A task is where its log and HSM calls say it is: inside append exactly
\* when it is at "log", inside HsmClient only when it is at "run", and
\* anywhere only while the process runs.
TypeOK ==
    /\ conn \in [Conns ->
            {Closed, Ready}
            \cup [at : {"log"}, why : {"expiring", "too_long", "denied", "intent", "closing"},
                  req : Requests \cup {<< >>}, resp : {"none", "ok", "denied", "error"}]
            \cup [at : {"run"}, req : Requests,
                  plan : Seq([f : H!Functions, label : KeyLabels])]
            \cup [at : {"executed"}, req : Requests, resp : {"ok", "denied", "error"}]
            \cup [at : {"answer"}, req : Requests, resp : {"ok", "denied", "error"},
                  why : {"malformed", "denied", "intent", "closing"}, logged : BOOLEAN]]
    /\ served \in [Conns -> 0..MaxRequests]
    /\ \A k \in Conns :
        /\ conn[k].at = "log" <=> calls[k] # A!NoCall
        /\ work[k] # H!Idle => conn[k].at = "run"
        /\ conn[k] # Closed => status = "up" /\ slot # H!NoSlot

\* The positions in the file of a readable entry of the current request of k.
Logged(k, outcome) ==
    {i \in 1..Len(file) : file[i].parses /\ file[i].body = Body(k, served[k], outcome)}

ClosingEntries(k) == UNION {Logged(k, o) : o \in {"authorized", "denied", "error"}}

\* Fail-closed: while a request uses the HSM, its intent stands in the log,
\* once, and no closing entry does, unless a line was cut short before.
IntentBeforeHsm ==
    ~torn => \A k \in Conns :
        work[k] # H!Idle => /\ \E i \in 1..Len(file) : Logged(k, "intent") = {i}
                            /\ ClosingEntries(k) = {}

\* Only requests the table allows, with supported inputs, reach the HSM; the
\* integrity key is used to seal and to check, never on a client's behalf; and
\* nothing is decrypted that does not carry a valid seal.
HsmOnlyForAllowed ==
    \A k \in Conns :
        work[k] # H!Idle =>
            LET req == conn[k].req
                grant == [cn |-> CnOf[k], op |-> req.op, label |-> req.label]
            IN  /\ grant \in authz.grants
                /\ req.op \in DeriveOps => req.peer \in authz.peer_keys[grant]
                /\ req.valid
                /\ Head(conn[k].plan).label = integrity_label =>
                    /\ req.op \notin {"sign", "verify"}
                    /\ work[k].f \in {"sign_ecdsa_sha256", "verify_ecdsa_sha256"}
                /\ work[k].f \in {"decrypt_aes_cbc_pad", "derive_and_decrypt"} => req.sealed

\* The answer of a request that was executed and closed is the one the log
\* records, behind the intent, and it is the only one, unless a line was cut
\* short before.
LogAgreesWithAnswer ==
    ~torn => \A k \in Conns :
        conn[k].at = "answer" /\ conn[k].why = "closing" /\ conn[k].logged =>
            \E i, j \in 1..Len(file) :
                /\ i < j
                /\ Logged(k, "intent") = {i}
                /\ ClosingEntries(k) = {j}
                /\ Logged(k, [ok |-> "authorized", denied |-> "denied",
                               error |-> "error"][conn[k].resp]) = {j}

\* A request that is refused before the intent, or because of it, is not
\* answered ok and leaves no lone intent that reads as an unknown outcome,
\* unless a line was cut short: an intent that was written all but its newline
\* stays and reads like that.
RefusedLeavesNoIntent ==
    ~torn => \A k \in Conns :
        conn[k].at = "answer" /\ conn[k].why # "closing" =>
            Logged(k, "intent") = {} /\ conn[k].resp # "ok"

\* How far the request of a connection is, and its answer.
Phase(k) ==
    CASE conn[k].at \in {"closed", "ready"} -> conn[k].at
      [] conn[k].at = "log" /\ conn[k].why \in {"expiring", "too_long"} -> "connecting"
      [] conn[k].at = "log" /\ conn[k].why = "denied" -> "refusing"
      [] conn[k].at = "log" /\ conn[k].why = "intent" -> "intending"
      [] conn[k].at = "run" -> "using"
      [] conn[k].at = "executed" \/ (conn[k].at = "log" /\ conn[k].why = "closing") -> "closing"
      [] conn[k].at = "answer" -> "answering"

P == INSTANCE Pipeline WITH
    phase <- [k \in Conns |-> Phase(k)],
    answer <- [k \in Conns |->
                IF conn[k].at \in {"log", "executed", "answer"} THEN conn[k].resp ELSE "none"],
    view <- [k \in Conns |->
                {o \in {"intent", "authorized", "denied", "error"} :
                    served[k] > 0 /\ Logged(k, o) # {}}],
    reliable <- ~torn

\* The gateway keeps the promise of Pipeline: each request is refused, or
\* enters the log, the HSM and the log again in this order, whatever the
\* requests of other connections, the disk and the token do meanwhile.
ImplementsPipeline == P!Spec

\* Every line that was read comes to an answer for its client to read, and
\* every certificate that is logged to a served or closed connection, even if
\* other clients never read their answers.
AnswersGetReady ==
    \A k \in Conns :
        conn[k].at \in {"log", "run", "executed"} ~> conn[k].at \in {"answer", "ready", "closed"}

-----------------------------------------------------------------------------
(***************************************************************************)
(* What the documentation says.                                            *)
(***************************************************************************)
\* "if an entry cannot be written, the request is rejected without any HSM
\* operation" (src/README.md:182): a request in the HSM has a readable intent.
IntentAlwaysReadable ==
    \A k \in Conns : work[k] # H!Idle => Logged(k, "intent") # {}

\* "`denied` is always final for that input" (src/docs/18-client-integration.md:151):
\* no request that is cleared, valid and sealed is denied.
DeniedIsFinal ==
    \A k \in Conns :
        conn[k].at = "answer" /\ conn[k].resp = "denied" =>
            ~(Cleared(k, conn[k].req) /\ (conn[k].req.op \in Opens => conn[k].req.sealed))
=============================================================================
