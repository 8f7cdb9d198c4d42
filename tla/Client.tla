------------------------------- MODULE Client -------------------------------
(***************************************************************************)
(* The example client of src/examples/client_rust/src/main.rs beside the   *)
(* clients of Sealing: signs and verifies, encrypts and decrypts, sends a  *)
(* changed ciphertext and a request it has no permission for, and asserts  *)
(* what comes back.                                                        *)
(***************************************************************************)
EXTENDS Sealing

CONSTANTS
    Demo,                   \* the CN of the example client
    sign_key, enc_key, other_key,
    hello, secret           \* what it signs and what it encrypts

\* The labels are the arguments and the label of the denied probe, which is in
\* no configuration.  main takes raw[0] of a ciphertext: with padding there is
\* always a block, and generate_random_vec(16) never gives an empty IV.
ASSUME ClientConstants ==
    /\ Demo \in Clients
    /\ {sign_key, enc_key, other_key} \subseteq Labels
    /\ hello \in SignedTexts /\ secret \in Plaintexts
    /\ \A op \in {"sign", "verify"} : is_authorized(authz, Demo, op, sign_key)
    /\ \A op \in {"encrypt", "decrypt"} : is_authorized(authz, Demo, op, enc_key)
    /\ ~is_authorized(authz, Demo, "sign", other_key)
    /\ << >> \notin Ciphertexts \cup Ivs

VARIABLE
    demo    \* the client: its step, the signature and the encryption it got

demoVars == <<vars, demo>>

Steps == <<"sign", "verify", "encrypt", "decrypt", "tampered", "denied">>

\* raw[0] ^= 0x01
FlippedBit(ct) == [ct EXCEPT ![1] = IF @ % 2 = 0 THEN @ + 1 ELSE @ - 1]

\* The request of a step.
Ask(step) ==
    LET decrypt(ct) == [op |-> "decrypt", label |-> enc_key, data |-> ct,
                        iv |-> demo.enc.iv, sig |-> demo.enc.integrity]
    IN  CASE step = "sign" -> [op |-> "sign", label |-> sign_key, data |-> hello]
          [] step = "verify" ->
                [op |-> "verify", label |-> sign_key, data |-> hello, sig |-> demo.sig]
          [] step = "encrypt" -> [op |-> "encrypt", label |-> enc_key, data |-> secret]
          [] step = "decrypt" -> decrypt(demo.enc.result)
          [] step = "tampered" -> decrypt(FlippedBit(demo.enc.result))
          [] step = "denied" -> [op |-> "sign", label |-> other_key, data |-> hello]

\* The assertion of a step about the response.
Asserted(step, resp) ==
    CASE step \in {"sign", "encrypt"} -> resp.status = "ok"
      [] step = "verify" -> resp.status = "ok" /\ resp.verified
      [] step = "decrypt" -> resp.status = "ok" /\ resp.result = secret
      [] step = "tampered" -> resp.status # "ok"
      [] step = "denied" -> resp.status = "denied"

-----------------------------------------------------------------------------
\* Client::connect, or an error of it.
DemoConnects ==
    /\ demo.at = "start"
    /\ \E next \in {[at |-> "running", n |-> 1], [at |-> "failed"]} : demo' = next
    /\ UNCHANGED vars

\* Client::request writes the line of the step.
DemoSends ==
    /\ demo.at = "running" /\ demo.n <= Len(Steps)
    /\ LET req == Ask(Steps[demo.n]) IN Receive(Demo, req) \/ IntentFails(Demo, req)
    /\ UNCHANGED <<sent, demo>>

DemoReceives ==
    /\ demo.at = "running"
    /\ Answer(Demo)
    /\ LET step == Steps[demo.n]
           resp == task[Demo].resp
       IN  demo' = IF ~Asserted(step, resp) THEN [at |-> "panicked", resp |-> resp]
                   ELSE CASE step = "sign" -> [at |-> "running", n |-> 2, sig |-> resp.result]
                          [] step = "encrypt" -> [at |-> "running", n |-> 4, enc |-> resp]
                          [] demo.n = Len(Steps) -> [at |-> "passed"]
                          [] OTHER -> [demo EXCEPT !.n = @ + 1]

DemoWorks == Work(Demo) /\ UNCHANGED demo

\* "connection closed by gateway": request returns an error, and main.
DemoLoses ==
    /\ demo.at = "running"
    /\ demo' = [at |-> "failed"]
    /\ UNCHANGED vars

Others ==
    /\ \/ \E c \in Clients \ {Demo} : Send(c) \/ Work(c) \/ Answer(c)
       \/ ReplaceKey
    /\ UNCHANGED demo

DemoInit == Init /\ demo = [at |-> "start"]

DemoNext == DemoConnects \/ DemoSends \/ DemoReceives \/ DemoWorks \/ DemoLoses \/ Others

DemoSpec == DemoInit /\ [][DemoNext]_demoVars

\* Every assertion of the example holds, unless the HSM or the log failed or
\* the integrity key was replaced, or the response was that of a login the
\* token refused because of a request of another client.
DemoPasses ==
    demo.at = "panicked" /\ faults = 0 =>
        /\ demo.resp \in {denied("login"), err("login")}
        /\ \E c \in Clients \ {Demo} : sent[c] > 0

\* "tamper probe: must NOT be ok" and the denied probe
\* (src/examples/client_rust/src/main.rs:135-149): these two hold whatever
\* fails and whenever the integrity key is replaced.
ProbesHold == [][demo.at = "running" /\ demo.n \in {5, 6} => demo'.at # "panicked"]_demoVars
=============================================================================
