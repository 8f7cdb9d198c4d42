---------------------------- MODULE ClientProofs -----------------------------
(***************************************************************************)
(* Proofs about Client: which of the example's assertions can fail beside  *)
(* other clients and why, and that the promises of Sealing hold beside the *)
(* example.                                                                *)
(***************************************************************************)
EXTENDS Client, SealingProofs

-----------------------------------------------------------------------------
(***************************************************************************)
(* The inductive invariant.                                                *)
(***************************************************************************)
\* A replaced key counts as a fault.
FaultsCount == faults \in Nat /\ (faults = 0 => gen = 0)

\* Who has a request on the way has sent it.
SentCounted ==
    /\ sent \in [Clients -> Nat]
    /\ \A c \in Clients \ {Demo} : task[c] # Idle => sent[c] > 0

OthersAsk == \E c \in Clients \ {Demo} : sent[c] > 0

\* An answer that may fail an assertion of the example.
Excused(resp) == faults > 0 \/ (resp \in {denied("login"), err("login")} /\ OthersAsk)

\* No IV is used twice, by encryptions given out or on the way.
IvsFresh ==
    /\ \A e, f \in issued : e.iv = f.iv => e = f
    /\ \A c \in Clients : task[c].at = "seal" => \A e \in issued : e.iv # task[c].iv
    /\ \A c, d \in Clients :
            task[c].at = "seal" /\ task[d].at = "seal" /\ task[c].iv = task[d].iv => c = d

\* The signature of the greeting.  Only the integrity key has generations.
HelloSig == [key |-> [label |-> sign_key, gen |-> 0], data |-> hello]

SignHello == [op |-> "sign", label |-> sign_key, data |-> hello]

VerifyHello == [op |-> "verify", label |-> sign_key, data |-> hello, sig |-> HelloSig]

EncryptSecret == [op |-> "encrypt", label |-> enc_key, data |-> secret]

SignDenied == [op |-> "sign", label |-> other_key, data |-> hello]

\* The request to decrypt ct with what else came with encryption e.
Reopen(e, ct) == [op |-> "decrypt", label |-> enc_key, data |-> ct, iv |-> e.iv, sig |-> e.sig]

\* The encryptions of the secret.
Secrets == {e \in issued : e.req = EncryptSecret}

\* What the example holds at its step.
Holds(d) ==
    \/ d = [at |-> "running", n |-> 1]
    \/ /\ HelloSig \in sigs
       /\ \E n \in {2, 3} : d = [at |-> "running", n |-> n, sig |-> HelloSig]
    \/ \E n \in {4, 5, 6}, e \in Secrets : d = [at |-> "running", n |-> n, enc |-> Sealed(e)]

\* Where the request of a step is, and which answers there can be to it.
Asked1(t) ==
    \/ t = Running("sign", SignHello)
    \/ /\ t.at = "answer"
       /\ ~Excused(t.resp) => t.resp.status = "ok"
       /\ t.resp.status = "ok" => t.resp.result = HelloSig /\ HelloSig \in sigs

Asked2(t) ==
    \/ t = Running("verify", VerifyHello)
    \/ t.at = "answer" /\ (~Excused(t.resp) => t.resp = Verified(TRUE))

Asked3(t) ==
    \/ t = Running("encrypt", EncryptSecret)
    \/ t.at = "seal" /\ t.req = EncryptSecret
    \/ /\ t.at = "answer"
       /\ ~Excused(t.resp) => t.resp.status = "ok"
       /\ t.resp.status = "ok" => \E e \in Secrets : t.resp = Sealed(e)

Asked4(t, enc) ==
    \/ /\ t.at \in {"check", "decrypt"}
       /\ \E e \in Secrets : enc = Sealed(e) /\ t.req = Reopen(e, e.ct)
    \/ t.at = "answer" /\ (~Excused(t.resp) => t.resp = ok_result(secret))

Asked5(t, enc) ==
    \/ /\ t.at = "check"
       /\ \E e \in Secrets : enc = Sealed(e) /\ t.req = Reopen(e, FlippedBit(e.ct))
    \/ t.at = "answer" /\ t.resp.status # "ok"

Asked6(t) == t.at = "answer" /\ t.resp.status = "denied"

OnTheWay(t, d) ==
    /\ d.n = 1 => Asked1(t)
    /\ d.n = 2 => Asked2(t)
    /\ d.n = 3 => Asked3(t)
    /\ d.n = 4 => Asked4(t, d.enc)
    /\ d.n = 5 => Asked5(t, d.enc)
    /\ d.n = 6 => Asked6(t)

\* What is asked of the example and its task together.
Fits(t, d) ==
    /\ d.at \in {"start", "running", "passed", "failed", "panicked"}
    /\ d.at = "start" => t = Idle
    /\ d.at = "running" => Holds(d) /\ (t # Idle => OnTheWay(t, d))
    /\ d.at = "panicked" => Excused(d.resp)

DemoIInv ==
    /\ IInv
    /\ FaultsCount
    /\ SentCounted
    /\ IvsFresh
    /\ Fits(task[Demo], demo)

-----------------------------------------------------------------------------
(***************************************************************************)
(* Constants.                                                              *)
(***************************************************************************)
LEMMA ConstantFacts ==
    /\ Demo \in Clients
    /\ sign_key \in Labels /\ enc_key \in Labels /\ other_key \in Labels
    /\ hello \in SignedTexts /\ secret \in Plaintexts
    /\ sign_key # integrity_label
  <1>1. [cn |-> Demo, op |-> "sign", label |-> sign_key] \in authz.grants
    BY ClientConstants DEF is_authorized
  <1>2. sign_key # integrity_label
    BY <1>1, SealingConstants
  <1> QED
    BY <1>2, ClientConstants

\* The authorization of the example's requests.
LEMMA ClearedAsks ==
    /\ Cleared(Demo, SignHello)
    /\ Cleared(Demo, VerifyHello)
    /\ Cleared(Demo, EncryptSecret)
    /\ \A e, ct : Cleared(Demo, Reopen(e, ct))
    /\ ~Cleared(Demo, SignDenied)
  BY ClientConstants
     DEF Cleared, DeriveOps, SignHello, VerifyHello, EncryptSecret, Reopen, SignDenied

\* A flipped bit makes other bytes.
LEMMA FlippedDiffers ==
    ASSUME NEW ct \in Ciphertexts
    PROVE  FlippedBit(ct) \in Bytes /\ FlippedBit(ct) # ct
  <1>1. ct \in Seq(Nat) /\ ct # << >>
    BY ClientConstants, SealingConstants DEF Bytes
  <1>2. Len(ct) \in Nat /\ DOMAIN ct = 1..Len(ct) /\ ct \in [1..Len(ct) -> Nat]
    BY <1>1, LenProperties
  <1>3. 1 \in 1..Len(ct)
    BY <1>1, <1>2, EmptySeq
  <1>4. ct[1] \in Nat
    BY <1>2, <1>3
  <1> DEFINE b == IF ct[1] % 2 = 0 THEN ct[1] + 1 ELSE ct[1] - 1
  <1>5. b \in Nat /\ b # ct[1]
    <2>1. PICK k \in Nat : k = ct[1]
      BY <1>4
    <2>2. k % 2 # 0 => k # 0
      BY <2>1
    <2> QED
      BY <2>1, <2>2
  <1>6. FlippedBit(ct) = [ct EXCEPT ![1] = b]
    BY DEF FlippedBit
  <1> HIDE DEF b
  <1>7. FlippedBit(ct)[1] = b
    BY <1>2, <1>3, <1>6
  <1>8. FlippedBit(ct) \in Seq(Nat)
    BY <1>1, <1>3, <1>5, <1>6, ExceptSeq
  <1> QED
    BY <1>5, <1>7, <1>8 DEF Bytes

-----------------------------------------------------------------------------
(***************************************************************************)
(* Signatures and encryptions only grow, faults are counted, IVs are       *)
(* fresh: kept by every step of any client.                                *)
(***************************************************************************)
Base == IInv /\ FaultsCount /\ IvsFresh

\* What a step of any client leaves to the others.
Grown ==
    /\ sigs \subseteq sigs' /\ issued \subseteq issued'
    /\ faults' \in Nat /\ (faults' = 0 => faults = 0)

\* A step of the task of c.
Moved(c) ==
    /\ Base' /\ Grown
    /\ \A d \in Clients \ {c} : task'[d] = task[d]

LEMMA TaskDomain ==
    ASSUME Base
    PROVE  DOMAIN task = Clients /\ gen \in Nat
  BY DEF Base, IInv, TypeOK

\* No new seal is begun, and nothing is given out.
LEMMA FreshKept ==
    ASSUME Base, NEW c \in Clients, NEW new, task' = [task EXCEPT ![c] = new],
           new.at # "seal", issued' = issued
    PROVE  IvsFresh'
  <1>1. \A d \in Clients : task'[d].at = "seal" => task'[d] = task[d]
    BY TaskDomain
  <1> QED
    BY <1>1 DEF Base, IvsFresh

LEMMA MovedQuietly ==
    ASSUME Base, NEW c \in Clients, NEW new, task' = [task EXCEPT ![c] = new],
           new.at # "seal", IInv',
           sigs \subseteq sigs', issued' = issued, gen' = gen, faults' \in {faults, faults + 1}
    PROVE  Moved(c)
  <1>1. IvsFresh'
    BY FreshKept
  <1>2. FaultsCount' /\ (faults' = 0 => faults = 0)
    BY DEF Base, FaultsCount
  <1>3. \A d \in Clients \ {c} : task'[d] = task[d]
    BY TaskDomain
  <1> QED
    BY <1>1, <1>2, <1>3 DEF Moved, Base, Grown, FaultsCount

LEMMA ReceiveMoves ==
    ASSUME Base, NEW c \in Clients, NEW req \in Request \cup OpeningRequests(sigs, Bytes),
           Receive(c, req)
    PROVE  Moved(c)
  <1>1. PICK new : /\ task' = [task EXCEPT ![c] = new]
                   /\ new = IF Cleared(c, req) THEN Running(FirstCall(req), req)
                            ELSE Answering(req, denied("authorization"))
    BY DEF Receive
  <1>2. new.at # "seal"
    <2>1. CASE Cleared(c, req)
      <3>1. req.op # "seal"
        BY DEF Request, SealingRequests, SigningRequests, VerifyRequests, OpeningRequests
      <3> QED
        BY <1>1, <2>1, <3>1 DEF Running, FirstCall
    <2>2. CASE ~Cleared(c, req)
      BY <1>1, <2>2 DEF Answering
    <2> QED
      BY <2>1, <2>2
  <1>3. IInv'
    BY SendStep DEF Base
  <1> QED
    BY <1>1, <1>2, <1>3, MovedQuietly DEF Receive

LEMMA IntentFailsMoves ==
    ASSUME Base, NEW c \in Clients, NEW req, IntentFails(c, req)
    PROVE  Moved(c)
  <1>1. PICK new : new = Answering(req, err("audit"))
    OBVIOUS
  <1>2. task' = [task EXCEPT ![c] = new] /\ new.at # "seal"
    BY <1>1 DEF IntentFails, Answering
  <1>3. IInv'
    BY IntentFailsStep DEF Base
  <1> QED
    BY <1>2, <1>3, MovedQuietly DEF IntentFails

LEMMA SignMoves ==
    ASSUME Base, NEW c \in Clients, Sign(c)
    PROVE  Moved(c)
  <1>1. PICK new : new = Answering(task[c].req,
                                   ok_result(Signature(task[c].req.label, task[c].req.data)))
    OBVIOUS
  <1>2. task' = [task EXCEPT ![c] = new] /\ new.at # "seal" /\ sigs \subseteq sigs'
    BY <1>1 DEF Sign, Answering
  <1>3. IInv'
    BY SignStep DEF Base
  <1> QED
    BY <1>2, <1>3, MovedQuietly DEF Sign

LEMMA VerifyMoves ==
    ASSUME Base, NEW c \in Clients, Verify(c)
    PROVE  Moved(c)
  <1> DEFINE req == task[c].req
  <1>1. PICK new : new = Answering(req, Verified(req.sig = Signature(req.label, req.data)))
    OBVIOUS
  <1>2. task' = [task EXCEPT ![c] = new]
    BY <1>1 DEF Verify
  <1>3. new.at # "seal"
    BY <1>1 DEF Answering
  <1>4. IInv'
    BY VerifyStep DEF Base
  <1> QED
    BY <1>2, <1>3, <1>4, MovedQuietly DEF Verify

\* The new IV is none of those in use.
LEMMA EncryptMoves ==
    ASSUME Base, NEW c \in Clients, NEW iv \in Ivs, NEW ct \in Ciphertexts, Encrypt(c, iv, ct)
    PROVE  Moved(c)
  <1>1. PICK new : new = [at |-> "seal", req |-> task[c].req, iv |-> iv, ct |-> ct]
    OBVIOUS
  <1>2. /\ task' = [task EXCEPT ![c] = new] /\ UNCHANGED <<sigs, issued, gen, faults>>
        /\ iv \notin UsedIvs
    BY <1>1 DEF Encrypt
  <1>3. /\ \A e \in issued : e.iv # iv
        /\ \A d \in Clients : task[d].at = "seal" => task[d].iv # iv
    BY <1>2 DEF UsedIvs
  <1>4. task'[c] = new /\ \A d \in Clients \ {c} : task'[d] = task[d]
    BY <1>2, TaskDomain
  <1>5. IvsFresh'
    <2>1. new.at = "seal" /\ new.iv = iv
      BY <1>1
    <2>2. \A d \in Clients : task'[d].at = "seal" => \A e \in issued : e.iv # task'[d].iv
      BY <1>3, <1>4, <2>1 DEF Base, IvsFresh
    <2>3. ASSUME NEW d \in Clients, NEW f \in Clients,
                 task'[d].at = "seal", task'[f].at = "seal", task'[d].iv = task'[f].iv
          PROVE  d = f
      <3>1. CASE d # c /\ f # c
        BY <1>4, <2>3, <3>1 DEF Base, IvsFresh
      <3>2. CASE d = c /\ f # c
        BY <1>3, <1>4, <2>1, <2>3, <3>2
      <3>3. CASE d # c /\ f = c
        BY <1>3, <1>4, <2>1, <2>3, <3>3
      <3> QED
        BY <3>1, <3>2, <3>3
    <2> QED
      BY <1>2, <2>2, <2>3 DEF Base, IvsFresh
  <1>6. IInv'
    BY EncryptStep DEF Base
  <1> QED
    BY <1>2, <1>4, <1>5, <1>6 DEF Moved, Base, Grown, FaultsCount

\* The IV goes from the task to what is given out.
LEMMA SealMoves ==
    ASSUME Base, NEW c \in Clients, Seal(c)
    PROVE  Moved(c)
  <1> DEFINE sig == Signature(integrity_label,
                              integrity_payload(task[c].req.label, task[c].iv, task[c].ct))
  <1>1. PICK e : e = [req |-> task[c].req, iv |-> task[c].iv, ct |-> task[c].ct, sig |-> sig]
    OBVIOUS
  <1>2. PICK new : new = Answering(task[c].req, Sealed(e))
    OBVIOUS
  <1>3. /\ task[c].at = "seal"
        /\ task' = [task EXCEPT ![c] = new] /\ sigs' = sigs \cup {sig} /\ issued' = issued \cup {e}
        /\ UNCHANGED <<gen, faults>>
    BY <1>1, <1>2 DEF Seal
  <1>4. new.at = "answer" /\ e.iv = task[c].iv
    BY <1>1, <1>2 DEF Answering
  <1>5. task'[c] = new /\ \A d \in Clients \ {c} : task'[d] = task[d]
    BY <1>3, TaskDomain
  <1> HIDE DEF sig
  <1>6. IvsFresh'
    <2>1. \A d \in Clients : task'[d].at = "seal" => d # c /\ task'[d] = task[d]
      BY <1>4, <1>5
    <2>2. \A f \in issued : f.iv # e.iv
      BY <1>3, <1>4 DEF Base, IvsFresh
    <2>3. \A d \in Clients : task'[d].at = "seal" => task[d].iv # e.iv
      BY <1>3, <1>4, <2>1 DEF Base, IvsFresh
    <2> QED
      BY <1>3, <2>1, <2>2, <2>3 DEF Base, IvsFresh
  <1>7. IInv'
    BY SealStep DEF Base
  <1> QED
    BY <1>3, <1>5, <1>6, <1>7 DEF Moved, Base, Grown, FaultsCount

LEMMA CheckMoves ==
    ASSUME Base, NEW c \in Clients, Check(c)
    PROVE  Moved(c)
  <1>1. PICK new : new = IF check_integrity(task[c].req) THEN Running("decrypt", task[c].req)
                         ELSE Answering(task[c].req, denied("integrity"))
    OBVIOUS
  <1>2. task' = [task EXCEPT ![c] = new] /\ new.at # "seal"
    BY <1>1 DEF Check, Running, Answering
  <1>3. IInv'
    BY CheckStep DEF Base
  <1> QED
    BY <1>2, <1>3, MovedQuietly DEF Check

LEMMA DecryptMoves ==
    ASSUME Base, NEW c \in Clients, Decrypt(c)
    PROVE  Moved(c)
  <1>1. PICK resp : task' = [task EXCEPT ![c] = Answering(task[c].req, resp)]
    BY DEF Decrypt
  <1>2. PICK new : new = Answering(task[c].req, resp)
    OBVIOUS
  <1>3. task' = [task EXCEPT ![c] = new] /\ new.at # "seal"
    BY <1>1, <1>2 DEF Answering
  <1>4. IInv'
    BY DecryptStep DEF Base
  <1> QED
    BY <1>3, <1>4, MovedQuietly DEF Decrypt

LEMMA FailedMoves ==
    ASSUME Base, NEW c \in Clients, HsmFails(c) \/ LoginRefused(c)
    PROVE  Moved(c)
  <1>1. PICK resp : task' = [task EXCEPT ![c] = Answering(task[c].req, resp)]
    BY DEF HsmFails, LoginRefused
  <1>2. PICK new : new = Answering(task[c].req, resp)
    OBVIOUS
  <1>3. task' = [task EXCEPT ![c] = new] /\ new.at # "seal"
    BY <1>1, <1>2 DEF Answering
  <1>4. IInv'
    BY FailedStep DEF Base
  <1> QED
    BY <1>3, <1>4, MovedQuietly DEF HsmFails, LoginRefused

LEMMA AnswerMoves ==
    ASSUME Base, NEW c \in Clients, Answer(c)
    PROVE  Moved(c)
  <1>1. task' = [task EXCEPT ![c] = Idle] /\ Idle.at # "seal"
    BY DEF Answer, Idle
  <1>2. IInv'
    BY AnswerStep DEF Base
  <1> QED
    BY <1>1, <1>2, MovedQuietly DEF Answer

LEMMA WorkMoves ==
    ASSUME Base, NEW c \in Clients, Work(c)
    PROVE  Moved(c)
  BY SignMoves, VerifyMoves, EncryptMoves, SealMoves, CheckMoves, DecryptMoves, FailedMoves
     DEF Work

LEMMA ReplaceKeyMoves ==
    ASSUME Base, ReplaceKey
    PROVE  Base' /\ Grown /\ task' = task
  <1>1. IInv'
    BY ReplaceKeyStep DEF Base
  <1>2. UNCHANGED <<task, sigs, issued>> /\ faults' = faults + 1
    BY DEF ReplaceKey
  <1>3. FaultsCount' /\ faults' # 0
    BY <1>2 DEF Base, FaultsCount
  <1>4. IvsFresh'
    BY <1>2 DEF Base, IvsFresh
  <1> QED
    BY <1>1, <1>2, <1>3, <1>4 DEF Base, Grown, FaultsCount

\* Whose task works or answers has a request on the way.
LEMMA WorkIsAsked ==
    ASSUME NEW c \in Clients, Work(c) \/ Answer(c)
    PROVE  task[c] # Idle /\ sent' = sent
  BY DEF Work, Answer, Sign, Verify, Encrypt, Seal, Check, Decrypt, HsmFails, LoginRefused,
         InCall, Idle

\* What the counts of requests leave to the example.
AsksKept == SentCounted' /\ (OthersAsk => OthersAsk')

LEMMA NextAsks ==
    ASSUME DemoIInv, [DemoNext]_demoVars
    PROVE  AsksKept
  <1>1. Base /\ SentCounted /\ Demo \in Clients
    BY ConstantFacts DEF DemoIInv, Base
  <1>2. ASSUME sent' = sent, \A c \in Clients \ {Demo} : task'[c] = task[c] \/ task[c] # Idle
        PROVE  AsksKept
    BY <1>1, <1>2 DEF SentCounted, AsksKept, OthersAsk
  <1>3. ASSUME NEW c \in Clients, Moved(c), Work(c) \/ Answer(c) PROVE AsksKept
    BY <1>2, <1>3, WorkIsAsked DEF Moved
  <1>4. ASSUME NEW c \in Clients, Send(c) PROVE AsksKept
    <2>1. Moved(c)
      BY <1>1, <1>4, ReceiveMoves, IntentFailsMoves DEF Send
    <2>2. sent' = [sent EXCEPT ![c] = sent[c] + 1] /\ sent[c] \in Nat
      BY <1>1, <1>4 DEF Send, SentCounted
    <2>3. sent' \in [Clients -> Nat] /\ sent'[c] > 0
      BY <1>1, <2>2 DEF SentCounted
    <2>4. \A d \in Clients \ {c} : sent'[d] = sent[d] /\ task'[d] = task[d]
      BY <1>1, <2>1, <2>2 DEF SentCounted, Moved
    <2>5. SentCounted'
      BY <1>1, <2>3, <2>4 DEF SentCounted
    <2>6. OthersAsk => OthersAsk'
      BY <2>3, <2>4 DEF OthersAsk
    <2> QED
      BY <2>5, <2>6 DEF AsksKept
  <1>5. ASSUME DemoSends PROVE AsksKept
    <2>1. sent' = sent /\ \E new : task' = [task EXCEPT ![Demo] = new]
      BY <1>5 DEF DemoSends, Receive, IntentFails
    <2> QED
      BY <1>1, <1>2, <2>1, TaskDomain
  <1>6. CASE DemoConnects \/ DemoLoses \/ ReplaceKey \/ UNCHANGED demoVars
    BY <1>2, <1>6 DEF DemoConnects, DemoLoses, ReplaceKey, vars, demoVars
  <1>7. ASSUME NEW c \in Clients, Work(c) \/ Answer(c) PROVE AsksKept
    BY <1>1, <1>3, <1>7, WorkMoves, AnswerMoves
  <1> QED
    BY <1>1, <1>4, <1>5, <1>6, <1>7 DEF DemoNext, DemoWorks, DemoReceives, Others

-----------------------------------------------------------------------------
(***************************************************************************)
(* The example and its task.                                               *)
(***************************************************************************)
\* The step the example is at, and what it holds there.
LEMMA StepIs ==
    ASSUME NEW d, Holds(d)
    PROVE  /\ d.at = "running" /\ d.n \in 1..6
           /\ d.n \in {2, 3} => d.sig = HelloSig /\ HelloSig \in sigs
           /\ d.n \in {4, 5, 6} => \E e \in Secrets : d.enc = Sealed(e)
  BY DEF Holds

\* What is known of one task is kept by the steps of others.
LEMMA FitsGrows ==
    ASSUME NEW t, NEW d, Fits(t, d), FaultsCount, Grown, AsksKept
    PROVE  Fits(t, d)'
  <1>0. (Excused(t.resp) => Excused(t.resp)') /\ (Excused(d.resp) => Excused(d.resp)')
    BY DEF Excused, FaultsCount, Grown, AsksKept
  <1>1. Secrets \subseteq Secrets' /\ sigs \subseteq sigs' /\ (faults' = 0 => faults = 0)
    BY DEF Secrets, Grown
  <1>2. Holds(d) => Holds(d)'
    BY <1>1 DEF Holds
  <1>3. Asked1(t) => Asked1(t)'
    BY <1>0, <1>1 DEF Asked1
  <1>4. Asked2(t) => Asked2(t)'
    BY <1>0, Zenon DEF Asked2
  <1>5. Asked3(t) => Asked3(t)'
    BY <1>0, <1>1 DEF Asked3
  <1>6. Asked4(t, d.enc) => Asked4(t, d.enc)'
    BY <1>0, <1>1 DEF Asked4
  <1>7. Asked5(t, d.enc) => Asked5(t, d.enc)'
    BY <1>1 DEF Asked5
  <1>8. Asked6(t) => Asked6(t)'
    BY DEF Asked6
  <1>9. OnTheWay(t, d) => OnTheWay(t, d)'
    BY <1>3, <1>4, <1>5, <1>6, <1>7, <1>8 DEF OnTheWay
  <1> QED
    BY <1>0, <1>2, <1>9 DEF Fits

\* A step of the example's own task.
LEMMA FitsMoves ==
    ASSUME NEW t, NEW d, NEW new, Fits(t, d), FaultsCount, Grown, AsksKept, t # Idle,
           d.at = "running" => OnTheWay(new, d)'
    PROVE  Fits(new, d)'
  <1>1. Fits(t, d)'
    BY FitsGrows
  <1> QED
    BY <1>1 DEF Fits

\* Which step a task belongs to.
LEMMA WhichStep ==
    ASSUME NEW t, NEW d, Holds(d), OnTheWay(t, d)
    PROVE  /\ t.at = "sign" => d.n = 1 /\ t = Running("sign", SignHello)
           /\ t.at = "verify" => d.n = 2 /\ t = Running("verify", VerifyHello)
           /\ t.at = "encrypt" => d.n = 3 /\ t = Running("encrypt", EncryptSecret)
           /\ t.at = "seal" => d.n = 3 /\ t.req = EncryptSecret
           /\ t.at = "decrypt" => d.n = 4
           /\ t.at = "check" => d.n \in {4, 5}
  <1> USE DEF Running
  <1>0. d.n \in 1..6
    BY StepIs
  <1>1. d.n = 1 => t.at \in {"sign", "answer"} /\ (t.at = "sign" => t = Running("sign", SignHello))
    BY DEF OnTheWay, Asked1
  <1>2. d.n = 2 => /\ t.at \in {"verify", "answer"}
                   /\ t.at = "verify" => t = Running("verify", VerifyHello)
    <2>1. d.n = 2 => t = Running("verify", VerifyHello) \/ t.at = "answer"
      BY Zenon DEF OnTheWay, Asked2
    <2> QED
      BY <2>1
  <1>3. d.n = 3 => /\ t.at \in {"encrypt", "seal", "answer"}
                   /\ t.at = "encrypt" => t = Running("encrypt", EncryptSecret)
                   /\ t.at = "seal" => t.req = EncryptSecret
    BY DEF OnTheWay, Asked3
  <1>4. d.n = 4 => t.at \in {"check", "decrypt", "answer"}
    BY DEF OnTheWay, Asked4
  <1>5. d.n = 5 => t.at \in {"check", "answer"}
    BY DEF OnTheWay, Asked5
  <1>6. d.n = 6 => t.at = "answer"
    BY DEF OnTheWay, Asked6
  <1> QED
    BY <1>0, <1>1, <1>2, <1>3, <1>4, <1>5, <1>6

\* A request that failed, with an excuse.
LEMMA FailureFits ==
    ASSUME NEW new, NEW d, new.at = "answer", new.resp.status # "ok", Excused(new.resp)',
           d.n # 6
    PROVE  OnTheWay(new, d)'
  <1>1. Asked1(new)'
    BY DEF Asked1
  <1>2. Asked2(new)'
    BY Zenon DEF Asked2
  <1>3. Asked3(new)'
    BY DEF Asked3
  <1>4. Asked4(new, d.enc)'
    BY DEF Asked4
  <1>5. Asked5(new, d.enc)'
    BY DEF Asked5
  <1> QED
    BY <1>1, <1>2, <1>3, <1>4, <1>5 DEF OnTheWay

-----------------------------------------------------------------------------
(***************************************************************************)
(* The HSM calls for the example.                                          *)
(***************************************************************************)
\* The example's task in a state, with the task in the next one.
LEMMA DemoTaskMoves ==
    ASSUME DemoIInv, AsksKept, Moved(Demo), UNCHANGED demo, task[Demo] # Idle,
           NEW t, t = task[Demo], NEW d, d = demo, NEW new, task' = [task EXCEPT ![Demo] = new],
           d.at = "running" => OnTheWay(new, d)'
    PROVE  DemoIInv'
  <1>1. Base /\ Base' /\ Grown /\ FaultsCount
    BY DEF DemoIInv, Base, Moved
  <1>2. task'[Demo] = new
    BY <1>1, TaskDomain, ConstantFacts
  <1>3. Fits(t, d)
    BY DEF DemoIInv
  <1>4. Fits(new, d)'
    BY <1>1, <1>3, FitsMoves
  <1>5. Fits(task[Demo], demo)'
    BY <1>2, <1>4 DEF Fits
  <1> QED
    BY <1>1, <1>5 DEF DemoIInv, Base, AsksKept

LEMMA DemoSigns ==
    ASSUME DemoIInv, AsksKept, Sign(Demo), UNCHANGED demo
    PROVE  DemoIInv'
  <1>1. PICK t, d : t = task[Demo] /\ d = demo
    OBVIOUS
  <1>2. PICK sig : sig = Signature(t.req.label, t.req.data)
    OBVIOUS
  <1>3. PICK new : new = Answering(t.req, ok_result(sig))
    OBVIOUS
  <1>4. t.at = "sign" /\ task' = [task EXCEPT ![Demo] = new] /\ sigs' = sigs \cup {sig}
    BY <1>1, <1>2, <1>3 DEF Sign
  <1>5. Moved(Demo)
    BY ConstantFacts, SignMoves DEF DemoIInv, Base
  <1>6. ASSUME d.at = "running" PROVE OnTheWay(new, d)'
    <2>1. Holds(d) /\ OnTheWay(t, d)
      BY <1>1, <1>4, <1>6 DEF DemoIInv, Fits, Idle
    <2>2. d.n = 1 /\ t.req = SignHello
      BY <1>4, <2>1, WhichStep DEF Running
    <2>3. sig = HelloSig
      BY <1>2, <2>2, ConstantFacts DEF Signature, SigningKey, SignHello, HelloSig
    <2>4. Asked1(new)'
      BY <1>3, <1>4, <2>3 DEF Asked1, Answering, ok_result
    <2> QED
      BY <2>2, <2>4 DEF OnTheWay
  <1>7. task[Demo] # Idle
    BY <1>1, <1>4 DEF Idle
  <1> QED
    BY <1>1, <1>4, <1>5, <1>6, <1>7, DemoTaskMoves

LEMMA DemoVerifies ==
    ASSUME DemoIInv, AsksKept, Verify(Demo), UNCHANGED demo
    PROVE  DemoIInv'
  <1>1. PICK t, d : t = task[Demo] /\ d = demo
    OBVIOUS
  <1>2. PICK new : new = Answering(t.req, Verified(t.req.sig = Signature(t.req.label, t.req.data)))
    OBVIOUS
  <1>3. t.at = "verify" /\ task' = [task EXCEPT ![Demo] = new]
    BY <1>1, <1>2 DEF Verify
  <1>4. Moved(Demo)
    BY ConstantFacts, VerifyMoves DEF DemoIInv, Base
  <1>5. ASSUME d.at = "running" PROVE OnTheWay(new, d)'
    <2>1. Holds(d) /\ OnTheWay(t, d)
      BY <1>1, <1>3, <1>5 DEF DemoIInv, Fits, Idle
    <2>2. d.n = 2 /\ t.req = VerifyHello
      BY <1>3, <2>1, WhichStep DEF Running
    <2>3. t.req.sig = Signature(t.req.label, t.req.data)
      BY <2>2, ConstantFacts DEF Signature, SigningKey, VerifyHello, HelloSig
    <2>4. (t.req.sig = Signature(t.req.label, t.req.data)) = TRUE
      BY <2>3
    <2>5. new = Answering(t.req, Verified(TRUE))
      BY <1>2, <2>4, Zenon
    <2>6. new.at = "answer" /\ new.resp = Verified(TRUE)
      BY <2>5 DEF Answering
    <2>7. Asked2(new)'
      BY <2>6, Zenon DEF Asked2
    <2> QED
      BY <2>2, <2>7 DEF OnTheWay
  <1>6. task[Demo] # Idle
    BY <1>1, <1>3 DEF Idle
  <1> QED
    BY <1>1, <1>3, <1>4, <1>5, <1>6, DemoTaskMoves

LEMMA DemoEncrypts ==
    ASSUME DemoIInv, AsksKept, NEW iv \in Ivs, NEW ct \in Ciphertexts, Encrypt(Demo, iv, ct),
           UNCHANGED demo
    PROVE  DemoIInv'
  <1>1. PICK t, d : t = task[Demo] /\ d = demo
    OBVIOUS
  <1>2. PICK new : new = [at |-> "seal", req |-> t.req, iv |-> iv, ct |-> ct]
    OBVIOUS
  <1>3. t.at = "encrypt" /\ task' = [task EXCEPT ![Demo] = new]
    BY <1>1, <1>2 DEF Encrypt
  <1>4. Moved(Demo)
    BY ConstantFacts, EncryptMoves DEF DemoIInv, Base
  <1>5. ASSUME d.at = "running" PROVE OnTheWay(new, d)'
    <2>1. Holds(d) /\ OnTheWay(t, d)
      BY <1>1, <1>3, <1>5 DEF DemoIInv, Fits, Idle
    <2>2. d.n = 3 /\ t.req = EncryptSecret
      BY <1>3, <2>1, WhichStep DEF Running
    <2>3. Asked3(new)'
      BY <1>2, <2>2 DEF Asked3
    <2> QED
      BY <2>2, <2>3 DEF OnTheWay
  <1>6. task[Demo] # Idle
    BY <1>1, <1>3 DEF Idle
  <1> QED
    BY <1>1, <1>3, <1>4, <1>5, <1>6, DemoTaskMoves

LEMMA DemoSeals ==
    ASSUME DemoIInv, AsksKept, Seal(Demo), UNCHANGED demo
    PROVE  DemoIInv'
  <1>1. PICK t, d : t = task[Demo] /\ d = demo
    OBVIOUS
  <1>2. PICK e : e = [req |-> t.req, iv |-> t.iv, ct |-> t.ct,
                      sig |-> Signature(integrity_label, integrity_payload(t.req.label, t.iv, t.ct))]
    OBVIOUS
  <1>3. PICK new : new = Answering(t.req, Sealed(e))
    OBVIOUS
  <1>4. t.at = "seal" /\ task' = [task EXCEPT ![Demo] = new] /\ issued' = issued \cup {e}
    BY <1>1, <1>2, <1>3 DEF Seal
  <1>5. Moved(Demo)
    BY ConstantFacts, SealMoves DEF DemoIInv, Base
  <1>6. ASSUME d.at = "running" PROVE OnTheWay(new, d)'
    <2>1. Holds(d) /\ OnTheWay(t, d)
      BY <1>1, <1>4, <1>6 DEF DemoIInv, Fits, Idle
    <2>2. d.n = 3 /\ t.req = EncryptSecret
      BY <1>4, <2>1, WhichStep
    <2>3. e \in Secrets'
      BY <1>2, <1>4, <2>2 DEF Secrets
    <2>4. new.at = "answer" /\ new.resp = Sealed(e) /\ new.resp.status = "ok"
      BY <1>3 DEF Answering, Sealed
    <2>5. Asked3(new)'
      BY <2>3, <2>4 DEF Asked3
    <2> QED
      BY <2>2, <2>5 DEF OnTheWay
  <1>7. task[Demo] # Idle
    BY <1>1, <1>4 DEF Idle
  <1> QED
    BY <1>1, <1>4, <1>5, <1>6, <1>7, DemoTaskMoves

\* The seal of an encryption given out is the one the first key gives.
LEMMA SealPasses ==
    ASSUME Base, NEW e \in Secrets, gen = 0
    PROVE  check_integrity(Reopen(e, e.ct))
  <1>1. e \in issued /\ e.req.label = enc_key
    BY DEF Secrets, EncryptSecret
  <1>2. e.sig \in Signatures
    BY <1>1 DEF Base, IInv, TypeOK, Encryptions
  <1> DEFINE data == integrity_payload(e.req.label, e.iv, e.ct)
  <1>3. e.sig.key.label = integrity_label /\ e.sig.data = data
    BY <1>1 DEF Base, IInv, IssuedAreSealed
  <1> HIDE DEF data
  <1>4. e.sig.key = [label |-> integrity_label, gen |-> 0]
    BY <1>2, <1>3 DEF Signatures
  <1>5. e.sig = Signature(integrity_label, data)
    BY <1>2, <1>3, <1>4 DEF Signatures, Signature, SigningKey
  <1>6. data = integrity_payload(enc_key, e.iv, e.ct)
    BY <1>1 DEF data
  <1> QED
    BY <1>5, <1>6 DEF check_integrity, Reopen

\* With a flipped bit no seal passes, also of a replaced key.
LEMMA FlippedFails ==
    ASSUME Base, NEW e \in Secrets
    PROVE  ~check_integrity(Reopen(e, FlippedBit(e.ct)))
  <1> SUFFICES ASSUME check_integrity(Reopen(e, FlippedBit(e.ct))) PROVE FALSE
    OBVIOUS
  <1>1. e \in issued /\ e.req.label = enc_key
    BY DEF Secrets, EncryptSecret
  <1>2. e.sig.data = integrity_payload(enc_key, e.iv, FlippedBit(e.ct))
    BY DEF check_integrity, Reopen, Signature
  <1>3. e.sig.data = integrity_payload(enc_key, e.iv, e.ct)
    BY <1>1 DEF Base, IInv, IssuedAreSealed
  <1>4. e.iv \in Ivs /\ e.ct \in Ciphertexts
    BY <1>1 DEF Base, IInv, TypeOK, Encryptions
  <1>5. PICK iv, ct, other : iv = e.iv /\ ct = e.ct /\ other = FlippedBit(ct)
    OBVIOUS
  <1>6. iv \in Bytes /\ ct \in Bytes /\ other \in Bytes /\ other # ct /\ enc_key \in Bytes
    BY <1>4, <1>5, FlippedDiffers, ConstantFacts, SealingConstants
  <1>7. integrity_payload(enc_key, iv, ct) = integrity_payload(enc_key, iv, other)
    BY <1>2, <1>3, <1>5
  <1>8. ct = other
    BY <1>6, <1>7, PayloadInjective, SMT
  <1> QED
    BY <1>6, <1>8

LEMMA DemoChecks ==
    ASSUME DemoIInv, AsksKept, Check(Demo), UNCHANGED demo
    PROVE  DemoIInv'
  <1>1. PICK t, d : t = task[Demo] /\ d = demo
    OBVIOUS
  <1>2. PICK new : new = IF check_integrity(t.req) THEN Running("decrypt", t.req)
                         ELSE Answering(t.req, denied("integrity"))
    OBVIOUS
  <1>3. t.at = "check" /\ task' = [task EXCEPT ![Demo] = new] /\ UNCHANGED <<issued, faults>>
    BY <1>1, <1>2 DEF Check
  <1>4. Moved(Demo) /\ Base
    BY ConstantFacts, CheckMoves DEF DemoIInv, Base
  <1>5. ASSUME d.at = "running" PROVE OnTheWay(new, d)'
    <2>1. Holds(d) /\ OnTheWay(t, d)
      BY <1>1, <1>3, <1>5 DEF DemoIInv, Fits, Idle
    <2>2. d.n \in {4, 5}
      BY <1>3, <2>1, WhichStep
    <2>3. CASE d.n = 4
      <3>1. PICK e \in Secrets : d.enc = Sealed(e) /\ t.req = Reopen(e, e.ct)
        BY <1>3, <2>1, <2>3 DEF OnTheWay, Asked4
      <3>2. CASE check_integrity(t.req)
        <4>1. new.at = "decrypt" /\ new.req = t.req /\ e \in Secrets'
          BY <1>2, <1>3, <3>2 DEF Running, Secrets
        <4>2. Asked4(new, d.enc)'
          BY <3>1, <4>1 DEF Asked4
        <4> QED
          BY <2>3, <4>2 DEF OnTheWay
      <3>3. CASE ~check_integrity(t.req)
        <4>1. gen # 0
          BY <1>4, <3>1, <3>3, SealPasses
        <4>2. faults' # 0
          BY <1>3, <1>4, <4>1 DEF Base, FaultsCount
        <4>3. new.at = "answer"
          BY <1>2, <3>3 DEF Answering
        <4>4. Excused(new.resp)'
          BY <1>4, <4>2 DEF Excused, Moved, Grown
        <4>5. Asked4(new, d.enc)'
          BY <4>3, <4>4 DEF Asked4
        <4> QED
          BY <2>3, <4>5 DEF OnTheWay
      <3> QED
        BY <3>2, <3>3
    <2>4. CASE d.n = 5
      <3>1. PICK e \in Secrets : t.req = Reopen(e, FlippedBit(e.ct))
        BY <1>3, <2>1, <2>4 DEF OnTheWay, Asked5
      <3>2. ~check_integrity(t.req)
        BY <1>4, <3>1, FlippedFails
      <3>3. new.at = "answer" /\ new.resp.status # "ok"
        BY <1>2, <3>2 DEF Answering, denied
      <3>4. Asked5(new, d.enc)'
        BY <3>3 DEF Asked5
      <3> QED
        BY <2>4, <3>4 DEF OnTheWay
    <2> QED
      BY <2>2, <2>3, <2>4
  <1>6. task[Demo] # Idle
    BY <1>1, <1>3 DEF Idle
  <1> QED
    BY <1>1, <1>3, <1>4, <1>5, <1>6, DemoTaskMoves

\* With fresh IVs, the ciphertext of an encryption comes from it alone.
LEMMA OneSource ==
    ASSUME Base, NEW e \in Secrets
    PROVE  Source(Reopen(e, e.ct)) = {e}
  <1>1. PICK req : req = Reopen(e, e.ct)
    OBVIOUS
  <1>2. req.iv = e.iv /\ req.data = e.ct /\ req.op = "decrypt" /\ req.label = enc_key
    BY <1>1 DEF Reopen
  <1>3. e \in issued /\ e.req.op = "encrypt" /\ e.req.label = enc_key
    BY DEF Secrets, EncryptSecret
  <1>4. AesKey(req) = AesKey(e.req)
    BY <1>2, <1>3 DEF AesKey, DeriveOps
  <1>5. \A f \in Source(req) : f = e
    BY <1>2, <1>3 DEF Source, Base, IvsFresh
  <1>6. e \in Source(req)
    BY <1>2, <1>3, <1>4 DEF Source
  <1> QED
    BY <1>1, <1>5, <1>6

LEMMA DemoDecrypts ==
    ASSUME DemoIInv, AsksKept, Decrypt(Demo), UNCHANGED demo
    PROVE  DemoIInv'
  <1>1. PICK t, d : t = task[Demo] /\ d = demo
    OBVIOUS
  <1>2. PICK resp \in IF t.req.iv = << >> THEN {err("iv")}
                      ELSE IF Source(t.req) = {}
                           THEN {err("padding")} \cup {ok_result(x) : x \in Plaintexts}
                      ELSE {ok_result(e.req.data) : e \in Source(t.req)} :
            task' = [task EXCEPT ![Demo] = Answering(t.req, resp)]
    BY <1>1 DEF Decrypt
  <1>3. PICK new : new = Answering(t.req, resp)
    OBVIOUS
  <1>4. t.at = "decrypt" /\ task' = [task EXCEPT ![Demo] = new]
    BY <1>1, <1>2, <1>3 DEF Decrypt
  <1>5. Moved(Demo) /\ Base
    BY ConstantFacts, DecryptMoves DEF DemoIInv, Base
  <1>6. ASSUME d.at = "running" PROVE OnTheWay(new, d)'
    <2>1. Holds(d) /\ OnTheWay(t, d)
      BY <1>1, <1>4, <1>6 DEF DemoIInv, Fits, Idle
    <2>2. d.n = 4
      BY <1>4, <2>1, WhichStep
    <2>3. PICK e \in Secrets : t.req = Reopen(e, e.ct)
      BY <1>4, <2>1, <2>2 DEF OnTheWay, Asked4
    <2>4. e \in issued /\ e.req.data = secret
      BY DEF Secrets, EncryptSecret
    <2>5. e.iv \in Ivs
      BY <1>5, <2>4 DEF Base, IInv, TypeOK, Encryptions
    <2>6. t.req.iv # << >>
      BY <2>3, <2>5, ClientConstants DEF Reopen
    <2>7. Source(t.req) = {e}
      BY <1>5, <2>3, OneSource
    <2>8. resp = ok_result(secret)
      BY <1>2, <2>4, <2>6, <2>7
    <2>9. new.at = "answer" /\ new.resp = ok_result(secret)
      BY <1>3, <2>8 DEF Answering
    <2>10. Asked4(new, d.enc)'
      BY <2>9 DEF Asked4
    <2> QED
      BY <2>2, <2>10 DEF OnTheWay
  <1>7. task[Demo] # Idle
    BY <1>1, <1>4 DEF Idle
  <1> QED
    BY <1>1, <1>4, <1>5, <1>6, <1>7, DemoTaskMoves

\* A failure is no answer with status ok.  A login is refused only beside a
\* request of another client.
LEMMA DemoFails ==
    ASSUME DemoIInv, AsksKept, HsmFails(Demo) \/ LoginRefused(Demo), UNCHANGED demo
    PROVE  DemoIInv'
  <1>1. PICK t, d : t = task[Demo] /\ d = demo
    OBVIOUS
  <1>2. PICK why : /\ why = IF HsmFails(Demo) THEN "hsm" ELSE "login"
                   /\ task' = [task EXCEPT ![Demo] = Answering(t.req, Failed(t.at, why))]
    BY <1>1 DEF HsmFails, LoginRefused
  <1>3. PICK resp, new : resp = Failed(t.at, why) /\ new = Answering(t.req, resp)
    OBVIOUS
  <1>4. task' = [task EXCEPT ![Demo] = new] /\ InCall(Demo)
    BY <1>2, <1>3 DEF HsmFails, LoginRefused
  <1>5. t.at \in {"sign", "verify", "encrypt", "seal", "decrypt", "check"}
    BY <1>1, <1>4 DEF InCall
  <1>6. Moved(Demo) /\ FaultsCount
    BY ConstantFacts, FailedMoves DEF DemoIInv, Base
  <1>7. Excused(resp)'
    <2>1. CASE HsmFails(Demo)
      BY <1>6, <2>1 DEF Excused, HsmFails, FaultsCount
    <2>2. CASE ~HsmFails(Demo)
      <3>1. PICK c \in Clients \ {Demo} : InCall(c)
        BY <2>2 DEF LoginRefused
      <3>2. task[c] # Idle
        BY <3>1 DEF InCall, Idle
      <3>3. OthersAsk'
        BY <3>2 DEF DemoIInv, SentCounted, OthersAsk, AsksKept
      <3>4. resp \in {denied("login"), err("login")}
        BY <1>2, <1>3, <2>2 DEF Failed
      <3> QED
        BY <3>3, <3>4 DEF Excused, denied, err
    <2> QED
      BY <2>1, <2>2
  <1>8. ASSUME d.at = "running" PROVE OnTheWay(new, d)'
    <2>1. Holds(d) /\ OnTheWay(t, d)
      BY <1>1, <1>5, <1>8 DEF DemoIInv, Fits, Idle
    <2>2. d.n # 6
      BY <1>5, <2>1, WhichStep
    <2>3. new.at = "answer" /\ new.resp = resp /\ resp.status # "ok"
      BY <1>3 DEF Answering, Failed, denied, err
    <2>4. Excused(new.resp)'
      BY <1>7, <2>3
    <2> QED
      BY <2>2, <2>3, <2>4, FailureFits
  <1>9. task[Demo] # Idle
    BY <1>1, <1>5 DEF Idle
  <1> QED
    BY <1>1, <1>4, <1>6, <1>8, <1>9, DemoTaskMoves

LEMMA DemoWorksStep ==
    ASSUME DemoIInv, AsksKept, DemoWorks
    PROVE  DemoIInv'
  BY DemoSigns, DemoVerifies, DemoEncrypts, DemoSeals, DemoChecks, DemoDecrypts, DemoFails
     DEF DemoWorks, Work

-----------------------------------------------------------------------------
(***************************************************************************)
(* The example's requests and assertions.                                  *)
(***************************************************************************)
LEMMA StepNames ==
    /\ Len(Steps) = 6
    /\ Steps[1] = "sign" /\ Steps[2] = "verify" /\ Steps[3] = "encrypt"
    /\ Steps[4] = "decrypt" /\ Steps[5] = "tampered" /\ Steps[6] = "denied"
  BY DEF Steps

\* The requests of the steps, one by one.
LEMMA AskIs ==
    /\ Ask("sign") = SignHello
    /\ demo.sig = HelloSig => Ask("verify") = VerifyHello
    /\ Ask("encrypt") = EncryptSecret
    /\ \A e : demo.enc = Sealed(e) =>
            /\ Ask("decrypt") = Reopen(e, e.ct)
            /\ Ask("tampered") = Reopen(e, FlippedBit(e.ct))
    /\ Ask("denied") = SignDenied
  <1>1. Ask("sign") = SignHello
    BY Zenon DEF Ask, SignHello
  <1>2. demo.sig = HelloSig => Ask("verify") = VerifyHello
    BY Zenon DEF Ask, VerifyHello
  <1>3. Ask("encrypt") = EncryptSecret
    BY Zenon DEF Ask, EncryptSecret
  <1>4. ASSUME NEW e, demo.enc = Sealed(e)
        PROVE  /\ Ask("decrypt") = Reopen(e, e.ct)
               /\ Ask("tampered") = Reopen(e, FlippedBit(e.ct))
    <2>1. demo.enc.result = e.ct /\ demo.enc.iv = e.iv /\ demo.enc.integrity = e.sig
      BY <1>4 DEF Sealed
    <2>2. Ask("decrypt") = Reopen(e, e.ct)
      BY <2>1, Zenon DEF Ask, Reopen
    <2>3. Ask("tampered") = Reopen(e, FlippedBit(e.ct))
      BY <2>1, Zenon DEF Ask, Reopen
    <2> QED
      BY <2>2, <2>3
  <1>5. Ask("denied") = SignDenied
    BY Zenon DEF Ask, SignDenied
  <1> QED
    BY <1>1, <1>2, <1>3, <1>4, <1>5, Zenon

\* The assertions of the steps, one by one.
LEMMA AssertedIs ==
    ASSUME NEW resp
    PROVE  /\ Asserted("sign", resp) <=> resp.status = "ok"
           /\ Asserted("verify", resp) <=> resp.status = "ok" /\ resp.verified
           /\ Asserted("encrypt", resp) <=> resp.status = "ok"
           /\ Asserted("decrypt", resp) <=> resp.status = "ok" /\ resp.result = secret
           /\ Asserted("tampered", resp) <=> resp.status # "ok"
           /\ Asserted("denied", resp) <=> resp.status = "denied"
  <1>1. Asserted("sign", resp) <=> resp.status = "ok"
    BY Zenon DEF Asserted
  <1>2. Asserted("verify", resp) <=> resp.status = "ok" /\ resp.verified
    BY Zenon DEF Asserted
  <1>3. Asserted("encrypt", resp) <=> resp.status = "ok"
    BY Zenon DEF Asserted
  <1>4. Asserted("decrypt", resp) <=> resp.status = "ok" /\ resp.result = secret
    BY Zenon DEF Asserted
  <1>5. Asserted("tampered", resp) <=> resp.status # "ok"
    BY Zenon DEF Asserted
  <1>6. Asserted("denied", resp) <=> resp.status = "denied"
    BY Zenon DEF Asserted
  <1> QED
    BY <1>1, <1>2, <1>3, <1>4, <1>5, <1>6, Zenon

\* A request of the example that was let through or denied.
LEMMA SentFits ==
    ASSUME DemoIInv, AsksKept, demo.at = "running", UNCHANGED demo,
           NEW d, d = demo,
           NEW req \in Request \cup OpeningRequests(sigs, Bytes), Receive(Demo, req),
           NEW new, new = IF Cleared(Demo, req) THEN Running(FirstCall(req), req)
                          ELSE Answering(req, denied("authorization")),
           OnTheWay(new, d)'
    PROVE  DemoIInv'
  <1>1. Base /\ Moved(Demo)
    BY ConstantFacts, ReceiveMoves DEF DemoIInv, Base
  <1>2. Base' /\ Grown /\ FaultsCount
    BY <1>1 DEF Moved, Base
  <1>3. task'[Demo] = new
    BY <1>1, TaskDomain, ConstantFacts DEF Receive
  <1>4. PICK t : t = task[Demo]
    OBVIOUS
  <1>5. Fits(t, d)
    BY <1>4 DEF DemoIInv
  <1>6. Fits(t, d)'
    BY <1>2, <1>5, FitsGrows
  <1>7. Fits(new, d)'
    BY <1>6 DEF Fits
  <1>8. Fits(task[Demo], demo)'
    BY <1>3, <1>7 DEF Fits
  <1> QED
    BY <1>2, <1>8 DEF DemoIInv, Base, AsksKept

\* The intent of a request of the example is not written.
LEMMA DemoIntentFails ==
    ASSUME DemoIInv, AsksKept, demo.at = "running", UNCHANGED demo,
           IntentFails(Demo, Ask(Steps[demo.n]))
    PROVE  DemoIInv'
  <1>1. PICK t, d, req : t = task[Demo] /\ d = demo /\ req = Ask(Steps[demo.n])
    OBVIOUS
  <1>2. PICK new : new = Answering(req, err("audit"))
    OBVIOUS
  <1>3. /\ IntentFails(Demo, req) /\ Cleared(Demo, req)
        /\ task' = [task EXCEPT ![Demo] = new] /\ faults' = faults + 1
    BY <1>1, <1>2 DEF IntentFails
  <1>4. Base /\ Moved(Demo)
    BY <1>3, ConstantFacts, IntentFailsMoves DEF DemoIInv, Base
  <1>5. Base' /\ Grown /\ FaultsCount
    BY <1>4 DEF Moved, Base
  <1>6. d.n # 6
    BY <1>1, <1>3, StepNames, AskIs, ClearedAsks
  <1>7. new.at = "answer" /\ new.resp.status # "ok" /\ Excused(new.resp)'
    BY <1>2, <1>3, <1>5 DEF Answering, err, Excused, FaultsCount
  <1>8. OnTheWay(new, d)'
    BY <1>6, <1>7, FailureFits
  <1>9. Fits(t, d)'
    <2>1. Fits(t, d)
      BY <1>1 DEF DemoIInv
    <2> QED
      BY <1>5, <2>1, FitsGrows
  <1>10. Fits(new, d)'
    BY <1>1, <1>8, <1>9 DEF Fits
  <1>11. task'[Demo] = new
    BY <1>3, <1>4, TaskDomain, ConstantFacts
  <1>12. Fits(task[Demo], demo)'
    BY <1>1, <1>10, <1>11 DEF Fits
  <1> QED
    BY <1>5, <1>12 DEF DemoIInv, Base, AsksKept

LEMMA DemoSendsStep ==
    ASSUME DemoIInv, AsksKept, DemoSends
    PROVE  DemoIInv'
  <1>0. CASE IntentFails(Demo, Ask(Steps[demo.n]))
    BY <1>0, DemoIntentFails DEF DemoSends
  <1> SUFFICES ASSUME Receive(Demo, Ask(Steps[demo.n])) PROVE DemoIInv'
    BY <1>0 DEF DemoSends
  <1>1. demo.at = "running" /\ UNCHANGED <<demo, sigs, issued>> /\ Receive(Demo, Ask(Steps[demo.n]))
    BY DEF DemoSends, Receive
  <1>2. PICK d : d = demo
    OBVIOUS
  <1>3. Holds(d)
    BY <1>1, <1>2 DEF DemoIInv, Fits
  <1>4. d.n \in 1..6
    BY <1>3, StepIs
  <1>5. CASE d.n = 1
    <2>1. Receive(Demo, SignHello)
      BY <1>1, <1>2, <1>5, StepNames, AskIs
    <2>2. SignHello \in Request
      BY ConstantFacts DEF Request, SigningRequests, SignHello
    <2>3. PICK new : new = Running("sign", SignHello)
      OBVIOUS
    <2>4. FirstCall(SignHello) = "sign"
      BY DEF FirstCall, SignHello
    <2>5. OnTheWay(new, d)'
      BY <1>5, <2>3 DEF OnTheWay, Asked1
    <2> QED
      BY <1>1, <1>2, <2>1, <2>2, <2>3, <2>4, <2>5, ClearedAsks, SentFits
  <1>6. CASE d.n = 2
    <2>0. d.sig = HelloSig /\ HelloSig \in sigs
      BY <1>3, <1>6, StepIs
    <2>1. Receive(Demo, VerifyHello)
      BY <1>1, <1>2, <1>6, <2>0, StepNames, AskIs
    <2>2. VerifyHello \in Request
      BY <2>0, ConstantFacts DEF Request, VerifyRequests, VerifyHello
    <2>3. PICK new : new = Running("verify", VerifyHello)
      OBVIOUS
    <2>4. FirstCall(VerifyHello) = "verify"
      BY DEF FirstCall, VerifyHello
    <2>5. Asked2(new)'
      BY <2>3, Zenon DEF Asked2
    <2>6. OnTheWay(new, d)'
      BY <1>6, <2>5 DEF OnTheWay
    <2> QED
      BY <1>1, <1>2, <2>1, <2>2, <2>3, <2>4, <2>6, ClearedAsks, SentFits
  <1>7. CASE d.n = 3
    <2>1. Receive(Demo, EncryptSecret)
      BY <1>1, <1>2, <1>7, StepNames, AskIs
    <2>2. EncryptSecret \in Request
      BY ConstantFacts DEF Request, SealingRequests, EncryptSecret
    <2>3. PICK new : new = Running("encrypt", EncryptSecret)
      OBVIOUS
    <2>4. FirstCall(EncryptSecret) = "encrypt"
      BY DEF FirstCall, EncryptSecret, Opens
    <2>5. OnTheWay(new, d)'
      BY <1>7, <2>3 DEF OnTheWay, Asked3
    <2> QED
      BY <1>1, <1>2, <2>1, <2>2, <2>3, <2>4, <2>5, ClearedAsks, SentFits
  <1>8. ASSUME d.n \in {4, 5} PROVE DemoIInv'
    <2>0. PICK e \in Secrets : d.enc = Sealed(e)
      BY <1>3, <1>8, StepIs
    <2>1. PICK ct : ct = IF d.n = 4 THEN e.ct ELSE FlippedBit(e.ct)
      OBVIOUS
    <2>2. Receive(Demo, Reopen(e, ct))
      BY <1>1, <1>2, <1>8, <2>0, <2>1, StepNames, AskIs
    <2>3. e.iv \in Ivs /\ e.ct \in Ciphertexts /\ e.sig \in sigs
      BY DEF Secrets, DemoIInv, IInv, TypeOK, Encryptions
    <2>4. ct \in Bytes
      BY <2>1, <2>3, FlippedDiffers, SealingConstants
    <2>5. Reopen(e, ct) \in OpeningRequests(sigs, Bytes)
      BY <2>3, <2>4, ConstantFacts DEF OpeningRequests, Reopen
    <2>6. PICK new : new = Running("check", Reopen(e, ct))
      OBVIOUS
    <2>7. FirstCall(Reopen(e, ct)) = "check"
      BY DEF FirstCall, Reopen, Opens
    <2>8. e \in Secrets' /\ new.at = "check" /\ new.req = Reopen(e, ct)
      BY <1>1, <2>6 DEF Secrets, Running
    <2>9. CASE d.n = 4
      <3>1. Asked4(new, d.enc)'
        BY <2>0, <2>1, <2>8, <2>9 DEF Asked4
      <3>2. OnTheWay(new, d)'
        BY <2>9, <3>1 DEF OnTheWay
      <3> QED
        BY <1>1, <1>2, <2>2, <2>5, <2>6, <2>7, <3>2, ClearedAsks, SentFits
    <2>10. CASE d.n = 5
      <3>1. Asked5(new, d.enc)'
        BY <2>0, <2>1, <2>8, <2>10 DEF Asked5
      <3>2. OnTheWay(new, d)'
        BY <2>10, <3>1 DEF OnTheWay
      <3> QED
        BY <1>1, <1>2, <2>2, <2>5, <2>6, <2>7, <3>2, ClearedAsks, SentFits
    <2> QED
      BY <1>8, <2>9, <2>10
  <1>9. CASE d.n = 6
    <2>1. Receive(Demo, SignDenied)
      BY <1>1, <1>2, <1>9, StepNames, AskIs
    <2>2. SignDenied \in Request
      BY ConstantFacts DEF Request, SigningRequests, SignDenied
    <2>3. PICK new : new = Answering(SignDenied, denied("authorization"))
      OBVIOUS
    <2>4. OnTheWay(new, d)'
      BY <1>9, <2>3 DEF OnTheWay, Asked6, Answering, denied
    <2> QED
      BY <1>1, <1>2, <2>1, <2>2, <2>3, <2>4, ClearedAsks, SentFits
  <1> QED
    BY <1>4, <1>5, <1>6, <1>7, <1>8, <1>9

\* Without an excuse every answer is the one asserted.
LEMMA AnswersAreAsserted ==
    ASSUME NEW t, NEW d, Holds(d), OnTheWay(t, d), t.at = "answer",
           ~Excused(t.resp) \/ d.n \in {5, 6}
    PROVE  Asserted(Steps[d.n], t.resp)
  <1>0. d.n \in 1..6
    BY StepIs
  <1>1. CASE d.n = 1
    <2>1. t.resp.status = "ok"
      BY <1>1 DEF OnTheWay, Asked1, Running
    <2> QED
      BY <1>1, <2>1, StepNames, AssertedIs, Zenon
  <1>2. CASE d.n = 2
    <2>1. \/ t = Running("verify", VerifyHello)
          \/ t.at = "answer" /\ (~Excused(t.resp) => t.resp = Verified(TRUE))
      BY <1>2, Zenon DEF OnTheWay, Asked2
    <2>2. t # Running("verify", VerifyHello)
      BY DEF Running
    <2>3. ~Excused(t.resp)
      BY <1>2
    <2>4. t.resp = Verified(TRUE)
      BY <2>1, <2>2, <2>3, Zenon
    <2>5. Verified(TRUE).status = "ok" /\ Verified(TRUE).verified = TRUE
      BY Zenon DEF Verified
    <2>6. t.resp.status = "ok" /\ t.resp.verified
      BY <2>4, <2>5, Zenon
    <2> QED
      BY <1>2, <2>6, StepNames, AssertedIs, Zenon
  <1>3. CASE d.n = 3
    <2>1. t.resp.status = "ok"
      BY <1>3 DEF OnTheWay, Asked3, Running
    <2> QED
      BY <1>3, <2>1, StepNames, AssertedIs, Zenon
  <1>4. CASE d.n = 4
    <2>1. t.resp = ok_result(secret)
      BY <1>4 DEF OnTheWay, Asked4
    <2>2. t.resp.status = "ok" /\ t.resp.result = secret
      BY <2>1 DEF ok_result
    <2> QED
      BY <1>4, <2>2, StepNames, AssertedIs, Zenon
  <1>5. CASE d.n = 5
    <2>1. t.resp.status # "ok"
      BY <1>5 DEF OnTheWay, Asked5
    <2> QED
      BY <1>5, <2>1, StepNames, AssertedIs, Zenon
  <1>6. CASE d.n = 6
    <2>1. t.resp.status = "denied"
      BY <1>6 DEF OnTheWay, Asked6
    <2> QED
      BY <1>6, <2>1, StepNames, AssertedIs, Zenon
  <1> QED
    BY <1>0, <1>1, <1>2, <1>3, <1>4, <1>5, <1>6

\* What the example keeps of an answer with status ok.
LEMMA AnswersAreKept ==
    ASSUME NEW t, NEW d, Holds(d), OnTheWay(t, d), t.at = "answer", Asserted(Steps[d.n], t.resp)
    PROVE  /\ d.n = 1 => t.resp.result = HelloSig /\ HelloSig \in sigs
           /\ d.n = 3 => \E e \in Secrets : t.resp = Sealed(e)
  <1>1. ASSUME d.n = 1 PROVE t.resp.result = HelloSig /\ HelloSig \in sigs
    <2>1. t.resp.status = "ok"
      BY <1>1, StepNames, AssertedIs, Zenon
    <2> QED
      BY <1>1, <2>1 DEF OnTheWay, Asked1, Running
  <1>2. ASSUME d.n = 3 PROVE \E e \in Secrets : t.resp = Sealed(e)
    <2>1. t.resp.status = "ok"
      BY <1>2, StepNames, AssertedIs, Zenon
    <2> QED
      BY <1>2, <2>1 DEF OnTheWay, Asked3, Running
  <1> QED
    BY <1>1, <1>2

\* The state of the example behind a step.
LEMMA DemoAfter ==
    ASSUME DemoReceives, Holds(demo)
    PROVE  /\ ~Asserted(Steps[demo.n], task[Demo].resp) =>
                demo' = [at |-> "panicked", resp |-> task[Demo].resp]
           /\ Asserted(Steps[demo.n], task[Demo].resp) =>
                /\ demo.n = 1 => demo' = [at |-> "running", n |-> 2, sig |-> task[Demo].resp.result]
                /\ demo.n = 3 => demo' = [at |-> "running", n |-> 4, enc |-> task[Demo].resp]
                /\ demo.n = 6 => demo' = [at |-> "passed"]
                /\ demo.n \in {2, 4, 5} => demo' = [demo EXCEPT !.n = demo.n + 1]
  <1> DEFINE resp == task[Demo].resp
             step == Steps[demo.n]
             Follows(s) == CASE s = "sign" -> [at |-> "running", n |-> 2, sig |-> resp.result]
                             [] s = "encrypt" -> [at |-> "running", n |-> 4, enc |-> resp]
                             [] demo.n = Len(Steps) -> [at |-> "passed"]
                             [] OTHER -> [demo EXCEPT !.n = @ + 1]
  <1>1. demo' = IF ~Asserted(step, resp) THEN [at |-> "panicked", resp |-> resp]
                ELSE Follows(step)
    BY Zenon DEF DemoReceives
  <1> HIDE DEF Follows
  <1>2. ~Asserted(step, resp) => demo' = [at |-> "panicked", resp |-> resp]
    BY <1>1, Zenon
  <1>3. Asserted(step, resp) => demo' = Follows(step)
    BY <1>1, Zenon
  <1>4. demo.n = 1 => Follows(step) = [at |-> "running", n |-> 2, sig |-> resp.result]
    <2>1. demo.n = 1 => step = "sign" /\ demo.n # Len(Steps)
      BY StepNames
    <2> QED
      BY <2>1, Zenon DEF Follows
  <1>5. demo.n = 3 => Follows(step) = [at |-> "running", n |-> 4, enc |-> resp]
    <2>1. demo.n = 3 => step = "encrypt" /\ demo.n # Len(Steps)
      BY StepNames
    <2> QED
      BY <2>1, Zenon DEF Follows
  <1>6. demo.n = 6 => Follows(step) = [at |-> "passed"]
    <2>1. demo.n = 6 => step \notin {"sign", "encrypt"} /\ demo.n = Len(Steps)
      BY StepNames
    <2>2. demo.n = 6 => step # "sign" /\ step # "encrypt" /\ demo.n = Len(Steps)
      BY <2>1
    <2> HIDE DEF step
    <2> QED
      BY <2>2, Zenon DEF Follows
  <1>7. demo.n \in {2, 4, 5} => Follows(step) = [demo EXCEPT !.n = demo.n + 1]
    <2>1. demo.n \in {2, 4, 5} => step # "sign" /\ step # "encrypt" /\ demo.n # Len(Steps)
      BY StepNames
    <2> HIDE DEF step
    <2> QED
      BY <2>1, Zenon DEF Follows
  <1> QED
    BY <1>2, <1>3, <1>4, <1>5, <1>6, <1>7, Zenon

LEMMA DemoReceivesStep ==
    ASSUME DemoIInv, AsksKept, DemoReceives
    PROVE  DemoIInv'
  <1>1. PICK t, d, next : t = task[Demo] /\ d = demo /\ next = demo'
    OBVIOUS
  <1>2. demo.at = "running" /\ Answer(Demo) /\ t.at = "answer"
    BY <1>1 DEF DemoReceives, Answer
  <1>3. Base /\ Moved(Demo)
    BY <1>2, ConstantFacts, AnswerMoves DEF DemoIInv, Base
  <1>4. Base' /\ UNCHANGED <<sigs, issued, faults>> /\ faults \in Nat
    BY <1>2, <1>3 DEF Moved, Answer, Base, FaultsCount
  <1>5. task'[Demo] = Idle
    BY <1>2, <1>3, TaskDomain, ConstantFacts DEF Answer
  <1>6. Holds(d) /\ OnTheWay(t, d)
    BY <1>1, <1>2 DEF DemoIInv, Fits, Idle
  <1>7. d.n \in 1..6
    BY <1>6, StepIs
  <1>8. Holds(demo)
    BY <1>1, <1>6
  <1>9. Fits(Idle, next)'
    <2>1. CASE ~Asserted(Steps[d.n], t.resp)
      <3>1. next = [at |-> "panicked", resp |-> t.resp]
        BY <1>1, <1>8, <2>1, DemoAfter
      <3>2. Excused(t.resp)
        BY <1>2, <1>6, <2>1, AnswersAreAsserted
      <3>3. next.at = "panicked" /\ next.resp = t.resp
        BY <3>1
      <3>4. Excused(next.resp)'
        BY <1>4, <3>2, <3>3 DEF Excused, AsksKept
      <3> QED
        BY <3>3, <3>4 DEF Fits
    <2>2. CASE Asserted(Steps[d.n], t.resp)
      <3>1. CASE d.n = 1
        <4>1. next = [at |-> "running", n |-> 2, sig |-> t.resp.result]
          BY <1>1, <1>8, <2>2, <3>1, DemoAfter
        <4>2. t.resp.result = HelloSig /\ HelloSig \in sigs'
          BY <1>2, <1>4, <1>6, <2>2, <3>1, AnswersAreKept
        <4>3. Holds(next)'
          BY <4>1, <4>2 DEF Holds
        <4> QED
          BY <4>1, <4>3 DEF Fits
      <3>2. CASE d.n = 3
        <4>1. next = [at |-> "running", n |-> 4, enc |-> t.resp]
          BY <1>1, <1>8, <2>2, <3>2, DemoAfter
        <4>2. PICK e \in Secrets : t.resp = Sealed(e)
          BY <1>2, <1>6, <2>2, <3>2, AnswersAreKept
        <4>3. e \in Secrets'
          BY <1>4 DEF Secrets
        <4>4. Holds(next)'
          BY <4>1, <4>2, <4>3 DEF Holds
        <4> QED
          BY <4>1, <4>4 DEF Fits
      <3>3. CASE d.n = 6
        <4>1. next = [at |-> "passed"]
          BY <1>1, <1>8, <2>2, <3>3, DemoAfter
        <4> QED
          BY <4>1 DEF Fits
      <3>4. CASE d.n \in {2, 4, 5}
        <4>1. next = [d EXCEPT !.n = d.n + 1]
          BY <1>1, <1>8, <2>2, <3>4, DemoAfter
        <4>2. CASE d.n = 2
          <5>1. HelloSig \in sigs /\ d = [at |-> "running", n |-> 2, sig |-> HelloSig]
            BY <1>6, <4>2 DEF Holds
          <5>2. next = [at |-> "running", n |-> 3, sig |-> HelloSig]
            BY <4>1, <5>1
          <5>3. Holds(next)'
            BY <1>4, <5>1, <5>2 DEF Holds
          <5> QED
            BY <5>2, <5>3 DEF Fits
        <4>3. CASE d.n \in {4, 5}
          <5>1. PICK e \in Secrets : d = [at |-> "running", n |-> d.n, enc |-> Sealed(e)]
            BY <1>6, <4>3 DEF Holds
          <5>2. PICK k \in {5, 6} : k = d.n + 1
            BY <4>3
          <5>3. next = [at |-> "running", n |-> k, enc |-> Sealed(e)]
            BY <4>1, <5>1, <5>2
          <5>4. e \in Secrets'
            BY <1>4 DEF Secrets
          <5>5. Holds(next)'
            BY <5>3, <5>4 DEF Holds
          <5> QED
            BY <5>3, <5>5 DEF Fits
        <4> QED
          BY <3>4, <4>2, <4>3
      <3> QED
        BY <1>7, <3>1, <3>2, <3>3, <3>4
    <2> QED
      BY <2>1, <2>2
  <1>10. Fits(task[Demo], demo)'
    BY <1>1, <1>5, <1>9 DEF Fits
  <1> QED
    BY <1>4, <1>10 DEF DemoIInv, Base, AsksKept

-----------------------------------------------------------------------------
(***************************************************************************)
(* The other steps, and all of them.                                       *)
(***************************************************************************)
LEMMA DemoConnectsStep ==
    ASSUME DemoIInv, AsksKept, DemoConnects
    PROVE  DemoIInv'
  <1>1. UNCHANGED vars /\ demo.at = "start"
    BY DEF DemoConnects
  <1>2. IInv' /\ FaultsCount' /\ IvsFresh'
    <2>1. IInv'
      BY <1>1, NextIInv DEF DemoIInv
    <2> QED
      BY <1>1, <2>1 DEF vars, DemoIInv, FaultsCount, IvsFresh
  <1>3. task[Demo] = Idle
    BY <1>1 DEF DemoIInv, Fits
  <1>4. PICK next : next = demo' /\ next \in {[at |-> "running", n |-> 1], [at |-> "failed"]}
    BY DEF DemoConnects
  <1>5. Fits(Idle, next)'
    BY <1>4 DEF Fits, Holds
  <1>6. Fits(task[Demo], demo)'
    BY <1>1, <1>3, <1>4, <1>5 DEF Fits, vars
  <1> QED
    BY <1>2, <1>6 DEF DemoIInv, AsksKept

LEMMA DemoLosesStep ==
    ASSUME DemoIInv, AsksKept, DemoLoses
    PROVE  DemoIInv'
  <1>1. UNCHANGED vars /\ demo' = [at |-> "failed"]
    BY DEF DemoLoses
  <1>2. IInv' /\ FaultsCount' /\ IvsFresh'
    <2>1. IInv'
      BY <1>1, NextIInv DEF DemoIInv
    <2> QED
      BY <1>1, <2>1 DEF vars, DemoIInv, FaultsCount, IvsFresh
  <1>3. Fits(task[Demo], demo)'
    BY <1>1 DEF Fits
  <1> QED
    BY <1>2, <1>3 DEF DemoIInv, AsksKept

\* The example keeps what it knows when others move.
LEMMA OthersMove ==
    ASSUME DemoIInv, AsksKept, Base', Grown, task'[Demo] = task[Demo], UNCHANGED demo
    PROVE  DemoIInv'
  <1>1. PICK t, d : t = task[Demo] /\ d = demo
    OBVIOUS
  <1>2. Fits(t, d) /\ FaultsCount
    BY <1>1 DEF DemoIInv
  <1>3. Fits(t, d)'
    BY <1>2, FitsGrows
  <1>4. Fits(task[Demo], demo)'
    BY <1>1, <1>3 DEF Fits
  <1> QED
    BY <1>4 DEF DemoIInv, Base, AsksKept

LEMMA OthersStep ==
    ASSUME DemoIInv, AsksKept, Others
    PROVE  DemoIInv'
  <1>1. Base
    BY DEF DemoIInv, Base
  <1>2. ASSUME NEW c \in Clients \ {Demo}, Send(c) \/ Work(c) \/ Answer(c) PROVE Moved(c)
    <2>1. CASE Send(c)
      BY <1>1, <2>1, ReceiveMoves, IntentFailsMoves DEF Send
    <2>2. CASE Work(c)
      BY <1>1, <2>2, WorkMoves
    <2>3. CASE Answer(c)
      BY <1>1, <2>3, AnswerMoves
    <2> QED
      BY <1>2, <2>1, <2>2, <2>3
  <1>3. ASSUME NEW c \in Clients \ {Demo}, Moved(c) PROVE Base' /\ Grown /\ task'[Demo] = task[Demo]
    BY <1>3, ConstantFacts DEF Moved
  <1>4. ASSUME ReplaceKey PROVE Base' /\ Grown /\ task'[Demo] = task[Demo]
    BY <1>1, <1>4, ReplaceKeyMoves
  <1>5. Base' /\ Grown /\ task'[Demo] = task[Demo]
    BY <1>2, <1>3, <1>4 DEF Others
  <1> QED
    BY <1>5, OthersMove DEF Others

LEMMA InitDemoIInv == DemoInit => DemoIInv
  <1> SUFFICES ASSUME DemoInit PROVE DemoIInv
    OBVIOUS
  <1>1. IInv
    BY InitIInv DEF DemoInit
  <1>2. FaultsCount /\ SentCounted /\ IvsFresh
    BY DEF DemoInit, Init, FaultsCount, SentCounted, IvsFresh, Idle
  <1>3. task[Demo] = Idle /\ demo.at = "start"
    BY ConstantFacts DEF DemoInit, Init
  <1>4. Fits(task[Demo], demo)
    BY <1>3 DEF Fits
  <1> QED
    BY <1>1, <1>2, <1>4 DEF DemoIInv

LEMMA NextDemoIInv == DemoIInv /\ [DemoNext]_demoVars => DemoIInv'
  <1> SUFFICES ASSUME DemoIInv, [DemoNext]_demoVars PROVE DemoIInv'
    OBVIOUS
  <1>0. AsksKept
    BY NextAsks
  <1>1. CASE UNCHANGED demoVars
    <2>1. IInv' /\ UNCHANGED <<vars, demo>>
      BY <1>1, NextIInv DEF DemoIInv, demoVars
    <2>2. FaultsCount' /\ IvsFresh' /\ Grown
      BY <2>1 DEF vars, DemoIInv, FaultsCount, IvsFresh, Grown
    <2>3. task'[Demo] = task[Demo]
      BY <2>1 DEF vars
    <2> QED
      BY <1>0, <2>1, <2>2, <2>3, OthersMove DEF Base
  <1> QED
    BY <1>0, <1>1, DemoConnectsStep, DemoSendsStep, DemoReceivesStep, DemoWorksStep, DemoLosesStep,
       OthersStep DEF DemoNext

-----------------------------------------------------------------------------
(***************************************************************************)
(* The theorems.                                                           *)
(***************************************************************************)
\* The assertions of the example (main, src/examples/client_rust/src/main.rs:90-153)
\* fail, for any number of other clients and requests of theirs, only after a
\* failure of the HSM or of the log or a replaced integrity key, or with the
\* response of a login refused beside a request of another client
\* (open_session, src/src/hsm.rs:65-70).
THEOREM ExamplePasses == DemoSpec => []DemoPasses
  <1>1. DemoIInv => DemoPasses
    BY DEF DemoIInv, Fits, Excused, OthersAsk, DemoPasses
  <1> QED
    BY InitDemoIInv, NextDemoIInv, <1>1, PTL DEF DemoSpec

\* A changed ciphertext is never decrypted for the example and a request
\* without permission is always denied (process_line and execute,
\* src/src/server.rs:125-315), HSM failures and replaced keys included.
THEOREM ProbesAlwaysHold == DemoSpec => ProbesHold
  <1>1. DemoIInv /\ [DemoNext]_demoVars =>
            (demo.at = "running" /\ demo.n \in {5, 6} => demo'.at # "panicked")
    <2> SUFFICES ASSUME DemoIInv, [DemoNext]_demoVars, demo.at = "running", demo.n \in {5, 6},
                        demo'.at = "panicked"
                 PROVE  FALSE
      OBVIOUS
    <2>1. demo' # demo
      OBVIOUS
    <2>2. DemoReceives
      BY <2>1 DEF DemoNext, DemoConnects, DemoSends, DemoWorks, DemoLoses, Others, demoVars
    <2>3. PICK t, d : t = task[Demo] /\ d = demo
      OBVIOUS
    <2>4. t.at = "answer" /\ Holds(d) /\ OnTheWay(t, d)
      BY <2>2, <2>3 DEF DemoIInv, Fits, DemoReceives, Answer, Idle
    <2>5. Asserted(Steps[d.n], t.resp) /\ Holds(demo)
      BY <2>3, <2>4, AnswersAreAsserted
    <2>6. CASE d.n = 6
      <3>1. demo' = [at |-> "passed"]
        BY <2>2, <2>3, <2>5, <2>6, DemoAfter
      <3> QED
        BY <3>1
    <2>7. CASE d.n = 5
      <3>1. demo' = [demo EXCEPT !.n = demo.n + 1]
        BY <2>2, <2>3, <2>5, <2>7, DemoAfter
      <3> QED
        BY <3>1
    <2> QED
      BY <2>3, <2>6, <2>7
  <1> QED
    BY InitDemoIInv, NextDemoIInv, <1>1, PTL DEF DemoSpec, ProbesHold

\* The promises of Encrypt-then-Sign (src/src/server.rs:293-330) hold beside
\* the example, which sends a ciphertext the gateway never made.
THEOREM ExampleKeepsSealing ==
    DemoSpec => []TypeOK /\ []OnlyIssuedIsDecrypted /\ []IssuedIsAccepted
  <1>1. DemoIInv => TypeOK /\ OnlyIssuedIsDecrypted /\ IssuedIsAccepted
    BY IInvAccepts DEF DemoIInv, IInv
  <1> QED
    BY InitDemoIInv, NextDemoIInv, <1>1, PTL DEF DemoSpec
=============================================================================
