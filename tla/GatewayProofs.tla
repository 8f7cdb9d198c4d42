---------------------------- MODULE GatewayProofs ----------------------------
(***************************************************************************)
(* Proofs about Gateway for any set of connections, requests and slots,    *)
(* any table and any bounds.  What AuditLogProofs and HsmClientProofs say  *)
(* about the steps of their modules is used for the steps of the gateway.  *)
(***************************************************************************)
EXTENDS Gateway, SequenceTheorems, TLAPS

AP == INSTANCE AuditLogProofs WITH Callers <- Conns, Bodies <- Entries

HP == INSTANCE HsmClientProofs WITH Callers <- Conns, Labels <- KeyLabels

\* AP and HP have the definitions of A and H.
LEMMA SameTypes == (A!TypeOK <=> AP!TypeOK) /\ (H!TypeOK <=> HP!TypeOK)
  <1>1. A!TypeOK <=> AP!TypeOK
    BY DEF A!TypeOK, AP!TypeOK, A!NoCall, AP!NoCall, A!InProgress, AP!InProgress,
           A!Lines, AP!Lines, A!Hashes, AP!Hashes, A!Junk, AP!Junk
  <1>2. H!TypeOK <=> HP!TypeOK
    BY DEF H!TypeOK, HP!TypeOK, H!NoSlot, HP!NoSlot, H!Idle, HP!Idle, H!Functions,
           HP!Functions, H!OpeningCalls, HP!OpeningCalls, H!LoginCalls, HP!LoginCalls,
           H!RunningCalls, HP!RunningCalls, H!EndedCalls, HP!EndedCalls, H!Results,
           HP!Results, H!Commands, HP!Commands
  <1> QED
    BY <1>1, <1>2

LEMMA SameEntry ==
    ASSUME NEW k
    PROVE  A!EntryOf(k) = AP!EntryOf(k)
  BY DEF A!EntryOf, AP!EntryOf, A!Entry, AP!Entry, A!entry_hash, AP!entry_hash

LEMMA SameWrite ==
    ASSUME NEW line
    PROVE  A!WithLine(line) = AP!WithLine(line)
  BY DEF A!WithLine, AP!WithLine, A!Junk, AP!Junk

\* What the gateway does to the audit log are steps of the audit log.
LEMMA LogSteps ==
    ASSUME \/ UNCHANGED logVars
           \/ A!Open \/ A!Crash \/ A!PowerLoss
           \/ \E k \in Conns :
                \/ \E b \in Entries : A!Begin(k, b)
                \/ A!WriteOk(k) \/ A!WriteFails(k) \/ A!WriteTorn(k) \/ A!Publish(k)
                \/ A!CrashMidWrite(k)
    PROVE  [AP!Steps]_AP!logVars
  <1>1. A!verify_chain(file) = AP!verify_chain(file) /\ A!TipOf(file) = AP!TipOf(file)
    BY DEF A!verify_chain, AP!verify_chain, A!TipOf, AP!TipOf, A!GENESIS, AP!GENESIS,
           A!entry_hash, AP!entry_hash
  <1>2. A!Open => AP!Open
    BY <1>1 DEF A!Open, AP!Open, A!GENESIS, AP!GENESIS
  <1>3. A!Stop => AP!Stop
    BY DEF A!Stop, AP!Stop, A!GENESIS, AP!GENESIS, A!NoCall, AP!NoCall
  <1>4. (A!Crash => AP!Crash) /\ (A!PowerLoss => AP!PowerLoss)
    BY <1>3 DEF A!Crash, AP!Crash, A!PowerLoss, AP!PowerLoss, A!Junk, AP!Junk
  <1>5. ASSUME NEW k \in Conns
        PROVE  /\ \A b \in Entries : A!Begin(k, b) => AP!Begin(k, b)
               /\ A!WriteOk(k) => AP!WriteOk(k)
               /\ A!WriteFails(k) => AP!WriteFails(k)
               /\ A!WriteTorn(k) => AP!WriteTorn(k)
               /\ A!Publish(k) => AP!Publish(k)
               /\ A!CrashMidWrite(k) => AP!CrashMidWrite(k)
    <2>1. A!TornLine(k) => AP!TornLine(k)
      BY SameEntry, SameWrite DEF A!TornLine, AP!TornLine, A!Junk, AP!Junk
    <2>2. \A b \in Entries : A!Begin(k, b) => AP!Begin(k, b)
      BY DEF A!Begin, AP!Begin, A!NoCall, AP!NoCall, A!InProgress, AP!InProgress
    <2>3. A!WriteOk(k) => AP!WriteOk(k)
      BY SameEntry, SameWrite DEF A!WriteOk, AP!WriteOk
    <2>4. A!WriteFails(k) => AP!WriteFails(k)
      BY DEF A!WriteFails, AP!WriteFails, A!NoCall, AP!NoCall
    <2>5. A!WriteTorn(k) => AP!WriteTorn(k)
      BY <2>1 DEF A!WriteTorn, AP!WriteTorn, A!NoCall, AP!NoCall
    <2>6. A!Publish(k) => AP!Publish(k)
      BY SameEntry DEF A!Publish, AP!Publish, A!NoCall, AP!NoCall
    <2>7. A!CrashMidWrite(k) => AP!CrashMidWrite(k)
      BY <1>3, <2>1 DEF A!CrashMidWrite, AP!CrashMidWrite
    <2> QED
      BY <2>2, <2>3, <2>4, <2>5, <2>6, <2>7
  <1> QED
    BY <1>2, <1>4, <1>5 DEF AP!Steps, logVars, AP!logVars

\* What the gateway does to the HSM are steps of HsmClient.
LEMMA HsmStepsAre ==
    ASSUME \/ UNCHANGED hsmVars
           \/ H!Connect \/ H!Exit \/ \E s \in Slots : H!Unplug(s) \/ H!Plug(s)
           \/ \E k \in Conns :
                \/ \E f \in H!Functions, label \in KeyLabels, ivOk \in BOOLEAN :
                        H!Call(k, f, label, ivOk)
                \/ H!OpenSession(k) \/ H!NoToken(k) \/ H!Login(k) \/ H!LoginRefused(k)
                \/ H!Step(k) \/ H!Fails(k) \/ H!Drop(k) \/ H!Take(k) \/ H!DeviceFails(k)
    PROVE  [HP!Next]_HP!hsmVars
  <1>1. /\ H!Connect => HP!Connect
        /\ H!Exit => HP!Exit
        /\ \A s \in Slots : (H!Unplug(s) => HP!Unplug(s)) /\ (H!Plug(s) => HP!Plug(s))
    BY DEF H!Connect, HP!Connect, H!Exit, HP!Exit, H!Unplug, HP!Unplug, H!Plug, HP!Plug,
           H!CloseAll, HP!CloseAll, H!NoSlot, HP!NoSlot, H!Idle, HP!Idle
  <1>2. ASSUME NEW k \in Conns
        PROVE  /\ \A f \in H!Functions, label \in KeyLabels, ivOk \in BOOLEAN :
                    H!Call(k, f, label, ivOk) => HP!Call(k, f, label, ivOk)
               /\ H!OpenSession(k) \/ H!NoToken(k) \/ H!Login(k) \/ H!LoginRefused(k)
                    \/ H!Step(k) \/ H!Fails(k) \/ H!Drop(k) \/ H!Take(k)
                    => HP!Proceed(k)
               /\ H!DeviceFails(k) => HP!DeviceFails(k)
    <2>1. \A f \in H!Functions, label \in KeyLabels, ivOk \in BOOLEAN :
                    H!Call(k, f, label, ivOk) => HP!Call(k, f, label, ivOk)
      BY DEF H!Call, HP!Call, H!NoSlot, HP!NoSlot, H!Idle, HP!Idle, H!IvFunctions,
             HP!IvFunctions, H!Returned, HP!Returned
    <2>2. /\ H!OpenSession(k) => HP!OpenSession(k)
          /\ H!NoToken(k) => HP!NoToken(k)
      BY DEF H!OpenSession, HP!OpenSession, H!NoToken, HP!NoToken, H!Returned, HP!Returned
    <2>3. H!Login(k) => HP!Login(k)
      BY DEF H!Login, HP!Login, H!Program, HP!Program
    <2>4. /\ H!LoginRefused(k) => HP!LoginRefused(k)
          /\ H!DeviceFails(k) => HP!DeviceFails(k)
      BY DEF H!LoginRefused, HP!LoginRefused, H!DeviceFails, HP!DeviceFails, H!Ending,
             HP!Ending, H!Returned, HP!Returned
    <2>5. H!FoundOne(k) <=> HP!FoundOne(k)
      BY DEF H!FoundOne, HP!FoundOne, H!ClassOf, HP!ClassOf
    <2>6. /\ H!Step(k) => HP!Step(k)
          /\ H!Fails(k) => HP!Fails(k)
      BY <2>5 DEF H!Step, HP!Step, H!Fails, HP!Fails, H!Ending, HP!Ending
    <2>7. /\ H!Drop(k) => HP!Drop(k)
          /\ H!Take(k) => HP!Take(k)
      BY DEF H!Drop, HP!Drop, H!Take, HP!Take, H!Returned, HP!Returned, H!Idle, HP!Idle
    <2> QED
      BY <2>1, <2>2, <2>3, <2>4, <2>6, <2>7 DEF HP!Proceed
  <1>3. H!Functions = HP!Functions
    BY DEF H!Functions, HP!Functions
  <1> QED
    BY <1>1, <1>2, <1>3 DEF HP!Next, hsmVars, HP!hsmVars
-----------------------------------------------------------------------------
(***************************************************************************)
(* The inductive invariant: what a task knows of its request, and what the *)
(* file shows of it.                                                       *)
(***************************************************************************)
\* The request passed steps 1 and 2 of process_line.
Fit(k, req) == req \in Requests /\ req.parses /\ Cleared(k, req)

\* What is left of the calls of execute: all of them, or the last of two, and
\* then a ciphertext that is to be opened had a valid seal.
PlanFits(req, plan) ==
    \/ plan = Plan(req)
    \/ /\ Len(Plan(req)) = 2
       /\ plan = <<Plan(req)[2]>>
       /\ req.op \in Opens => req.sealed

\* In append: the entry being written is the one of the request.
LogFits(k, c) ==
    /\ calls[k].body.conn = k
    /\ c.why \in {"expiring", "too_long"} => c.resp = "none" /\ calls[k].body.n = 0
    /\ c.why = "denied" => /\ c.req \in Requests /\ c.resp = "denied"
                           /\ calls[k].body = Body(k, served[k], "denied")
    /\ c.why = "intent" => /\ Fit(k, c.req) /\ c.resp = "none"
                           /\ calls[k].body = Body(k, served[k], "intent")
    /\ c.why = "closing" => /\ c.req \in Requests /\ c.resp # "none"
                            /\ calls[k].body = Body(k, served[k], Outcome(c.resp))

\* In execute: the HSM call in progress is the next of the plan, and a good
\* result of check_integrity means that the seal is valid.
RunFits(k, c) ==
    /\ Fit(k, c.req) /\ c.req.valid /\ PlanFits(c.req, c.plan)
    /\ work[k] # H!Idle =>
        /\ work[k].f = Head(c.plan).f
        /\ /\ c.req.op \in Opens /\ Len(c.plan) = 2
           /\ work[k].at \in {"drop", "returned"} /\ work[k].result = "ok"
           => c.req.sealed

TaskFits(k) ==
    /\ conn[k].at = "log" => LogFits(k, conn[k])
    /\ conn[k].at = "run" => RunFits(k, conn[k])
    /\ conn[k].at = "answer" /\ conn[k].why # "closing" => conn[k].resp # "ok"
    /\ \/ conn[k].at \in {"run", "executed", "answer"}
       \/ conn[k].at = "log" /\ conn[k].why \in {"denied", "intent", "closing"}
       => served[k] > 0

\* The lines about the current request of k.
About(k) == {i \in 1..Len(file) : file[i].body.conn = k /\ file[i].body.n = served[k]}

ShowsNone(k) == About(k) = {}

ShowsOne(k, outcome) ==
    \E i \in 1..Len(file) :
        About(k) = {i} /\ file[i].body = Body(k, served[k], outcome)

ShowsTwo(k, outcome) ==
    \E i, j \in 1..Len(file) :
        /\ i < j
        /\ About(k) = {i, j}
        /\ file[i].body = Body(k, served[k], "intent")
        /\ file[j].body = Body(k, served[k], outcome)

\* While no line was cut short: all lines parse and are about requests that
\* were read.
FileFits ==
    /\ newline
    /\ \A i \in 1..Len(file) :
        file[i].parses /\ file[i].body.n <= served[file[i].body.conn]

\* And the file shows of each request as much as its task has written.
Traced(k) ==
    LET c == conn[k]
    IN  /\ c.at = "log" /\ c.why \in {"denied", "intent"} =>
            /\ calls[k].at = "read" => ShowsNone(k)
            /\ calls[k].at = "wrote" => ShowsOne(k, c.why)
        /\ c.at \in {"run", "executed"} => ShowsOne(k, "intent")
        /\ c.at = "log" /\ c.why = "closing" =>
            /\ calls[k].at = "read" => ShowsOne(k, "intent")
            /\ calls[k].at = "wrote" => ShowsTwo(k, Outcome(c.resp))
        /\ c.at = "answer" =>
            /\ c.why \in {"malformed", "intent"} => ShowsNone(k)
            /\ c.why = "denied" => ShowsNone(k) \/ ShowsOne(k, "denied")
            /\ c.why = "closing" => IF c.logged THEN ShowsTwo(k, Outcome(c.resp))
                                                ELSE ShowsOne(k, "intent")

TasksFit == \A k \in Conns : TaskFits(k)

LogFitsTasks == ~torn => FileFits /\ \A k \in Conns : Traced(k)

\* A process that runs has its HSM slot.
Connected == status = "up" => slot # H!NoSlot

IInv == AP!IInv /\ HP!IInv /\ TypeOK /\ Connected /\ TasksFit /\ LogFitsTasks

-----------------------------------------------------------------------------
(***************************************************************************)
(* Shapes of a task and of its calls.                                      *)
(***************************************************************************)
InLog == [at : {"log"}, why : {"expiring", "too_long", "denied", "intent", "closing"},
          req : Requests \cup {<< >>}, resp : {"none", "ok", "denied", "error"}]

InRun == [at : {"run"}, req : Requests, plan : Seq([f : H!Functions, label : KeyLabels])]

InExecuted == [at : {"executed"}, req : Requests, resp : {"ok", "denied", "error"}]

InAnswer == [at : {"answer"}, req : Requests, resp : {"ok", "denied", "error"},
             why : {"malformed", "denied", "intent", "closing"}, logged : BOOLEAN]

Task == {Closed, Ready} \cup InLog \cup InRun \cup InExecuted \cup InAnswer

Placed(k) ==
    /\ conn[k].at = "log" <=> calls[k] # A!NoCall
    /\ work[k] # H!Idle => conn[k].at = "run"
    /\ conn[k] # Closed => status = "up" /\ slot # H!NoSlot

LEMMA TypesAre ==
    TypeOK <=> /\ conn \in [Conns -> Task]
               /\ served \in [Conns -> 0..MaxRequests]
               /\ \A k \in Conns : Placed(k)
  BY DEF TypeOK, Task, InLog, InRun, InExecuted, InAnswer, Placed

LEMMA TypesNext ==
    ASSUME conn' \in [Conns -> Task], served' \in [Conns -> 0..MaxRequests],
           \A k \in Conns : Placed(k)'
    PROVE  TypeOK'
  BY DEF TypeOK, Task, InLog, InRun, InExecuted, InAnswer, Placed

\* What a task holds is told by where it is.
LEMMA TaskShape ==
    ASSUME NEW t \in Task
    PROVE  /\ t.at = "closed" => t = Closed
           /\ t.at = "ready" => t = Ready
           /\ t.at = "log" => t \in InLog
           /\ t.at = "run" => t \in InRun
           /\ t.at = "executed" => t \in InExecuted
           /\ t.at = "answer" => t \in InAnswer
           /\ t.at \in {"closed", "ready", "log", "run", "executed", "answer"}
  BY DEF Task, Closed, Ready, InLog, InRun, InExecuted, InAnswer

\* The types of the parts.
LEMMA PartTypes ==
    ASSUME AP!IInv, HP!IInv
    PROVE  A!TypeOK /\ H!TypeOK
  BY SameTypes DEF AP!IInv, HP!IInv

\* What append is doing for a task that is in it.
LEMMA CallShape ==
    ASSUME A!TypeOK, NEW k \in Conns, calls[k] # A!NoCall
    PROVE  /\ calls[k] \in [at : {"read", "wrote"}, prev : Seq(Entries), body : Entries]
           /\ A!EntryOf(k).parses
           /\ A!EntryOf(k).body = calls[k].body
           /\ A!EntryOf(k) \in A!Lines
           /\ status = "up"
  <1>1. calls[k] \in [at : {"read", "wrote"}, prev : Seq(Entries), body : Entries]
    BY DEF A!TypeOK, A!Hashes
  <1>2. calls[k].at # "idle"
    BY <1>1
  <1>3. k \in A!InProgress
    BY <1>2 DEF A!InProgress
  <1>4. AP!EntryOf(k) \in AP!Lines
    BY <1>2, SameTypes, AP!EntryOfType, GatewayConstants
  <1>5. A!EntryOf(k) \in A!Lines
    BY <1>4, SameEntry DEF A!Lines, AP!Lines, A!Junk, AP!Junk, A!Hashes, AP!Hashes
  <1> QED
    BY <1>1, <1>3, <1>5 DEF A!TypeOK, A!EntryOf, A!Entry

\* What HsmClient is doing for a task that is in it.
LEMMA WorkTypes ==
    ASSUME H!TypeOK, NEW k \in Conns
    PROVE  /\ work[k] \in HP!Work
           /\ work[k].at = "idle" <=> work[k] = H!Idle
           /\ work[k].at \in {"drop", "returned"} =>
                work[k] \in [at : {"drop", "returned"}, f : H!Functions,
                             alone : BOOLEAN, result : H!Results]
           /\ work[k] # H!Idle => work[k].f \in H!Functions
  <1>1. work[k] \in {H!Idle} \cup H!OpeningCalls \cup H!LoginCalls \cup H!RunningCalls
                        \cup H!EndedCalls
    BY DEF H!TypeOK
  <1>2. work[k] \in HP!Work
    BY SameTypes DEF HP!TypeOK, HP!Work
  <1>3. /\ work[k].at = "idle" <=> work[k] = H!Idle
        /\ work[k] # H!Idle => work[k].f \in H!Functions
    BY <1>1 DEF H!Idle, H!OpeningCalls, H!LoginCalls, H!RunningCalls, H!EndedCalls
  <1>4. work[k].at \in {"drop", "returned"} => work[k] \in H!EndedCalls
    BY <1>1 DEF H!Idle, H!OpeningCalls, H!LoginCalls, H!RunningCalls, H!EndedCalls
  <1> QED
    BY <1>2, <1>3, <1>4 DEF H!EndedCalls

-----------------------------------------------------------------------------
(***************************************************************************)
(* The calls of execute.                                                   *)
(***************************************************************************)
HsmCalls == [f : H!Functions, label : KeyLabels]

\* Sequences of one or two calls.
LEMMA ShortPlans ==
    ASSUME NEW x \in HsmCalls, NEW y \in HsmCalls
    PROVE  /\ <<x>> \in Seq(HsmCalls) /\ Len(<<x>>) = 1 /\ Head(<<x>>) = x
           /\ <<x, y>> \in Seq(HsmCalls) /\ Len(<<x, y>>) = 2 /\ Head(<<x, y>>) = x
           /\ <<x, y>>[2] = y /\ Tail(<<x, y>>) = <<y>>
  OBVIOUS

\* A request that seals or checks uses two keys, its own and the integrity
\* key; the one that opens a ciphertext checks first.
LEMMA PlanShape ==
    ASSUME NEW req, req.op \in Operation, req.label \in KeyLabels
    PROVE  \E own, other \in HsmCalls :
             /\ own.label = req.label
             /\ other.label = integrity_label
             /\ other.f \in {"sign_ecdsa_sha256", "verify_ecdsa_sha256"}
             /\ \/ req.op \in {"sign", "verify"} /\ Plan(req) = <<own>>
                     /\ own.f \in {"sign_ecdsa_sha256", "verify_ecdsa_sha256"}
                \/ req.op \in {"encrypt", "derive_and_encrypt"} /\ Plan(req) = <<own, other>>
                     /\ own.f \in {"encrypt_aes_cbc_pad", "derive_and_encrypt"}
                \/ req.op \in Opens /\ Plan(req) = <<other, own>>
  <1> DEFINE call(f, label) == [f |-> f, label |-> label]
             seal == call("sign_ecdsa_sha256", integrity_label)
             check == call("verify_ecdsa_sha256", integrity_label)
  <1>1. \A f \in H!Functions : call(f, req.label) \in HsmCalls
    BY DEF HsmCalls
  <1>2. seal \in HsmCalls /\ check \in HsmCalls
    BY GatewayConstants DEF HsmCalls, H!Functions
  <1>3. CASE req.op = "sign"
    <2>1. Plan(req) = <<call("sign_ecdsa_sha256", req.label)>>
      BY <1>3, Zenon DEF Plan
    <2> QED
      BY <1>1, <1>2, <1>3, <2>1 DEF H!Functions
  <1>4. CASE req.op = "verify"
    <2>1. Plan(req) = <<call("verify_ecdsa_sha256", req.label)>>
      BY <1>4, Zenon DEF Plan
    <2> QED
      BY <1>1, <1>2, <1>4, <2>1 DEF H!Functions
  <1>5. CASE req.op = "encrypt"
    <2>1. Plan(req) = <<call("encrypt_aes_cbc_pad", req.label), seal>>
      BY <1>5, Zenon DEF Plan
    <2> QED
      BY <1>1, <1>2, <1>5, <2>1 DEF H!Functions
  <1>6. CASE req.op = "decrypt"
    <2>1. Plan(req) = <<check, call("decrypt_aes_cbc_pad", req.label)>>
      BY <1>6, Zenon DEF Plan
    <2> QED
      BY <1>1, <1>2, <1>6, <2>1 DEF H!Functions, Opens
  <1>7. CASE req.op = "derive_and_encrypt"
    <2>1. Plan(req) = <<call("derive_and_encrypt", req.label), seal>>
      BY <1>7, Zenon DEF Plan
    <2> QED
      BY <1>1, <1>2, <1>7, <2>1 DEF H!Functions
  <1>8. CASE req.op = "derive_and_decrypt"
    <2>1. Plan(req) = <<check, call("derive_and_decrypt", req.label)>>
      BY <1>8, Zenon DEF Plan
    <2> QED
      BY <1>1, <1>2, <1>8, <2>1 DEF H!Functions, Opens
  <1> QED
    BY <1>3, <1>4, <1>5, <1>6, <1>7, <1>8 DEF Operation

\* What a task in execute still has to do: one or two calls of the HSM.
LEMMA PlanLeft ==
    ASSUME NEW req \in Requests, req.parses, NEW plan, PlanFits(req, plan)
    PROVE  /\ plan \in Seq(HsmCalls) /\ Len(plan) \in {1, 2} /\ Head(plan) \in HsmCalls
           /\ Len(plan) = 2 =>
                /\ plan = Plan(req) /\ Len(Plan(req)) = 2 /\ Tail(plan) = <<Plan(req)[2]>>
                /\ req.op \in Opens => Head(plan).f \in {"sign_ecdsa_sha256", "verify_ecdsa_sha256"}
           /\ Head(plan).f \in {"decrypt_aes_cbc_pad", "derive_and_decrypt"} =>
                Len(plan) = 1 /\ req.sealed
           /\ req.label # integrity_label /\ Head(plan).label = integrity_label =>
                /\ req.op \notin {"sign", "verify"}
                /\ Head(plan).f \in {"sign_ecdsa_sha256", "verify_ecdsa_sha256"}
  <1>1. req.op \in Operation /\ req.label \in KeyLabels
    BY GatewayConstants
  <1>2. PICK own, other \in HsmCalls :
             /\ own.label = req.label
             /\ other.label = integrity_label
             /\ other.f \in {"sign_ecdsa_sha256", "verify_ecdsa_sha256"}
             /\ \/ req.op \in {"sign", "verify"} /\ Plan(req) = <<own>>
                     /\ own.f \in {"sign_ecdsa_sha256", "verify_ecdsa_sha256"}
                \/ req.op \in {"encrypt", "derive_and_encrypt"} /\ Plan(req) = <<own, other>>
                     /\ own.f \in {"encrypt_aes_cbc_pad", "derive_and_encrypt"}
                \/ req.op \in Opens /\ Plan(req) = <<other, own>>
    BY <1>1, PlanShape
  <1>3. \/ plan = Plan(req)
        \/ Len(Plan(req)) = 2 /\ plan = <<Plan(req)[2]>> /\ (req.op \in Opens => req.sealed)
    BY DEF PlanFits
  <1>4. CASE req.op \in {"sign", "verify"}
    <2>1. plan = <<own>> /\ Plan(req) = <<own>>
      BY <1>2, <1>3, <1>4, ShortPlans DEF Opens
    <2> QED
      BY <1>2, <1>4, <2>1, ShortPlans
  <1>5. CASE req.op \in {"encrypt", "derive_and_encrypt"}
    <2>1. Plan(req) = <<own, other>> /\ plan \in {<<own, other>>, <<other>>}
           /\ own.f \in {"encrypt_aes_cbc_pad", "derive_and_encrypt"}
      BY <1>2, <1>3, <1>5, ShortPlans DEF Opens
    <2>2. CASE plan = <<own, other>>
      BY <1>2, <1>5, <2>1, <2>2, ShortPlans DEF Opens
    <2>3. CASE plan = <<other>>
      BY <1>2, <1>5, <2>1, <2>3, ShortPlans DEF Opens
    <2> QED
      BY <2>1, <2>2, <2>3
  <1>6. CASE req.op \in Opens
    <2>1. Plan(req) = <<other, own>>
      BY <1>2, <1>6 DEF Opens
    <2>2. CASE plan = <<other, own>>
      BY <1>2, <1>6, <2>1, <2>2, ShortPlans DEF Opens
    <2>3. CASE plan = <<own>> /\ req.sealed
      BY <1>2, <1>6, <2>1, <2>3, ShortPlans DEF Opens
    <2> QED
      BY <1>3, <1>6, <2>1, <2>2, <2>3, ShortPlans
  <1> QED
    BY <1>1, <1>4, <1>5, <1>6 DEF Operation, Opens

-----------------------------------------------------------------------------
(***************************************************************************)
(* Every step of the gateway is a step of the audit log and of HsmClient,  *)
(* or leaves them alone.                                                   *)
(***************************************************************************)
\* What IInv says about one task.
LEMMA TaskOf ==
    ASSUME IInv, NEW k \in Conns
    PROVE  /\ conn[k] \in Task /\ served[k] \in 0..MaxRequests
           /\ Placed(k) /\ TaskFits(k)
           /\ conn \in [Conns -> Task] /\ served \in [Conns -> 0..MaxRequests]
           /\ A!TypeOK /\ H!TypeOK
  BY TypesAre, PartTypes DEF IInv, TasksFit

LEMMA TaskInRun ==
    ASSUME IInv, NEW k \in Conns, conn[k].at = "run"
    PROVE  /\ conn[k] \in InRun /\ RunFits(k, conn[k])
           /\ conn[k].req \in Requests /\ conn[k].req.parses
           /\ conn[k].req.ivOk \in BOOLEAN
           /\ PlanFits(conn[k].req, conn[k].plan)
           /\ Head(conn[k].plan) \in HsmCalls
           /\ calls[k] = A!NoCall
  <1>1. conn[k] \in InRun /\ RunFits(k, conn[k]) /\ calls[k] = A!NoCall
    BY TaskOf, TaskShape DEF TaskFits, Placed
  <1>2. Fit(k, conn[k].req) /\ PlanFits(conn[k].req, conn[k].plan)
    BY <1>1 DEF RunFits
  <1>3. conn[k].req \in Requests /\ conn[k].req.parses
    BY <1>2 DEF Fit
  <1>4. conn[k].req.ivOk \in BOOLEAN
    BY <1>3, GatewayConstants
  <1> QED
    BY <1>1, <1>2, <1>3, <1>4, PlanLeft

\* A line is counted.
LEMMA Received ==
    ASSUME IInv, NEW k \in Conns, Receive(k)
    PROVE  /\ served'[k] = served[k] + 1 /\ served'[k] \in 0..MaxRequests /\ served'[k] > 0
           /\ served' \in [Conns -> 0..MaxRequests]
           /\ \A m \in Conns : m # k => served'[m] = served[m]
  <1>1. MaxRequests \in Nat
    BY GatewayConstants
  <1>2. served \in [Conns -> 0..MaxRequests]
    BY TaskOf
  <1>3. served[k] < MaxRequests /\ served' = [served EXCEPT ![k] = served[k] + 1]
    BY DEF Receive
  <1>4. served[k] + 1 \in 0..MaxRequests /\ served[k] + 1 > 0
    BY <1>1, <1>2, <1>3
  <1> QED
    BY <1>2, <1>3, <1>4

LEMMA LogMoves ==
    ASSUME IInv, [Next]_vars
    PROVE  [AP!Steps]_AP!logVars
  <1>1. CASE UNCHANGED logVars
    BY <1>1, LogSteps
  <1>2. CASE Start
    BY <1>2, LogSteps DEF Start
  <1>3. CASE Exit
    BY <1>3, LogSteps DEF Exit
  <1>4. ASSUME NEW k \in Conns, NEW n \in 0..MaxRequests,
               NEW o \in {"intent", "authorized", "denied", "error", "cert_expiring_soon"},
               A!Begin(k, Body(k, n, o))
        PROVE  [AP!Steps]_AP!logVars
    <2>1. Body(k, n, o) \in Entries
      BY DEF Body, Entries
    <2> QED
      BY <1>4, <2>1, LogSteps
  <1>5. ASSUME NEW k \in Conns, NEW cert \in Certs, AcceptAudited(k, cert)
        PROVE  [AP!Steps]_AP!logVars
    <2>0. MaxRequests \in Nat
      BY GatewayConstants
    <2>1. 0 \in 0..MaxRequests
      BY <2>0
    <2>2. CASE A!Begin(k, Body(k, 0, "cert_expiring_soon"))
      BY <1>4, <2>1, <2>2
    <2>3. CASE A!Begin(k, Body(k, 0, "denied"))
      BY <1>4, <2>1, <2>3
    <2> QED
      BY <1>5, <2>2, <2>3 DEF AcceptAudited
  <1>6. ASSUME NEW k \in Conns, NEW line \in Requests,
               ReceiveDenied(k, line) \/ ReceiveCleared(k, line)
        PROVE  [AP!Steps]_AP!logVars
    <2>1. served'[k] \in 0..MaxRequests
      BY <1>6, Received DEF ReceiveDenied, ReceiveCleared
    <2> QED
      BY <1>4, <1>6, <2>1 DEF ReceiveDenied, ReceiveCleared
  <1>7. ASSUME NEW k \in Conns, AppendWrites(k) \/ AppendOk(k) \/ AppendFails(k)
        PROVE  [AP!Steps]_AP!logVars
    BY <1>7, LogSteps DEF AppendWrites, AppendOk, AppendFails
  <1>8. ASSUME NEW k \in Conns, CloseRequest(k) PROVE [AP!Steps]_AP!logVars
    <2>1. conn[k] \in InExecuted /\ served[k] \in 0..MaxRequests
      BY <1>8, TaskOf, TaskShape DEF CloseRequest
    <2>2. Outcome(conn[k].resp) \in {"authorized", "denied", "error"}
      BY <2>1 DEF InExecuted, Outcome
    <2> QED
      BY <1>4, <1>8, <2>1, <2>2 DEF CloseRequest
  <1>9. CASE UNCHANGED vars
    BY <1>1, <1>9 DEF vars
  <1>10. CASE MoveToken
    BY <1>1, <1>10 DEF MoveToken
  <1>11. ASSUME NEW k \in Conns,
                \/ Accept(k) \/ Disconnect(k) \/ Answer(k)
                \/ HsmCall(k) \/ HsmSteps(k) \/ HsmReturns(k) \/ HsmFails(k)
                \/ \E line \in Requests : ReceiveMalformed(k, line)
         PROVE  [AP!Steps]_AP!logVars
    BY <1>1, <1>11 DEF Accept, Disconnect, Answer, HsmCall, HsmSteps, HsmReturns, HsmFails,
                       ReceiveMalformed
  <1> QED
    BY <1>2, <1>3, <1>5, <1>6, <1>7, <1>8, <1>9, <1>10, <1>11 DEF Next, Proceed

LEMMA HsmMoves ==
    ASSUME IInv, [Next]_vars
    PROVE  [HP!Next]_HP!hsmVars
  <1>1. CASE UNCHANGED hsmVars
    BY <1>1, HsmStepsAre
  <1>2. CASE Start \/ Exit \/ MoveToken
    BY <1>1, <1>2, HsmStepsAre DEF Start, Exit, MoveToken
  <1>3. ASSUME NEW k \in Conns, HsmCall(k) PROVE [HP!Next]_HP!hsmVars
    <2>1. conn[k].req.ivOk \in BOOLEAN /\ Head(conn[k].plan) \in HsmCalls
      BY <1>3, TaskInRun DEF HsmCall
    <2>2. /\ Head(conn[k].plan).f \in H!Functions
          /\ Head(conn[k].plan).label \in KeyLabels
      BY <2>1 DEF HsmCalls
    <2> QED
      BY <1>3, <2>1, <2>2, HsmStepsAre DEF HsmCall
  <1>4. ASSUME NEW k \in Conns, HsmSteps(k) \/ HsmReturns(k) \/ HsmFails(k)
        PROVE  [HP!Next]_HP!hsmVars
    BY <1>4, HsmStepsAre DEF HsmSteps, HsmReturns, HsmFails
  <1>5. ASSUME NEW k \in Conns,
                \/ Accept(k) \/ Disconnect(k) \/ Answer(k)
                \/ \E cert \in Certs : AcceptAudited(k, cert)
                \/ AppendWrites(k) \/ AppendOk(k) \/ AppendFails(k) \/ CloseRequest(k)
                \/ \E line \in Requests :
                    ReceiveMalformed(k, line) \/ ReceiveDenied(k, line) \/ ReceiveCleared(k, line)
        PROVE  [HP!Next]_HP!hsmVars
    BY <1>1, <1>5 DEF Accept, Disconnect, Answer, AcceptAudited, AppendWrites, AppendOk,
                      AppendFails, CloseRequest, ReceiveMalformed, ReceiveDenied, ReceiveCleared
  <1>6. CASE UNCHANGED vars
    BY <1>1, <1>6 DEF vars
  <1> QED
    BY <1>2, <1>3, <1>4, <1>5, <1>6 DEF Next, Proceed

\* So their invariants are kept.
LEMMA PartsStep ==
    ASSUME IInv, [Next]_vars
    PROVE  AP!IInv' /\ HP!IInv' /\ A!TypeOK' /\ H!TypeOK'
  <1>1. AP!IInv'
    BY LogMoves, AP!NextInductive, GatewayConstants DEF IInv
  <1>2. HP!NoSlot \notin Slots /\ Objects \in [KeyLabels -> [HP!Classes -> Nat]]
    BY GatewayConstants DEF HP!NoSlot, HP!Classes
  <1>3. HP!IInv'
    BY <1>2, HsmMoves, HP!NextInductive DEF IInv
  <1> QED
    BY <1>1, <1>3, PartTypes, PTL

-----------------------------------------------------------------------------
(***************************************************************************)
(* TypeOK and TasksFit: steps of one task leave the others where they are. *)
(***************************************************************************)
\* The HSM call of m is where it was; only the alone mark may have changed.
SameCall(m) ==
    /\ work'[m].at = work[m].at
    /\ work[m].at # "idle" => work'[m].f = work[m].f
    /\ work[m].at \in {"drop", "returned"} => work'[m].result = work[m].result

Untouched(m) ==
    /\ conn'[m] = conn[m] /\ served'[m] = served[m] /\ calls'[m] = calls[m]
    /\ SameCall(m)

LEMMA UntouchedFits ==
    ASSUME IInv, H!TypeOK', NEW m \in Conns, Untouched(m), UNCHANGED <<status, slot>>
    PROVE  Placed(m)' /\ TaskFits(m)'
  <1>1. Placed(m) /\ TaskFits(m) /\ H!TypeOK
    BY TaskOf
  <1>2. (work[m].at = "idle" <=> work[m] = H!Idle) /\ (work'[m].at = "idle" <=> work'[m] = H!Idle)
    <2>1. work[m].at = "idle" <=> work[m] = H!Idle
      BY <1>1, WorkTypes
    <2>2. work'[m] \in ({H!Idle} \cup H!OpeningCalls \cup H!LoginCalls \cup H!RunningCalls
                          \cup H!EndedCalls)
      BY DEF H!TypeOK
    <2>3. work'[m].at = "idle" <=> work'[m] = H!Idle
      BY <2>2 DEF H!Idle, H!OpeningCalls, H!LoginCalls, H!RunningCalls, H!EndedCalls
    <2> QED
      BY <2>1, <2>3
  <1>3. Placed(m)'
    BY <1>1, <1>2 DEF Placed, Untouched, SameCall
  <1>4. conn[m].at = "log" => LogFits(m, conn[m])'
    BY <1>1 DEF TaskFits, LogFits, Untouched
  <1>5. conn[m].at = "run" => RunFits(m, conn[m])'
    BY <1>1, <1>2 DEF TaskFits, RunFits, Untouched, SameCall
  <1> QED
    BY <1>1, <1>3, <1>4, <1>5 DEF TaskFits, Untouched

\* A step of the task k.
LEMMA TaskStep ==
    ASSUME IInv, H!TypeOK', NEW k \in Conns, NEW t \in Task,
           conn' = [conn EXCEPT ![k] = t],
           served' \in [Conns -> 0..MaxRequests],
           UNCHANGED <<status, slot>>,
           \A m \in Conns : m # k =>
                served'[m] = served[m] /\ calls'[m] = calls[m] /\ SameCall(m),
           Placed(k)', TaskFits(k)'
    PROVE  TypeOK' /\ TasksFit'
  <1>1. conn \in [Conns -> Task]
    BY TaskOf
  <1>2. conn' \in [Conns -> Task] /\ \A m \in Conns : m # k => conn'[m] = conn[m]
    BY <1>1
  <1>3. \A m \in Conns : m # k => Untouched(m)
    BY <1>2 DEF Untouched
  <1>4. \A m \in Conns : Placed(m)' /\ TaskFits(m)'
    BY <1>3, UntouchedFits
  <1>5. TypeOK'
    BY <1>2, <1>4, TypesNext
  <1> QED
    BY <1>4, <1>5 DEF TasksFit

\* Nothing moves.
LEMMA SameCalls ==
    ASSUME work' = work, NEW m
    PROVE  SameCall(m)
  BY DEF SameCall

\* What the steps of append do to the calls.
LEMMA BeginCalls ==
    ASSUME A!TypeOK, NEW k \in Conns, NEW b, A!Begin(k, b)
    PROVE  /\ calls'[k] # A!NoCall /\ calls'[k].at = "read" /\ calls'[k].body = b
           /\ \A m \in Conns : m # k => calls'[m] = calls[m]
           /\ status = "up"
           /\ UNCHANGED <<status, file, newline, torn>>
  <1>1. calls' = [calls EXCEPT ![k] = [at |-> "read", prev |-> last, body |-> b]]
    BY DEF A!Begin
  <1>2. calls'[k] = [at |-> "read", prev |-> last, body |-> b]
    BY <1>1 DEF A!TypeOK
  <1>3. calls'[k] # A!NoCall
    BY <1>2 DEF A!NoCall
  <1> QED
    BY <1>1, <1>2, <1>3 DEF A!Begin, A!TypeOK

LEMMA WriteCalls ==
    ASSUME A!TypeOK, NEW k \in Conns, A!WriteOk(k)
    PROVE  /\ calls[k] # A!NoCall /\ calls[k].at = "read"
           /\ calls'[k] # A!NoCall /\ calls'[k].at = "wrote" /\ calls'[k].body = calls[k].body
           /\ \A m \in Conns : m # k => calls'[m] = calls[m]
           /\ file' = A!WithLine(A!EntryOf(k)) /\ newline'
           /\ UNCHANGED <<status, torn>>
  <1>1. calls[k] # A!NoCall /\ calls[k].at = "read"
    BY DEF A!WriteOk, A!NoCall
  <1>2. calls[k] \in [at : {"read", "wrote"}, prev : Seq(Entries), body : Entries]
    BY <1>1, CallShape
  <1>3. PICK c : c = calls[k]
    OBVIOUS
  <1>4. PICK new : new = [c EXCEPT !.at = "wrote"]
    OBVIOUS
  <1>5. new.at = "wrote" /\ new.body = c.body
    BY <1>2, <1>3, <1>4
  <1>6. calls' = [calls EXCEPT ![k] = new]
    BY <1>3, <1>4 DEF A!WriteOk
  <1>7. calls'[k] = new /\ \A m \in Conns : m # k => calls'[m] = calls[m]
    BY <1>6 DEF A!TypeOK
  <1>8. new # A!NoCall
    BY <1>5 DEF A!NoCall
  <1> QED
    BY <1>1, <1>3, <1>5, <1>7, <1>8 DEF A!WriteOk

LEMMA EndCalls ==
    ASSUME A!TypeOK, NEW k \in Conns, A!Publish(k) \/ A!WriteFails(k) \/ A!WriteTorn(k)
    PROVE  /\ calls[k] # A!NoCall
           /\ calls[k].at = IF A!Publish(k) THEN "wrote" ELSE "read"
           /\ calls'[k] = A!NoCall
           /\ \A m \in Conns : m # k => calls'[m] = calls[m]
           /\ UNCHANGED status
           /\ A!Publish(k) \/ A!WriteFails(k) => UNCHANGED <<file, newline, torn>>
           /\ A!WriteTorn(k) => torn'
  <1>1. calls[k] # A!NoCall /\ calls[k].at = IF A!Publish(k) THEN "wrote" ELSE "read"
    BY DEF A!Publish, A!WriteFails, A!WriteTorn, A!TornLine, A!NoCall
  <1>2. calls' = [calls EXCEPT ![k] = A!NoCall]
    BY DEF A!Publish, A!WriteFails, A!WriteTorn
  <1>3. calls'[k] = A!NoCall /\ \A m \in Conns : m # k => calls'[m] = calls[m]
    BY <1>2 DEF A!TypeOK
  <1> QED
    BY <1>1, <1>3 DEF A!Publish, A!WriteFails, A!WriteTorn, A!TornLine

\* A task that is in neither of its calls.
LEMMA IdleTask ==
    ASSUME IInv, NEW k \in Conns, conn[k].at \notin {"log", "run"}
    PROVE  calls[k] = A!NoCall /\ work[k] = H!Idle
  BY TaskOf DEF Placed

-----------------------------------------------------------------------------
LEMMA ReadyTasks ==
    ASSUME IInv, H!TypeOK', NEW k \in Conns, Accept(k) \/ Disconnect(k) \/ Answer(k)
    PROVE  TypeOK' /\ TasksFit'
  <1>1. conn[k].at \notin {"log", "run"} /\ UNCHANGED <<served, logVars, hsmVars>>
    BY DEF Accept, Disconnect, Answer, Closed, Ready
  <1>2. UNCHANGED <<status, slot, calls, work>> /\ calls[k] = A!NoCall /\ work[k] = H!Idle
    BY <1>1, IdleTask DEF logVars, hsmVars
  <1>3. status = "up" /\ slot # H!NoSlot
    BY TaskOf DEF Accept, Disconnect, Answer, Closed, Ready, Placed, IInv, Connected
  <1>4. PICK t \in {Ready, Closed} : conn' = [conn EXCEPT ![k] = t]
    BY DEF Accept, Disconnect, Answer
  <1>5. conn'[k] = t /\ t.at \in {"ready", "closed"} /\ t \in Task
    BY <1>4, TaskOf DEF Ready, Closed, Task
  <1>6. Placed(k)' /\ TaskFits(k)'
    BY <1>2, <1>3, <1>5 DEF Placed, TaskFits
  <1> QED
    BY <1>1, <1>2, <1>4, <1>5, <1>6, SameCalls, TaskStep, TaskOf

\* A task that enters append: the entry is the one its request calls for.
LEMMA LoggingTask ==
    ASSUME IInv, H!TypeOK', NEW k \in Conns, NEW t \in InLog, NEW b,
           A!Begin(k, b), conn' = [conn EXCEPT ![k] = t],
           served' \in [Conns -> 0..MaxRequests],
           \A m \in Conns : m # k => served'[m] = served[m],
           UNCHANGED hsmVars, work[k] = H!Idle,
           b.conn = k,
           t.why \in {"expiring", "too_long"} => t.resp = "none" /\ b.n = 0,
           t.why = "denied" => /\ t.req \in Requests /\ t.resp = "denied"
                               /\ b = Body(k, served'[k], "denied"),
           t.why = "intent" => /\ Fit(k, t.req) /\ t.resp = "none"
                               /\ b = Body(k, served'[k], "intent"),
           t.why = "closing" => /\ t.req \in Requests /\ t.resp # "none"
                                /\ b = Body(k, served'[k], Outcome(t.resp)),
           t.why \in {"denied", "intent", "closing"} => served'[k] > 0
    PROVE  TypeOK' /\ TasksFit'
  <1>1. conn'[k] = t /\ t.at = "log" /\ t \in Task
    BY TaskOf DEF Task, InLog
  <1>2. /\ calls'[k] # A!NoCall /\ calls'[k].body = b
        /\ \A m \in Conns : m # k => calls'[m] = calls[m]
        /\ status = "up" /\ status' = status
    BY BeginCalls, TaskOf
  <1>3. UNCHANGED <<slot, work>> /\ slot # H!NoSlot
    BY <1>2 DEF hsmVars, IInv, Connected
  <1>4. Placed(k)'
    BY <1>1, <1>2, <1>3 DEF Placed
  <1>5. LogFits(k, conn[k])'
    BY <1>1, <1>2 DEF LogFits, Fit, Cleared, IsAuthorized
  <1>6. TaskFits(k)'
    BY <1>1, <1>5 DEF TaskFits
  <1> QED
    BY <1>1, <1>2, <1>3, <1>4, <1>6, SameCalls, TaskStep

LEMMA AcceptAuditedTasks ==
    ASSUME IInv, H!TypeOK', NEW k \in Conns, NEW cert, AcceptAudited(k, cert)
    PROVE  TypeOK' /\ TasksFit'
  <1>1. conn[k].at = "closed" /\ work[k] = H!Idle
    BY IdleTask DEF AcceptAudited, Closed
  <1>2. PICK o : A!Begin(k, Body(k, 0, o)) /\ cert \in {"expiring", "too_long"}
    BY DEF AcceptAudited
  <1>3. PICK t : t = Logging(cert, << >>, "none")
    OBVIOUS
  <1>4. t \in InLog /\ t.why \in {"expiring", "too_long"} /\ t.resp = "none"
    BY <1>2, <1>3 DEF Logging, InLog
  <1>5. Body(k, 0, o).conn = k /\ Body(k, 0, o).n = 0
    BY DEF Body
  <1>6. conn' = [conn EXCEPT ![k] = t] /\ UNCHANGED <<served, hsmVars>>
    BY <1>3 DEF AcceptAudited
  <1> QED
    BY <1>1, <1>2, <1>4, <1>5, <1>6, LoggingTask, TaskOf

LEMMA ReceiveTasks ==
    ASSUME IInv, H!TypeOK', NEW k \in Conns, NEW line \in Requests,
           ReceiveDenied(k, line) \/ ReceiveCleared(k, line)
    PROVE  TypeOK' /\ TasksFit'
  <1>1. Receive(k) /\ line.parses /\ UNCHANGED hsmVars
    BY DEF ReceiveDenied, ReceiveCleared
  <1>2. work[k] = H!Idle
    BY <1>1, IdleTask DEF Receive, Ready
  <1>3. /\ served' \in [Conns -> 0..MaxRequests] /\ served'[k] > 0
        /\ \A m \in Conns : m # k => served'[m] = served[m]
    BY <1>1, Received
  <1>4. \A o : Body(k, served'[k], o).conn = k
    BY DEF Body
  <1>5. CASE ReceiveDenied(k, line)
    <2>1. PICK t : t = Logging("denied", line, "denied")
      OBVIOUS
    <2>2. t \in InLog /\ t.why = "denied" /\ t.resp = "denied" /\ t.req = line
      BY <2>1 DEF Logging, InLog
    <2>3. A!Begin(k, Body(k, served'[k], "denied")) /\ conn' = [conn EXCEPT ![k] = t]
      BY <1>5, <2>1 DEF ReceiveDenied
    <2>4. PICK b : b = Body(k, served'[k], "denied")
      OBVIOUS
    <2>5. A!Begin(k, b) /\ b.conn = k
      BY <1>4, <2>3, <2>4
    <2> QED
      BY <1>1, <1>2, <1>3, <2>2, <2>3, <2>4, <2>5, LoggingTask
  <1>6. CASE ReceiveCleared(k, line)
    <2>1. PICK t : t = Logging("intent", line, "none")
      OBVIOUS
    <2>2. t \in InLog /\ t.why = "intent" /\ t.resp = "none" /\ t.req = line
      BY <2>1 DEF Logging, InLog
    <2>3. A!Begin(k, Body(k, served'[k], "intent")) /\ conn' = [conn EXCEPT ![k] = t]
      BY <1>6, <2>1 DEF ReceiveCleared
    <2>4. PICK b : b = Body(k, served'[k], "intent")
      OBVIOUS
    <2>5. A!Begin(k, b) /\ b.conn = k
      BY <1>4, <2>3, <2>4
    <2>6. Fit(k, t.req)
      BY <1>6, <2>2 DEF ReceiveCleared, Fit
    <2> QED
      BY <1>1, <1>2, <1>3, <2>2, <2>3, <2>4, <2>5, <2>6, LoggingTask
  <1> QED
    BY <1>5, <1>6

LEMMA CloseRequestTasks ==
    ASSUME IInv, H!TypeOK', NEW k \in Conns, CloseRequest(k)
    PROVE  TypeOK' /\ TasksFit'
  <1>1. conn[k].at = "executed"
    BY DEF CloseRequest
  <1>2. conn[k] \in InExecuted /\ work[k] = H!Idle /\ served[k] > 0
    BY <1>1, TaskOf, TaskShape, IdleTask DEF TaskFits
  <1>3. PICK t : t = Logging("closing", conn[k].req, conn[k].resp)
    OBVIOUS
  <1>4. /\ t \in InLog /\ t.why = "closing" /\ t.resp = conn[k].resp /\ t.resp # "none"
        /\ t.req \in Requests
    BY <1>2, <1>3 DEF Logging, InLog, InExecuted
  <1>5. PICK b : b = Body(k, served[k], Outcome(conn[k].resp))
    OBVIOUS
  <1>6. /\ A!Begin(k, b) /\ b.conn = k /\ conn' = [conn EXCEPT ![k] = t]
        /\ UNCHANGED <<served, hsmVars>>
    BY <1>3, <1>5 DEF CloseRequest, Body
  <1> QED
    BY <1>2, <1>4, <1>5, <1>6, LoggingTask, TaskOf

LEMMA ReceiveMalformedTasks ==
    ASSUME IInv, H!TypeOK', NEW k \in Conns, NEW line \in Requests, ReceiveMalformed(k, line)
    PROVE  TypeOK' /\ TasksFit'
  <1>1. Receive(k) /\ conn[k] = Ready /\ UNCHANGED <<logVars, hsmVars>>
    BY DEF ReceiveMalformed, Receive
  <1>2. UNCHANGED <<status, slot, calls, work>> /\ calls[k] = A!NoCall /\ work[k] = H!Idle
    BY <1>1, IdleTask DEF Ready, logVars, hsmVars
  <1>3. status = "up" /\ slot # H!NoSlot
    BY <1>1, TaskOf DEF Placed, Closed, Ready
  <1>4. PICK t : t = Answering(line, "error", "malformed", FALSE)
    OBVIOUS
  <1>5. t \in InAnswer /\ t.at = "answer" /\ t.resp = "error" /\ t \in Task
    BY <1>4 DEF Answering, InAnswer, Task
  <1>6. conn' = [conn EXCEPT ![k] = t] /\ conn'[k] = t
    BY <1>4, TaskOf DEF ReceiveMalformed
  <1>7. Placed(k)' /\ TaskFits(k)'
    BY <1>1, <1>2, <1>3, <1>5, <1>6, Received DEF Placed, TaskFits
  <1> QED
    BY <1>1, <1>2, <1>5, <1>6, <1>7, Received, SameCalls, TaskStep

LEMMA AppendWritesTasks ==
    ASSUME IInv, H!TypeOK', NEW k \in Conns, AppendWrites(k)
    PROVE  TypeOK' /\ TasksFit'
  <1>1. A!WriteOk(k) /\ UNCHANGED <<conn, served, slot, work>>
    BY DEF AppendWrites, gatewayVars, hsmVars
  <1>2. /\ calls[k] # A!NoCall /\ calls'[k] # A!NoCall /\ calls'[k].body = calls[k].body
        /\ \A m \in Conns : m # k => calls'[m] = calls[m]
        /\ status' = status
    BY <1>1, WriteCalls, TaskOf
  <1>3. Placed(k) /\ TaskFits(k) /\ conn[k] \in Task /\ conn[k].at = "log"
    BY <1>2, TaskOf DEF Placed
  <1>4. Placed(k)'
    BY <1>1, <1>2, <1>3 DEF Placed
  <1>5. LogFits(k, conn[k])'
    BY <1>1, <1>2, <1>3 DEF TaskFits, LogFits
  <1>6. TaskFits(k)'
    BY <1>1, <1>3, <1>5 DEF TaskFits
  <1>7. conn' = [conn EXCEPT ![k] = conn[k]]
    BY <1>1, TaskOf
  <1> QED
    BY <1>1, <1>2, <1>3, <1>4, <1>6, <1>7, SameCalls, TaskStep, TaskOf

\* Where a task goes from append.
LEMMA AfterAppendIs ==
    ASSUME NEW k, NEW ok \in BOOLEAN
    PROVE  /\ conn[k].why = "expiring" => AfterAppend(k, ok) = Ready
           /\ conn[k].why = "too_long" => AfterAppend(k, ok) = Closed
           /\ conn[k].why = "intent" /\ ~ok =>
                AfterAppend(k, ok) = Answering(conn[k].req, "error", "intent", ok)
           /\ conn[k].why = "intent" /\ ok /\ conn[k].req.valid =>
                AfterAppend(k, ok) = Running(conn[k].req, Plan(conn[k].req))
           /\ conn[k].why = "intent" /\ ok /\ ~conn[k].req.valid =>
                AfterAppend(k, ok) = Executed(conn[k].req, "error")
           /\ conn[k].why \in {"denied", "closing"} =>
                AfterAppend(k, ok) = Answering(conn[k].req, conn[k].resp, conn[k].why, ok)
  <1>1. CASE conn[k].why = "expiring"
    BY <1>1, Zenon DEF AfterAppend
  <1>2. CASE conn[k].why = "too_long"
    BY <1>2, Zenon DEF AfterAppend
  <1>3. CASE conn[k].why = "intent" /\ ~ok
    <2>1. AfterAppend(k, ok) = Answering(conn[k].req, "error", conn[k].why, ok)
      BY <1>3, Zenon DEF AfterAppend
    <2> QED
      BY <1>3, <2>1
  <1>4. CASE conn[k].why = "intent" /\ ok /\ conn[k].req.valid
    BY <1>4, Zenon DEF AfterAppend
  <1>5. CASE conn[k].why = "intent" /\ ok /\ ~conn[k].req.valid
    BY <1>5, Zenon DEF AfterAppend
  <1>6. CASE conn[k].why = "denied"
    BY <1>6, Zenon DEF AfterAppend
  <1>7. CASE conn[k].why = "closing"
    BY <1>7, Zenon DEF AfterAppend
  <1> QED
    BY <1>1, <1>2, <1>3, <1>4, <1>5, <1>6, <1>7

\* A task in append.
LEMMA TaskInLog ==
    ASSUME IInv, NEW k \in Conns, calls[k] # A!NoCall
    PROVE  /\ conn[k].at = "log" /\ conn[k] \in InLog /\ LogFits(k, conn[k])
           /\ conn[k].why \in {"denied", "intent", "closing"} => served[k] > 0
           /\ work[k] = H!Idle /\ status = "up" /\ slot # H!NoSlot
           /\ conn[k].why \in {"expiring", "too_long", "denied", "intent", "closing"}
  <1>1. Placed(k) /\ TaskFits(k) /\ conn[k] \in Task
    BY TaskOf
  <1>2. conn[k].at = "log" /\ conn[k] \in InLog
    BY <1>1, TaskShape DEF Placed
  <1> QED
    BY <1>1, <1>2 DEF Placed, TaskFits, Closed, InLog

\* Where append may lead.
LEMMA AppendedTask ==
    ASSUME IInv, NEW k \in Conns, calls[k] # A!NoCall, NEW ok \in BOOLEAN, NEW t,
           t = AfterAppend(k, ok)
    PROVE  /\ t \in Task
           /\ t.at \in {"closed", "ready"} <=> conn[k].why \in {"expiring", "too_long"}
           /\ t.at \in {"closed", "ready", "run", "executed", "answer"}
           /\ t.at = "run" => /\ Fit(k, t.req) /\ t.req.valid /\ t.plan = Plan(t.req)
           /\ t.at \in {"run", "executed"} => ok /\ conn[k].why = "intent"
           /\ t.at = "answer" => /\ t.why = conn[k].why
                                 /\ t.why # "closing" => t.resp # "ok"
                                 /\ t.why = "intent" => ~ok
                                 /\ t.logged = ok
                                 /\ t.why = "closing" => t.resp = conn[k].resp
  <1> DEFINE c == conn[k]
  <1>1. c \in InLog /\ LogFits(k, c)
    BY TaskInLog
  <1>2. CASE c.why \in {"expiring", "too_long"}
    <2>1. t \in {Ready, Closed}
      BY <1>2, AfterAppendIs
    <2> QED
      BY <1>2, <2>1 DEF Ready, Closed, Task
  <1>3. CASE c.why = "intent" /\ ~ok
    <2>1. t = Answering(c.req, "error", "intent", ok) /\ c.req \in Requests
      BY <1>1, <1>3, AfterAppendIs DEF LogFits, Fit
    <2>3. t \in InAnswer
      BY <2>1 DEF Answering, InAnswer
    <2>4. t \in Task /\ t.at = "answer" /\ t.why = "intent" /\ t.resp = "error"
      BY <2>1, <2>3 DEF Answering, Task
    <2>5. t.logged = ok
      BY <2>1 DEF Answering
    <2> QED
      BY <1>3, <2>4, <2>5
  <1>4. CASE c.why = "intent" /\ ok /\ c.req.valid
    <2>1. t = Running(c.req, Plan(c.req)) /\ Fit(k, c.req)
      BY <1>1, <1>4, AfterAppendIs DEF LogFits
    <2>2. c.req \in Requests /\ c.req.parses /\ PlanFits(c.req, Plan(c.req))
      BY <2>1 DEF Fit, PlanFits
    <2>3. Plan(c.req) \in Seq(HsmCalls)
      BY <2>2, PlanLeft
    <2>4. t \in InRun
      BY <2>1, <2>2, <2>3 DEF Running, InRun, HsmCalls
    <2>5. t \in Task /\ t.at = "run" /\ t.req = c.req /\ t.plan = Plan(c.req)
      BY <2>1, <2>4 DEF Running, Task
    <2> QED
      BY <1>4, <2>1, <2>5
  <1>5. CASE c.why = "intent" /\ ok /\ ~c.req.valid
    <2>1. t = Executed(c.req, "error") /\ c.req \in Requests
      BY <1>1, <1>5, AfterAppendIs DEF LogFits, Fit
    <2>2. t \in InExecuted
      BY <2>1 DEF Executed, InExecuted
    <2>3. t \in Task /\ t.at = "executed"
      BY <2>1, <2>2 DEF Executed, Task
    <2> QED
      BY <1>5, <2>3
  <1>6. CASE c.why \in {"denied", "closing"}
    <2>1. t = Answering(c.req, c.resp, c.why, ok)
      BY <1>6, AfterAppendIs
    <2>2. c.req \in Requests /\ c.resp \in {"ok", "denied", "error"}
      BY <1>1, <1>6 DEF LogFits, InLog
    <2>3. t \in InAnswer
      BY <1>6, <2>1, <2>2 DEF Answering, InAnswer
    <2>4. c.why = "denied" => c.resp = "denied"
      BY <1>1 DEF LogFits
    <2> QED
      BY <1>6, <2>1, <2>3, <2>4 DEF Answering, Task
  <1> QED
    BY <1>1, <1>2, <1>3, <1>4, <1>5, <1>6 DEF InLog

LEMMA AppendReturnsTasks ==
    ASSUME IInv, H!TypeOK', NEW k \in Conns, AppendOk(k) \/ AppendFails(k)
    PROVE  TypeOK' /\ TasksFit'
  <1>1. /\ A!Publish(k) \/ A!WriteFails(k) \/ A!WriteTorn(k)
        /\ UNCHANGED <<served, slot, work>>
    BY DEF AppendOk, AppendFails, hsmVars
  <1>2. PICK ok \in BOOLEAN : conn' = [conn EXCEPT ![k] = AfterAppend(k, ok)]
    BY DEF AppendOk, AppendFails
  <1>3. PICK t : t = AfterAppend(k, ok)
    OBVIOUS
  <1>4. /\ calls[k] # A!NoCall /\ calls'[k] = A!NoCall
        /\ \A m \in Conns : m # k => calls'[m] = calls[m]
        /\ status' = status
    BY <1>1, EndCalls, TaskOf
  <1>5. conn' = [conn EXCEPT ![k] = t] /\ conn'[k] = t
    BY <1>2, <1>3, TaskOf
  <1>6. /\ work[k] = H!Idle /\ status = "up" /\ slot # H!NoSlot
        /\ conn[k].why \in {"denied", "intent", "closing"} => served[k] > 0
        /\ conn[k].why \in {"expiring", "too_long", "denied", "intent", "closing"}
    BY <1>4, TaskInLog
  <1>7. /\ t \in Task
        /\ t.at \in {"closed", "ready"} <=> conn[k].why \in {"expiring", "too_long"}
        /\ t.at \in {"closed", "ready", "run", "executed", "answer"}
        /\ t.at = "run" => Fit(k, t.req) /\ t.req.valid /\ t.plan = Plan(t.req)
        /\ t.at = "answer" => (t.why # "closing" => t.resp # "ok")
    BY <1>3, <1>4, AppendedTask
  <1>8. Placed(k)'
    BY <1>1, <1>4, <1>5, <1>6, <1>7 DEF Placed
  <1>9. t.at = "run" => RunFits(k, conn[k])'
    BY <1>1, <1>5, <1>6, <1>7 DEF RunFits, PlanFits, Fit, Cleared, IsAuthorized
  <1>10. TaskFits(k)'
    BY <1>1, <1>5, <1>6, <1>7, <1>9 DEF TaskFits
  <1> QED
    BY <1>1, <1>4, <1>5, <1>7, <1>8, <1>10, SameCalls, TaskStep, TaskOf

-----------------------------------------------------------------------------
(***************************************************************************)
(* The HSM calls of a task.                                                *)
(***************************************************************************)
\* Where a call of HsmClient is, with the function it was called for.
LEMMA WorkShapes ==
    ASSUME H!TypeOK, NEW k \in Conns
    PROVE  /\ work[k].at = "open" => work[k] \in H!OpeningCalls
           /\ work[k].at = "login" => work[k] \in H!LoginCalls
           /\ work[k].at = "run" => work[k] \in H!RunningCalls
           /\ work[k].at \in {"drop", "returned"} => work[k] \in H!EndedCalls
           /\ work \in [Conns -> {H!Idle} \cup H!OpeningCalls \cup H!LoginCalls
                                   \cup H!RunningCalls \cup H!EndedCalls]
  <1>1. work[k] \in {H!Idle} \cup H!OpeningCalls \cup H!LoginCalls \cup H!RunningCalls
                        \cup H!EndedCalls
    BY DEF H!TypeOK
  <1> QED
    BY <1>1 DEF H!TypeOK, H!Idle, H!OpeningCalls, H!LoginCalls, H!RunningCalls, H!EndedCalls

\* What becomes of the call of k.
CallGoesOn(k) ==
    /\ work[k] # H!Idle /\ work'[k].at # "idle"
    /\ work'[k].f = work[k].f
    /\ work'[k].at = "returned" /\ work'[k].result = "ok" =>
            work[k].at = "drop" /\ work[k].result = "ok"

\* A step that sets the call of k only.
LEMMA LocalCall ==
    ASSUME H!TypeOK, NEW k \in Conns, NEW w, work' = [work EXCEPT ![k] = w],
           work[k].at # "idle", w.at # "idle", w.f = work[k].f,
           w.at = "returned" /\ w.result = "ok" =>
                work[k].at = "drop" /\ work[k].result = "ok"
    PROVE  CallGoesOn(k) /\ \A m \in Conns : m # k => SameCall(m)
  <1>1. work'[k] = w /\ \A m \in Conns : m # k => work'[m] = work[m]
    BY WorkShapes
  <1>2. work[k] # H!Idle
    BY DEF H!Idle
  <1> QED
    BY <1>1, <1>2 DEF CallGoesOn, SameCall

\* A call that ends, and one that returns.
LEMMA CallEnds ==
    ASSUME H!TypeOK, NEW k \in Conns, NEW r,
           work[k].at # "idle", work' = [work EXCEPT ![k] = H!Ending(k, r)]
    PROVE  CallGoesOn(k) /\ \A m \in Conns : m # k => SameCall(m)
  <1>1. PICK w : w = H!Ending(k, r)
    OBVIOUS
  <1>2. w.at = "drop" /\ w.f = work[k].f
    BY <1>1 DEF H!Ending
  <1> QED
    BY <1>1, <1>2, LocalCall

LEMMA CallReturns ==
    ASSUME H!TypeOK, NEW k \in Conns, NEW a, NEW r,
           work[k].at # "idle", work' = [work EXCEPT ![k] = H!Returned(work[k].f, a, r)],
           r = "ok" => work[k].at = "drop" /\ work[k].result = "ok"
    PROVE  CallGoesOn(k) /\ \A m \in Conns : m # k => SameCall(m)
  <1>1. PICK w : w = H!Returned(work[k].f, a, r)
    OBVIOUS
  <1>2. w.at = "returned" /\ w.f = work[k].f /\ w.result = r
    BY <1>1 DEF H!Returned
  <1> QED
    BY <1>1, <1>2, LocalCall

LEMMA HsmWork ==
    ASSUME H!TypeOK, NEW k \in Conns,
           \/ H!OpenSession(k) \/ H!NoToken(k) \/ H!Login(k) \/ H!LoginRefused(k)
           \/ H!Step(k) \/ H!Fails(k) \/ H!Drop(k) \/ H!DeviceFails(k)
    PROVE  CallGoesOn(k) /\ (\A m \in Conns : m # k => SameCall(m)) /\ slot' = slot
  <1>1. CASE H!OpenSession(k)
    <2>1. work[k] \in H!OpeningCalls
      BY <1>1, WorkShapes DEF H!OpenSession
    <2>2. PICK alone : work'[k] = [at |-> "login", f |-> work[k].f, label |-> work[k].label,
                                   alone |-> alone]
      BY <1>1 DEF H!OpenSession
    <2>3. CallGoesOn(k)
      BY <2>1, <2>2 DEF CallGoesOn, H!OpeningCalls, H!Idle
    <2>4. ASSUME NEW m \in Conns, m # k PROVE SameCall(m)
      <3>1. CASE m \notin sessions
        BY <1>1, <2>4, <3>1 DEF H!OpenSession, SameCall
      <3>2. CASE m \in sessions
        <4>1. PICK w : w = work[m]
          OBVIOUS
        <4>2. w \in H!LoginCalls \/ w \in H!RunningCalls \/ w \in H!EndedCalls
          BY <3>2, <4>1, WorkShapes DEF H!TypeOK
        <4>3. PICK new : new = [w EXCEPT !.alone = FALSE]
          OBVIOUS
        <4>4. /\ new.at = w.at /\ new.f = w.f
              /\ w.at \in {"drop", "returned"} => new.result = w.result
          BY <4>2, <4>3 DEF H!LoginCalls, H!RunningCalls, H!EndedCalls
        <4>5. work'[m] = new
          BY <1>1, <2>4, <3>2, <4>1, <4>3 DEF H!OpenSession
        <4> QED
          BY <4>1, <4>4, <4>5 DEF SameCall
      <3> QED
        BY <3>1, <3>2
    <2> QED
      BY <1>1, <2>3, <2>4 DEF H!OpenSession
  <1>2. CASE H!NoToken(k)
    BY <1>2, CallReturns DEF H!NoToken
  <1>3. CASE H!Login(k)
    <2>1. PICK w : /\ w = [at |-> "run", f |-> work[k].f, label |-> work[k].label,
                           alone |-> work[k].alone, todo |-> H!Program(work[k].f)]
                   /\ work' = [work EXCEPT ![k] = w]
      BY <1>3 DEF H!Login
    <2>2. w.at = "run" /\ w.f = work[k].f
      BY <2>1
    <2> QED
      BY <1>3, <2>1, <2>2, LocalCall DEF H!Login
  <1>4. CASE H!LoginRefused(k)
    BY <1>4, CallEnds DEF H!LoginRefused
  <1>5. CASE H!Fails(k)
    BY <1>5, CallEnds DEF H!Fails
  <1>6. CASE H!DeviceFails(k)
    <2>1. CASE work[k].at = "open"
      BY <1>6, <2>1, CallReturns DEF H!DeviceFails
    <2>2. CASE work[k].at # "open"
      BY <1>6, <2>2, CallEnds DEF H!DeviceFails
    <2> QED
      BY <2>1, <2>2
  <1>7. CASE H!Step(k)
    <2>1. CASE Len(work[k].todo) > 1
      <3>1. PICK c : c = work[k]
        OBVIOUS
      <3>2. PICK w : w = [c EXCEPT !.todo = Tail(c.todo)]
        OBVIOUS
      <3>3. c \in H!RunningCalls
        BY <1>7, <3>1, WorkShapes DEF H!Step
      <3>4. w.at = "run" /\ w.f = work[k].f
        BY <3>1, <3>2, <3>3 DEF H!RunningCalls
      <3>5. work' = [work EXCEPT ![k] = w]
        BY <1>7, <2>1, <3>1, <3>2 DEF H!Step
      <3> QED
        BY <1>7, <3>4, <3>5, LocalCall DEF H!Step
    <2>2. CASE ~(Len(work[k].todo) > 1)
      BY <1>7, <2>2, CallEnds DEF H!Step
    <2> QED
      BY <2>1, <2>2
  <1>8. CASE H!Drop(k)
    BY <1>8, CallReturns DEF H!Drop
  <1> QED
    BY <1>1, <1>2, <1>3, <1>4, <1>5, <1>6, <1>7, <1>8

LEMMA HsmCallTasks ==
    ASSUME IInv, H!TypeOK', NEW k \in Conns, HsmCall(k)
    PROVE  TypeOK' /\ TasksFit'
  <1>1. conn[k].at = "run" /\ UNCHANGED <<conn, served, calls, status>>
    BY DEF HsmCall, gatewayVars, logVars
  <1>2. /\ conn[k] \in Task /\ Placed(k) /\ TaskFits(k) /\ RunFits(k, conn[k])
        /\ H!TypeOK
    BY <1>1, TaskOf, TaskInRun
  <1>3. PICK f, label, ivOk : f = Head(conn[k].plan).f /\ H!Call(k, f, label, ivOk)
    BY DEF HsmCall
  <1>4. PICK w : /\ w = IF f \in H!IvFunctions /\ ~ivOk
                        THEN H!Returned(f, TRUE, "error")
                        ELSE [at |-> "open", f |-> f, label |-> label]
                 /\ work' = [work EXCEPT ![k] = w]
    BY <1>3 DEF H!Call
  <1>5. w.f = f /\ (w.at = "open" \/ (w.at = "returned" /\ w.result = "error"))
    BY <1>4 DEF H!Returned
  <1>6. work'[k] = w /\ \A m \in Conns : m # k => SameCall(m)
    BY <1>2, <1>4, WorkShapes DEF SameCall
  <1>7. slot' = slot
    BY <1>3 DEF H!Call
  <1>8. Placed(k)'
    BY <1>1, <1>2, <1>7 DEF Placed
  <1>9. RunFits(k, conn[k])'
    BY <1>1, <1>2, <1>3, <1>5, <1>6 DEF RunFits, Fit, Cleared, IsAuthorized
  <1>10. TaskFits(k)'
    BY <1>1, <1>2, <1>9 DEF TaskFits
  <1>11. conn' = [conn EXCEPT ![k] = conn[k]]
    BY <1>1, TaskOf
  <1> QED
    BY <1>1, <1>2, <1>6, <1>7, <1>8, <1>10, <1>11, TaskStep, TaskOf

LEMMA HsmStepsTasks ==
    ASSUME IInv, H!TypeOK', NEW k \in Conns, HsmSteps(k) \/ HsmFails(k)
    PROVE  TypeOK' /\ TasksFit'
  <1>1. UNCHANGED <<conn, served, calls, status>>
    BY DEF HsmSteps, HsmFails, gatewayVars, logVars
  <1>2. CallGoesOn(k) /\ (\A m \in Conns : m # k => SameCall(m)) /\ slot' = slot
    BY HsmWork, TaskOf DEF HsmSteps, HsmFails
  <1>3. conn[k] \in Task /\ Placed(k) /\ TaskFits(k) /\ conn[k].at = "run" /\ RunFits(k, conn[k])
    BY <1>2, TaskOf, TaskInRun DEF CallGoesOn, Placed
  <1>4. Placed(k)'
    BY <1>1, <1>2, <1>3 DEF Placed
  <1>5. ASSUME conn[k].req.op \in Opens, Len(conn[k].plan) = 2,
               work'[k].at \in {"drop", "returned"}, work'[k].result = "ok"
        PROVE  conn[k].req.sealed
    <2>1. CASE work'[k].at = "returned"
      BY <1>2, <1>3, <1>5, <2>1 DEF CallGoesOn, RunFits
    <2>2. CASE work'[k].at = "drop"
      <3>1. CASE HsmSteps(k)
        BY <1>5, <2>2, <3>1 DEF HsmSteps, Checking
      <3>2. CASE H!DeviceFails(k)
        <4>1. work[k].at \in {"login", "run"} \/ work[k].at = "open"
          BY <3>2 DEF H!DeviceFails
        <4>2. CASE work[k].at = "open" /\ work' = [work EXCEPT ![k] = H!Returned(@.f, TRUE, "error")]
          <5>1. work'[k].at = "returned"
            BY <4>2, WorkShapes, TaskOf DEF H!Returned
          <5> QED
            BY <2>2, <5>1
        <4>3. CASE work' = [work EXCEPT ![k] = H!Ending(k, "error")]
          <5>1. work'[k].result = "error"
            BY <4>3, WorkShapes, TaskOf DEF H!Ending
          <5> QED
            BY <1>5, <5>1
        <4> QED
          BY <3>2, <4>2, <4>3 DEF H!DeviceFails
      <3> QED
        BY <3>1, <3>2 DEF HsmFails
    <2> QED
      BY <1>5, <2>1, <2>2
  <1>6. RunFits(k, conn[k])'
    BY <1>1, <1>2, <1>3, <1>5 DEF RunFits, Fit, Cleared, IsAuthorized, CallGoesOn
  <1>7. TaskFits(k)'
    BY <1>1, <1>3, <1>6 DEF TaskFits
  <1>8. conn' = [conn EXCEPT ![k] = conn[k]]
    BY <1>1, TaskOf
  <1> QED
    BY <1>1, <1>2, <1>3, <1>4, <1>7, <1>8, TaskStep, TaskOf

\* Where a task goes from an HSM call: to the next one, which a good check
\* must precede, or out of execute.
LEMMA AfterHsmIs ==
    ASSUME IInv, NEW k \in Conns, work[k].at = "returned", NEW t,
           t = AfterHsm(k, work[k].result)
    PROVE  \/ /\ t = Running(conn[k].req, Tail(conn[k].plan)) /\ Len(conn[k].plan) = 2
              /\ conn[k].req.op \in Opens => work[k].result = "ok"
           \/ \E resp \in {"ok", "denied", "error"} : t = Executed(conn[k].req, resp)
  <1> DEFINE c == conn[k]
             good == work[k].result = "ok" \/ (work[k].result = "mismatch" /\ ~Checking(k))
  <1>1. c.at = "run"
    BY TaskOf DEF Placed, H!Idle
  <1>2. Len(c.plan) \in {1, 2}
    BY <1>1, TaskInRun, PlanLeft
  <1>3. /\ Len(c.plan) = 2 => Len(c.plan) > 1 /\ ~(Len(c.plan) = 1)
        /\ Len(c.plan) # 2 => Len(c.plan) = 1 /\ ~(Len(c.plan) > 1)
    <2>1. PICK n \in {1, 2} : n = Len(c.plan)
      BY <1>2
    <2>2. CASE n = 1
      BY <2>1, <2>2
    <2>3. CASE n = 2
      BY <2>1, <2>3
    <2> QED
      BY <2>1, <2>2, <2>3
  <1>4. CASE good /\ Len(c.plan) = 2
    <2>1. t = Running(c.req, Tail(c.plan))
      BY <1>3, <1>4, Zenon DEF AfterHsm
    <2> QED
      BY <1>4, <2>1 DEF Checking
  <1>5. CASE good /\ Len(c.plan) # 2
    <2>1. Len(c.plan) = 1 /\ ~(Len(c.plan) > 1)
      BY <1>3, <1>5
    <2>2. t = Executed(c.req, "ok")
      BY <1>5, <2>1, Zenon DEF AfterHsm
    <2> QED
      BY <2>2
  <1>6. CASE ~good /\ Checking(k)
    <2>1. t = Executed(c.req, "denied")
      BY <1>6, Zenon DEF AfterHsm
    <2> QED
      BY <2>1
  <1>7. CASE ~good /\ ~Checking(k)
    <2>1. t = Executed(c.req, "error")
      BY <1>7, Zenon DEF AfterHsm
    <2> QED
      BY <2>1
  <1> QED
    BY <1>4, <1>5, <1>6, <1>7

LEMMA HsmReturnsTasks ==
    ASSUME IInv, H!TypeOK', NEW k \in Conns, HsmReturns(k)
    PROVE  TypeOK' /\ TasksFit'
  <1>1. /\ work[k].at = "returned" /\ work' = [work EXCEPT ![k] = H!Idle]
        /\ UNCHANGED <<served, calls, status, slot>>
    BY DEF HsmReturns, H!Take, logVars
  <1>2. work'[k] = H!Idle /\ \A m \in Conns : m # k => SameCall(m)
    BY <1>1, WorkShapes, TaskOf DEF SameCall
  <1>3. conn[k] \in Task /\ Placed(k) /\ TaskFits(k) /\ conn[k].at = "run" /\ work[k] # H!Idle
    BY <1>1, TaskOf DEF Placed, H!Idle
  <1>4. /\ RunFits(k, conn[k]) /\ calls[k] = A!NoCall /\ conn[k].req \in Requests
        /\ conn[k].req.parses /\ PlanFits(conn[k].req, conn[k].plan)
    BY <1>3, TaskInRun
  <1>5. PICK t : t = AfterHsm(k, work[k].result)
    OBVIOUS
  <1>6. conn' = [conn EXCEPT ![k] = t] /\ conn'[k] = t
    BY <1>5, TaskOf DEF HsmReturns
  <1>7. /\ t \in Task /\ t.at \in {"run", "executed"}
        /\ t.at = "run" => Fit(k, t.req) /\ t.req.valid /\ PlanFits(t.req, t.plan)
    <2>1. CASE /\ t = Running(conn[k].req, Tail(conn[k].plan)) /\ Len(conn[k].plan) = 2
               /\ conn[k].req.op \in Opens => work[k].result = "ok"
      <3>1. conn[k].req.op \in Opens => conn[k].req.sealed
        BY <1>1, <1>3, <1>4, <2>1 DEF RunFits
      <3>2. /\ Len(Plan(conn[k].req)) = 2
            /\ Tail(conn[k].plan) = <<Plan(conn[k].req)[2]>>
        BY <1>4, <2>1, PlanLeft
      <3>3. PlanFits(conn[k].req, Tail(conn[k].plan))
        BY <3>1, <3>2 DEF PlanFits
      <3>4. Tail(conn[k].plan) \in Seq(HsmCalls)
        BY <1>4, <3>3, PlanLeft
      <3>5. t.at = "run" /\ t.req = conn[k].req /\ t.plan = Tail(conn[k].plan) /\ t \in InRun
        BY <1>4, <2>1, <3>4 DEF Running, InRun, HsmCalls
      <3>6. Fit(k, t.req) /\ t.req.valid
        BY <1>4, <3>5 DEF RunFits
      <3> QED
        BY <3>3, <3>5, <3>6 DEF Task
    <2>2. ASSUME NEW resp \in {"ok", "denied", "error"}, t = Executed(conn[k].req, resp)
          PROVE  t \in InExecuted
      BY <1>4, <2>2 DEF Executed, InExecuted
    <2>3. CASE t \in InExecuted
      BY <2>3 DEF Task, InExecuted
    <2> QED
      BY <1>1, <1>5, <2>1, <2>2, <2>3, AfterHsmIs
  <1>8. Placed(k)'
    BY <1>1, <1>2, <1>3, <1>4, <1>6, <1>7 DEF Placed, Closed
  <1>9. t.at = "run" => RunFits(k, conn[k])'
    BY <1>2, <1>6, <1>7 DEF RunFits, Fit, Cleared, IsAuthorized
  <1>10. TaskFits(k)'
    BY <1>1, <1>3, <1>6, <1>7, <1>9 DEF TaskFits
  <1> QED
    BY <1>1, <1>2, <1>6, <1>7, <1>8, <1>10, TaskStep, TaskOf

-----------------------------------------------------------------------------
\* The process starts and ends, and the token moves.
LEMMA ProcessTasks ==
    ASSUME IInv, H!TypeOK', Start \/ Exit \/ MoveToken
    PROVE  TypeOK' /\ TasksFit'
  <1>1. conn \in [Conns -> Task] /\ served \in [Conns -> 0..MaxRequests] /\ served' = served
    BY TypesAre DEF IInv, Start, Exit, MoveToken, gatewayVars
  <1>2. CASE Exit
    <2>1. \A k \in Conns : conn'[k] = Closed /\ calls'[k] = A!NoCall /\ work'[k] = H!Idle
      BY <1>2 DEF Exit, A!Crash, A!PowerLoss, A!CrashMidWrite, A!Stop, H!Exit
    <2>2. conn' \in [Conns -> Task]
      BY <1>2 DEF Exit, Task
    <2>3. \A k \in Conns : Placed(k)' /\ TaskFits(k)'
      BY <2>1 DEF Placed, TaskFits, Closed
    <2> QED
      BY <1>1, <2>2, <2>3, TypesNext DEF TasksFit
  <1>3. CASE Start
    <2>1. /\ UNCHANGED <<conn, calls, work>>
          /\ status # "up"
      BY <1>3 DEF Start, gatewayVars, A!Open, H!Connect, hsmVars
    <2>2. \A k \in Conns : Placed(k) /\ TaskFits(k) /\ conn[k] = Closed
      BY <2>1, TaskOf DEF Placed
    <2>3. \A k \in Conns : Placed(k)' /\ TaskFits(k)'
      BY <1>1, <2>1, <2>2 DEF Placed, TaskFits, Closed
    <2> QED
      BY <1>1, <2>1, <2>3, TypesNext DEF TasksFit
  <1>4. CASE MoveToken
    <2>1. UNCHANGED <<conn, calls, work, status, slot>>
      BY <1>4 DEF MoveToken, gatewayVars, logVars, H!Unplug, H!Plug
    <2>2. \A k \in Conns : Untouched(k)
      BY <1>1, <2>1 DEF Untouched, SameCall
    <2>3. \A k \in Conns : Placed(k)' /\ TaskFits(k)'
      BY <2>1, <2>2, UntouchedFits
    <2> QED
      BY <1>1, <2>1, <2>3, TypesNext DEF TasksFit
  <1> QED
    BY <1>2, <1>3, <1>4

\* Every step keeps the tasks, their types and the slot.
LEMMA NextTasks ==
    ASSUME IInv, H!TypeOK', [Next]_vars
    PROVE  TypeOK' /\ TasksFit' /\ Connected'
  <1>1. CASE Start \/ Exit \/ MoveToken
    <2>1. H!NoSlot \notin tokens
      BY PartTypes, GatewayConstants DEF IInv, H!TypeOK, H!NoSlot
    <2>2. Connected'
      BY <1>1, <2>1 DEF Start, Exit, MoveToken, H!Connect, A!Open, hsmVars, A!Crash, A!PowerLoss,
                  A!CrashMidWrite, A!Stop, logVars, H!Unplug, H!Plug, IInv, Connected
    <2> QED
      BY <1>1, <2>2, ProcessTasks
  <1>2. ASSUME NEW k \in Conns, \/ Accept(k) \/ Disconnect(k) \/ Answer(k)
                                \/ \E cert \in Certs : AcceptAudited(k, cert)
        PROVE  TypeOK' /\ TasksFit' /\ Connected'
    <2>1. UNCHANGED <<status, slot>>
      BY <1>2 DEF Accept, Disconnect, Answer, AcceptAudited, A!Begin, logVars, hsmVars
    <2> QED
      BY <1>2, <2>1, ReadyTasks, AcceptAuditedTasks DEF IInv, Connected
  <1>3. ASSUME NEW k \in Conns, NEW line \in Requests,
               ReceiveMalformed(k, line) \/ ReceiveDenied(k, line) \/ ReceiveCleared(k, line)
        PROVE  TypeOK' /\ TasksFit' /\ Connected'
    <2>1. UNCHANGED <<status, slot>>
      BY <1>3 DEF ReceiveMalformed, ReceiveDenied, ReceiveCleared, A!Begin, logVars, hsmVars
    <2> QED
      BY <1>3, <2>1, ReceiveTasks, ReceiveMalformedTasks DEF IInv, Connected
  <1>4. ASSUME NEW k \in Conns,
               AppendWrites(k) \/ AppendOk(k) \/ AppendFails(k) \/ CloseRequest(k)
        PROVE  TypeOK' /\ TasksFit' /\ Connected'
    <2>1. UNCHANGED <<status, slot>>
      BY <1>4 DEF AppendWrites, AppendOk, AppendFails, CloseRequest, A!WriteOk, A!Publish,
                  A!WriteFails, A!WriteTorn, A!TornLine, A!Begin, hsmVars
    <2> QED
      BY <1>4, <2>1, AppendWritesTasks, AppendReturnsTasks, CloseRequestTasks DEF IInv, Connected
  <1>5. ASSUME NEW k \in Conns, HsmCall(k) \/ HsmSteps(k) \/ HsmFails(k) \/ HsmReturns(k)
        PROVE  TypeOK' /\ TasksFit' /\ Connected'
    <2>1. UNCHANGED <<status, slot>>
      BY <1>5, HsmWork, TaskOf DEF HsmCall, HsmSteps, HsmFails, HsmReturns, H!Call, H!Take, logVars
    <2> QED
      BY <1>5, <2>1, HsmCallTasks, HsmStepsTasks, HsmReturnsTasks DEF IInv, Connected
  <1>6. CASE UNCHANGED vars
    <2>1. UNCHANGED <<conn, served, calls, work, status, slot>>
      BY <1>6 DEF vars, gatewayVars, logVars, hsmVars
    <2>2. \A k \in Conns : Placed(k)' /\ TaskFits(k)'
      BY <2>1, UntouchedFits DEF Untouched, SameCall
    <2>3. conn \in [Conns -> Task] /\ served \in [Conns -> 0..MaxRequests]
      BY TypesAre DEF IInv
    <2> QED
      BY <2>1, <2>2, <2>3, TypesNext DEF TasksFit, Connected, IInv
  <1> QED
    BY <1>1, <1>2, <1>3, <1>4, <1>5, <1>6 DEF Next, Proceed

-----------------------------------------------------------------------------
(***************************************************************************)
(* LogFitsTasks: what the file shows of each request.                      *)
(***************************************************************************)
\* The lines of the file and what they say.
LEMMA FileLines ==
    ASSUME A!TypeOK
    PROVE  /\ file \in Seq(A!Lines) /\ Len(file) \in Nat
           /\ \A i \in 1..Len(file) : file[i].parses =>
                /\ file[i].body \in Entries
                /\ file[i].body.conn \in Conns /\ file[i].body.n \in Nat
  <1>1. file \in Seq(A!Lines)
    BY DEF A!TypeOK
  <1>2. ASSUME NEW i \in 1..Len(file), file[i].parses
        PROVE  file[i].body \in Entries
    <2>1. PICK line : line = file[i]
      OBVIOUS
    <2>2. line \in A!Lines
      BY <1>1, <2>1, ElementOfSeq
    <2>3. line.parses
      BY <1>2, <2>1
    <2>4. line.body \in Entries
      <3>1. ~A!Junk.parses
        BY DEF A!Junk
      <3>2. line # A!Junk
        BY <2>3, <3>1
      <3> QED
        BY <2>2, <3>2 DEF A!Lines
    <2> QED
      BY <2>1, <2>4
  <1>3. MaxRequests \in Nat
    BY GatewayConstants
  <1>4. \A b \in Entries : b.conn \in Conns /\ b.n \in Nat
    BY <1>3 DEF Entries
  <1> QED
    BY <1>1, <1>2, <1>4, LenProperties

\* The file and the count of k stay: so does what the file shows of k.
LEMMA ShowsStay ==
    ASSUME NEW k, file' = file, served'[k] = served[k]
    PROVE  /\ ShowsNone(k)' <=> ShowsNone(k)
           /\ \A o : ShowsOne(k, o)' <=> ShowsOne(k, o)
           /\ \A o : ShowsTwo(k, o)' <=> ShowsTwo(k, o)
  <1>1. About(k)' = About(k)
    BY DEF About
  <1> QED
    BY <1>1 DEF ShowsNone, ShowsOne, ShowsTwo

\* A line is added to the file that is not about k.
LEMMA ShowsOther ==
    ASSUME NEW k, NEW e \in A!Lines, file \in Seq(A!Lines), file' = Append(file, e),
           served'[k] = served[k], ~(e.body.conn = k /\ e.body.n = served[k])
    PROVE  /\ ShowsNone(k) => ShowsNone(k)'
           /\ \A o : ShowsOne(k, o) => ShowsOne(k, o)'
           /\ \A o : ShowsTwo(k, o) => ShowsTwo(k, o)'
  <1>1. /\ Len(file) \in Nat /\ Len(file') = Len(file) + 1
        /\ \A i \in 1..Len(file) : file'[i] = file[i]
        /\ file'[Len(file) + 1] = e
    BY AppendProperties, LenProperties
  <1>2. About(k)' = About(k)
    BY <1>1 DEF About
  <1>3. \A i \in 1..Len(file) : i \in 1..Len(file') /\ file'[i] = file[i]
    BY <1>1
  <1> QED
    BY <1>2, <1>3 DEF ShowsNone, ShowsOne, ShowsTwo

\* A line is added to the file that is about the request of k.
LEMMA ShowsMore ==
    ASSUME NEW k, NEW o, NEW e \in A!Lines, file \in Seq(A!Lines), file' = Append(file, e),
           served'[k] = served[k], e.body = Body(k, served[k], o)
    PROVE  /\ ShowsNone(k) => ShowsOne(k, o)'
           /\ ShowsOne(k, "intent") => ShowsTwo(k, o)'
  <1>1. /\ Len(file) \in Nat /\ Len(file') = Len(file) + 1
        /\ \A i \in 1..Len(file) : file'[i] = file[i]
        /\ file'[Len(file) + 1] = e
    BY AppendProperties, LenProperties
  <1>2. e.body.conn = k /\ e.body.n = served[k]
    BY DEF Body
  <1>3. About(k)' = About(k) \cup {Len(file) + 1}
    BY <1>1, <1>2 DEF About
  <1>4. \A i \in 1..Len(file) : i \in 1..Len(file') /\ file'[i] = file[i] /\ i < Len(file) + 1
    BY <1>1
  <1>5. Len(file) + 1 \in 1..Len(file')
    BY <1>1
  <1>6. ShowsNone(k) => ShowsOne(k, o)'
    BY <1>1, <1>3, <1>5 DEF ShowsNone, ShowsOne
  <1>7. ShowsOne(k, "intent") => ShowsTwo(k, o)'
    BY <1>1, <1>3, <1>4, <1>5 DEF ShowsOne, ShowsTwo
  <1> QED
    BY <1>6, <1>7

\* The file shows of m what it did.
Keeps(m) ==
    /\ ShowsNone(m) => ShowsNone(m)'
    /\ \A o : ShowsOne(m, o) => ShowsOne(m, o)'
    /\ \A o : ShowsTwo(m, o) => ShowsTwo(m, o)'

LEMMA TracedKept ==
    ASSUME NEW m, Traced(m), Keeps(m), conn'[m] = conn[m], calls'[m] = calls[m]
    PROVE  Traced(m)'
  BY DEF Traced, Keeps

\* A step of the task k after which the file is k's affair only.
LEMMA LogStep ==
    ASSUME IInv, ~torn, NEW k \in Conns, FileFits', Traced(k)',
           \A m \in Conns : m # k =>
                conn'[m] = conn[m] /\ calls'[m] = calls[m] /\ Keeps(m)
    PROVE  LogFitsTasks'
  <1>1. ASSUME NEW m \in Conns, m # k PROVE Traced(m)'
    BY <1>1, TracedKept DEF IInv, LogFitsTasks
  <1> QED
    BY <1>1 DEF LogFitsTasks

\* A step that leaves the file alone; a line may have been read.
LEMMA SameFileStep ==
    ASSUME IInv, ~torn, NEW k \in Conns, UNCHANGED <<file, newline>>,
           served' = served \/ Receive(k),
           \A m \in Conns : m # k => conn'[m] = conn[m] /\ calls'[m] = calls[m],
           Traced(k)'
    PROVE  LogFitsTasks'
  <1>1. \A m \in Conns : /\ served[m] \in Nat /\ served'[m] \in Nat
                         /\ served[m] <= served'[m]
                         /\ m # k => served'[m] = served[m]
    <2>1. MaxRequests \in Nat
      BY GatewayConstants
    <2>2. \A m \in Conns : served[m] \in Nat
      BY <2>1, TaskOf
    <2>3. CASE served' = served
      BY <2>2, <2>3
    <2>4. CASE Receive(k)
      BY <2>2, <2>4, Received
    <2> QED
      BY <2>3, <2>4
  <1>2. FileFits'
    <2>1. FileFits /\ A!TypeOK
      BY TaskOf DEF IInv, LogFitsTasks
    <2>2. ASSUME NEW i \in 1..Len(file)
          PROVE  file[i].parses /\ file[i].body.n <= served'[file[i].body.conn]
      <3>1. file[i].parses /\ file[i].body.n <= served[file[i].body.conn]
        BY <2>1 DEF FileFits
      <3>2. file[i].body.conn \in Conns /\ file[i].body.n \in Nat
        BY <2>1, <3>1, FileLines
      <3> QED
        BY <1>1, <3>1, <3>2
    <2> QED
      BY <2>1, <2>2 DEF FileFits
  <1>3. \A m \in Conns : m # k => Keeps(m)
    BY <1>1, ShowsStay DEF Keeps
  <1> QED
    BY <1>2, <1>3, LogStep

\* Nothing is in the file about a line that was just read.
LEMMA FreshRequest ==
    ASSUME IInv, ~torn, NEW k \in Conns, Receive(k), file' = file
    PROVE  ShowsNone(k)'
  <1>1. FileFits /\ A!TypeOK
    BY TaskOf DEF IInv, LogFitsTasks
  <1>2. MaxRequests \in Nat
    BY GatewayConstants
  <1>3. served[k] \in Nat /\ served'[k] = served[k] + 1
    BY <1>2, TaskOf, Received
  <1>4. ASSUME NEW i \in 1..Len(file), file[i].body.conn = k PROVE file[i].body.n # served'[k]
    <2>1. file[i].parses /\ file[i].body.n <= served[k]
      BY <1>1, <1>4 DEF FileFits
    <2>2. file[i].body.n \in Nat
      BY <1>1, <2>1, FileLines
    <2> QED
      BY <1>3, <2>1, <2>2
  <1> QED
    BY <1>4 DEF ShowsNone, About

\* What happens to conn at k only.
LEMMA ConnAt ==
    ASSUME IInv, NEW k \in Conns, NEW t, conn' = [conn EXCEPT ![k] = t]
    PROVE  conn'[k] = t /\ \A m \in Conns : m # k => conn'[m] = conn[m]
  BY TaskOf

-----------------------------------------------------------------------------
LEMMA ReadyLog ==
    ASSUME IInv, ~torn, NEW k \in Conns,
           \/ Accept(k) \/ Disconnect(k) \/ Answer(k)
           \/ \E cert \in Certs : AcceptAudited(k, cert)
    PROVE  LogFitsTasks'
  <1>1. CASE Accept(k) \/ Disconnect(k) \/ Answer(k)
    <2>1. PICK t \in {Ready, Closed} : conn' = [conn EXCEPT ![k] = t]
      BY <1>1 DEF Accept, Disconnect, Answer
    <2>2. conn'[k] = t /\ t.at \in {"ready", "closed"}
      <3>1. conn'[k] = t
        BY <2>1, ConnAt
      <3> QED
        BY <3>1 DEF Ready, Closed
    <2>3. Traced(k)'
      BY <2>2 DEF Traced
    <2> QED
      BY <1>1, <2>1, <2>3, ConnAt, SameFileStep DEF Accept, Disconnect, Answer, logVars
  <1>2. ASSUME NEW cert, AcceptAudited(k, cert) PROVE LogFitsTasks'
    <2>1. PICK b : A!Begin(k, b) /\ cert \in {"expiring", "too_long"}
      BY <1>2 DEF AcceptAudited
    <2>2. PICK t : t = Logging(cert, << >>, "none")
      OBVIOUS
    <2>3. conn' = [conn EXCEPT ![k] = t] /\ served' = served
      BY <1>2, <2>2 DEF AcceptAudited
    <2>4. t.at = "log" /\ t.why \in {"expiring", "too_long"}
      BY <2>1, <2>2 DEF Logging
    <2>5. Traced(k)'
      BY <2>3, <2>4, ConnAt DEF Traced
    <2> QED
      BY <2>1, <2>3, <2>5, BeginCalls, ConnAt, SameFileStep, TaskOf
  <1> QED
    BY <1>1, <1>2

LEMMA ReceiveLog ==
    ASSUME IInv, ~torn, NEW k \in Conns, NEW line \in Requests,
           ReceiveMalformed(k, line) \/ ReceiveDenied(k, line) \/ ReceiveCleared(k, line)
    PROVE  LogFitsTasks'
  <1>1. Receive(k)
    BY DEF ReceiveMalformed, ReceiveDenied, ReceiveCleared
  <1>2. CASE ReceiveMalformed(k, line)
    <2>1. PICK t : t = Answering(line, "error", "malformed", FALSE)
      OBVIOUS
    <2>2. conn' = [conn EXCEPT ![k] = t] /\ UNCHANGED <<file, newline, calls>>
      BY <1>2, <2>1 DEF ReceiveMalformed, logVars
    <2>3. t.at = "answer" /\ t.why = "malformed"
      BY <2>1 DEF Answering
    <2>4. ShowsNone(k)'
      BY <1>1, <2>2, FreshRequest
    <2>5. Traced(k)'
      BY <2>2, <2>3, <2>4, ConnAt DEF Traced
    <2> QED
      BY <1>1, <2>2, <2>5, ConnAt, SameFileStep
  <1>3. CASE ReceiveDenied(k, line) \/ ReceiveCleared(k, line)
    <2>1. PICK o, resp, b :
            /\ o \in {"denied", "intent"}
            /\ A!Begin(k, b) /\ conn' = [conn EXCEPT ![k] = Logging(o, line, resp)]
      BY <1>3 DEF ReceiveDenied, ReceiveCleared
    <2>2. PICK t : t = Logging(o, line, resp)
      OBVIOUS
    <2>3. t.at = "log" /\ t.why = o
      BY <2>2 DEF Logging
    <2>4. /\ calls'[k].at = "read" /\ UNCHANGED <<file, newline>>
          /\ \A m \in Conns : m # k => calls'[m] = calls[m]
      BY <2>1, BeginCalls, TaskOf
    <2>5. ShowsNone(k)'
      BY <1>1, <2>4, FreshRequest
    <2>6. conn'[k] = t /\ \A m \in Conns : m # k => conn'[m] = conn[m]
      BY <2>1, <2>2, ConnAt
    <2>7. Traced(k)'
      BY <2>1, <2>3, <2>4, <2>5, <2>6 DEF Traced
    <2> QED
      BY <1>1, <2>4, <2>6, <2>7, SameFileStep
  <1> QED
    BY <1>2, <1>3

LEMMA CloseRequestLog ==
    ASSUME IInv, ~torn, NEW k \in Conns, CloseRequest(k)
    PROVE  LogFitsTasks'
  <1>1. PICK t, b : /\ t = Logging("closing", conn[k].req, conn[k].resp)
                    /\ A!Begin(k, b) /\ conn' = [conn EXCEPT ![k] = t]
    BY DEF CloseRequest
  <1>2. t.at = "log" /\ t.why = "closing"
    BY <1>1 DEF Logging
  <1>3. /\ calls'[k].at = "read" /\ UNCHANGED <<file, newline, served>>
        /\ \A m \in Conns : m # k => calls'[m] = calls[m]
    BY <1>1, BeginCalls, TaskOf DEF CloseRequest
  <1>4. ShowsOne(k, "intent")
    BY DEF CloseRequest, IInv, LogFitsTasks, Traced
  <1>5. ShowsOne(k, "intent")'
    BY <1>3, <1>4, ShowsStay
  <1>6. conn'[k] = t /\ \A m \in Conns : m # k => conn'[m] = conn[m]
    BY <1>1, ConnAt
  <1>7. Traced(k)'
    BY <1>2, <1>3, <1>5, <1>6 DEF Traced
  <1> QED
    BY <1>3, <1>6, <1>7, SameFileStep

LEMMA AppendReturnsLog ==
    ASSUME IInv, ~torn, ~torn', NEW k \in Conns, AppendOk(k) \/ AppendFails(k)
    PROVE  LogFitsTasks'
  <1>1. PICK ok \in BOOLEAN : /\ conn' = [conn EXCEPT ![k] = AfterAppend(k, ok)]
                              /\ ok => A!Publish(k)
                              /\ ~ok => A!WriteFails(k)
    <2>1. CASE AppendOk(k)
      BY <2>1 DEF AppendOk
    <2>2. CASE AppendFails(k)
      BY <2>2, EndCalls, TaskOf DEF AppendFails
    <2> QED
      BY <2>1, <2>2
  <1>2. PICK t : t = AfterAppend(k, ok)
    OBVIOUS
  <1>3. /\ calls[k] # A!NoCall
        /\ \A m \in Conns : m # k => calls'[m] = calls[m]
        /\ UNCHANGED <<file, newline>>
    BY <1>1, EndCalls, TaskOf
  <1>4. (ok => calls[k].at = "wrote") /\ (~ok => calls[k].at = "read")
    BY <1>1 DEF A!Publish, A!WriteFails
  <1>5. served' = served
    BY DEF AppendOk, AppendFails
  <1>6. conn'[k] = t /\ \A m \in Conns : m # k => conn'[m] = conn[m]
    BY <1>1, <1>2, ConnAt
  <1>7. conn[k].at = "log" /\ Traced(k)
    BY <1>3, TaskInLog DEF IInv, LogFitsTasks
  <1>8. /\ t.at \in {"closed", "ready", "run", "executed", "answer"}
        /\ t.at \in {"closed", "ready"} <=> conn[k].why \in {"expiring", "too_long"}
        /\ t.at \in {"run", "executed"} => ok /\ conn[k].why = "intent"
        /\ t.at = "answer" => /\ t.why = conn[k].why
                              /\ t.why = "intent" => ~ok
                              /\ t.logged = ok
                              /\ t.why = "closing" => t.resp = conn[k].resp
    BY <1>2, <1>3, AppendedTask
  <1>9. /\ ShowsNone(k)' <=> ShowsNone(k)
        /\ \A o : ShowsOne(k, o)' <=> ShowsOne(k, o)
        /\ \A o : ShowsTwo(k, o)' <=> ShowsTwo(k, o)
    BY <1>3, <1>5, ShowsStay
  <1>10. t.at = "answer" => t.why \in {"denied", "intent", "closing"}
    BY <1>3, <1>8, TaskInLog
  <1>11. Traced(k)'
    <2>1. CASE t.at \in {"closed", "ready"}
      BY <1>6, <2>1 DEF Traced
    <2>2. CASE t.at \in {"run", "executed"}
      <3>1. ShowsOne(k, "intent")'
        BY <1>4, <1>7, <1>8, <1>9, <2>2 DEF Traced
      <3> QED
        BY <1>6, <2>2, <3>1 DEF Traced
    <2>3. CASE t.at = "answer" /\ t.why = "intent"
      <3>1. ShowsNone(k)'
        BY <1>4, <1>7, <1>8, <1>9, <2>3 DEF Traced
      <3> QED
        BY <1>6, <2>3, <3>1 DEF Traced
    <2>4. CASE t.at = "answer" /\ t.why = "denied"
      <3>1. ShowsNone(k)' \/ ShowsOne(k, "denied")'
        BY <1>4, <1>7, <1>8, <1>9, <2>4 DEF Traced
      <3> QED
        BY <1>6, <2>4, <3>1 DEF Traced
    <2>5. CASE t.at = "answer" /\ t.why = "closing"
      <3>1. (ok => ShowsTwo(k, Outcome(t.resp))') /\ (~ok => ShowsOne(k, "intent")')
        BY <1>4, <1>7, <1>8, <1>9, <2>5 DEF Traced, Outcome
      <3> QED
        BY <1>6, <1>8, <2>5, <3>1 DEF Traced
    <2> QED
      BY <1>8, <1>10, <2>1, <2>2, <2>3, <2>4, <2>5
  <1> QED
    BY <1>3, <1>5, <1>6, <1>11, SameFileStep

LEMMA AppendWritesLog ==
    ASSUME IInv, ~torn, NEW k \in Conns, AppendWrites(k)
    PROVE  LogFitsTasks'
  <1>1. A!TypeOK /\ A!WriteOk(k) /\ UNCHANGED <<conn, served>>
    BY TaskOf DEF AppendWrites, gatewayVars
  <1>2. /\ calls[k] # A!NoCall /\ calls[k].at = "read" /\ calls'[k].at = "wrote"
        /\ \A m \in Conns : m # k => calls'[m] = calls[m]
        /\ file' = A!WithLine(A!EntryOf(k)) /\ newline'
    BY <1>1, WriteCalls
  <1>3. FileFits /\ Traced(k)
    BY DEF IInv, LogFitsTasks
  <1>4. PICK e : e = A!EntryOf(k)
    OBVIOUS
  <1>5. file' = Append(file, e)
    BY <1>2, <1>3, <1>4 DEF FileFits, A!WithLine
  <1>6. e \in A!Lines /\ e.parses /\ e.body = calls[k].body
    BY <1>1, <1>2, <1>4, CallShape
  <1>7. conn[k].at = "log" /\ LogFits(k, conn[k]) /\ conn[k] \in InLog
    BY <1>2, TaskInLog
  <1>8. e.body.conn = k /\ e.body.n <= served[k]
    <2>1. MaxRequests \in Nat
      BY GatewayConstants
    <2>2. served[k] \in Nat
      BY <2>1, TaskOf
    <2>3. e.body.conn = k /\ (e.body.n = 0 \/ e.body.n = served[k])
      BY <1>6, <1>7 DEF LogFits, InLog, Body
    <2> QED
      BY <2>2, <2>3
  <1>9. file \in Seq(A!Lines)
    BY <1>1, FileLines
  <1>10. FileFits'
    <2>1. /\ Len(file) \in Nat /\ Len(file') = Len(file) + 1
          /\ \A i \in 1..Len(file) : file'[i] = file[i]
          /\ file'[Len(file) + 1] = e
      BY <1>5, <1>6, <1>9, AppendProperties, LenProperties
    <2>2. ASSUME NEW i \in 1..Len(file')
          PROVE  file'[i].parses /\ file'[i].body.n <= served[file'[i].body.conn]
      <3>1. CASE i = Len(file) + 1
        BY <1>6, <1>8, <2>1, <3>1
      <3>2. CASE i \in 1..Len(file)
        BY <1>3, <2>1, <3>2 DEF FileFits
      <3> QED
        BY <2>1, <3>1, <3>2
    <2> QED
      BY <1>1, <1>2, <2>2 DEF FileFits
  <1>11. ASSUME NEW m \in Conns, m # k PROVE Keeps(m)
    BY <1>1, <1>5, <1>6, <1>8, <1>9, <1>11, ShowsOther DEF Keeps
  <1>12. Traced(k)'
    <2>1. CASE conn[k].why \in {"expiring", "too_long"}
      BY <1>1, <1>7, <2>1 DEF Traced
    <2>2. ASSUME NEW o, e.body = Body(k, served[k], o)
          PROVE  /\ ShowsNone(k) => ShowsOne(k, o)'
                 /\ ShowsOne(k, "intent") => ShowsTwo(k, o)'
      BY <1>1, <1>5, <1>6, <1>9, <2>2, ShowsMore
    <2>3. CASE conn[k].why \in {"denied", "intent"}
      <3>1. e.body = Body(k, served[k], conn[k].why)
        BY <1>6, <1>7, <2>3 DEF LogFits
      <3>2. PICK o : o = conn[k].why
        OBVIOUS
      <3>3. ShowsOne(k, o)'
        BY <1>2, <1>3, <1>7, <2>2, <2>3, <3>1, <3>2 DEF Traced
      <3> QED
        BY <1>1, <1>2, <1>7, <2>3, <3>2, <3>3 DEF Traced
    <2>4. CASE conn[k].why = "closing"
      <3>1. PICK o : o = Outcome(conn[k].resp)
        OBVIOUS
      <3>2. e.body = Body(k, served[k], o)
        BY <1>6, <1>7, <2>4, <3>1 DEF LogFits
      <3>3. ShowsTwo(k, o)'
        BY <1>2, <1>3, <1>7, <2>2, <2>4, <3>2 DEF Traced
      <3>4. Outcome(conn[k].resp)' = o
        BY <1>1, <3>1 DEF Outcome
      <3> QED
        BY <1>1, <1>2, <1>7, <2>4, <3>3, <3>4 DEF Traced
    <2> QED
      BY <1>7, <2>1, <2>3, <2>4 DEF InLog
  <1> QED
    BY <1>1, <1>2, <1>10, <1>11, <1>12, LogStep

LEMMA HsmLog ==
    ASSUME IInv, ~torn, NEW k \in Conns, HsmCall(k) \/ HsmSteps(k) \/ HsmFails(k) \/ HsmReturns(k)
    PROVE  LogFitsTasks'
  <1>1. UNCHANGED <<served, file, newline, calls>>
    BY DEF HsmCall, HsmSteps, HsmFails, HsmReturns, gatewayVars, logVars
  <1>2. Traced(k)
    BY DEF IInv, LogFitsTasks
  <1>3. CASE conn' = conn
    <2>1. Traced(k)'
      BY <1>1, <1>2, <1>3, ShowsStay, TracedKept DEF Keeps
    <2> QED
      BY <1>1, <1>3, <2>1, SameFileStep
  <1>4. CASE HsmReturns(k)
    <2>1. PICK t : t = AfterHsm(k, work[k].result)
      OBVIOUS
    <2>2. work[k].at = "returned" /\ conn' = [conn EXCEPT ![k] = t]
      BY <1>4, <2>1 DEF HsmReturns, H!Take
    <2>3. t.at \in {"run", "executed"}
      BY <2>1, <2>2, AfterHsmIs DEF Running, Executed
    <2>4. conn[k].at = "run"
      BY <2>2, TaskOf DEF Placed, H!Idle
    <2>5. ShowsOne(k, "intent")'
      BY <1>1, <1>2, <2>4, ShowsStay DEF Traced
    <2>6. conn'[k] = t /\ \A m \in Conns : m # k => conn'[m] = conn[m]
      BY <2>2, ConnAt
    <2>7. Traced(k)'
      BY <2>3, <2>5, <2>6 DEF Traced
    <2> QED
      BY <1>1, <2>6, <2>7, SameFileStep
  <1> QED
    BY <1>3, <1>4 DEF HsmCall, HsmSteps, HsmFails, gatewayVars

LEMMA ProcessLog ==
    ASSUME IInv, ~torn, ~torn', Start \/ Exit \/ MoveToken
    PROVE  LogFitsTasks'
  <1>1. FileFits /\ (\A k \in Conns : Traced(k)) /\ A!TypeOK
    BY PartTypes DEF IInv, LogFitsTasks
  <1>2. CASE Start \/ MoveToken
    <2>1. UNCHANGED <<conn, served, file, newline, calls>>
      BY <1>2 DEF Start, MoveToken, gatewayVars, logVars, A!Open
    <2>2. \A k \in Conns : Traced(k)'
      BY <1>1, <2>1, ShowsStay, TracedKept DEF Keeps
    <2> QED
      BY <1>1, <2>1, <2>2 DEF LogFitsTasks, FileFits
  <1>3. CASE Exit
    <2>1. served' = served /\ \A k \in Conns : conn'[k] = Closed
      BY <1>3 DEF Exit
    <2>2. \A k \in Conns : Traced(k)'
      BY <2>1 DEF Traced, Closed
    <2>3. CASE A!Crash
      BY <1>1, <2>1, <2>2, <2>3 DEF A!Crash, LogFitsTasks, FileFits
    <2>4. CASE A!PowerLoss
      <3>1. PICK n \in 1..Len(file) : file' = SubSeq(file, 1, n - 1) /\ newline'
        BY <2>4 DEF A!PowerLoss
      <3>2. /\ Len(file) \in Nat /\ n - 1 \in 0..Len(file) /\ file \in Seq(A!Lines)
        BY <1>1, FileLines
      <3>3. /\ Len(file') = n - 1
            /\ \A i \in 1..(n - 1) : file'[i] = file[i] /\ i \in 1..Len(file)
        <4>1. /\ \A i \in 1..(n - 1) : 1 + i - 1 = i /\ i \in 1..Len(file)
              /\ n - 1 = n - 1 - 1 + 1
          BY <3>2
        <4> QED
          BY <3>1, <3>2, <4>1
      <3>4. FileFits'
        BY <1>1, <2>1, <3>1, <3>3 DEF FileFits
      <3> QED
        BY <2>2, <3>4 DEF LogFitsTasks
    <2>5. ASSUME NEW k \in Conns, A!CrashMidWrite(k) PROVE FALSE
      BY <2>5 DEF A!CrashMidWrite, A!TornLine
    <2> QED
      BY <1>3, <2>3, <2>4, <2>5 DEF Exit
  <1> QED
    BY <1>2, <1>3

\* Every step keeps LogFitsTasks: a cut line is never mended.
LEMMA NextLog ==
    ASSUME IInv, [Next]_vars
    PROVE  LogFitsTasks'
  <1>1. CASE torn'
    BY <1>1 DEF LogFitsTasks
  <1>2. ASSUME ~torn' PROVE ~torn
    <2>1. [AP!Steps]_AP!logVars
      BY LogMoves
    <2> QED
      BY <1>2, <2>1 DEF AP!Steps, AP!logVars, AP!Open, AP!Crash, AP!PowerLoss, AP!Begin,
          AP!WriteOk, AP!WriteFails, AP!WriteTorn, AP!TornLine, AP!Publish, AP!CrashMidWrite
  <1>3. ASSUME ~torn', ~torn PROVE LogFitsTasks'
    <2>1. CASE Start \/ Exit \/ MoveToken
      BY <1>3, <2>1, ProcessLog
    <2>2. ASSUME NEW k \in Conns, \/ Accept(k) \/ Disconnect(k) \/ Answer(k)
                                  \/ \E cert \in Certs : AcceptAudited(k, cert)
          PROVE  LogFitsTasks'
      BY <1>3, <2>2, ReadyLog
    <2>3. ASSUME NEW k \in Conns, NEW line \in Requests,
                 ReceiveMalformed(k, line) \/ ReceiveDenied(k, line) \/ ReceiveCleared(k, line)
          PROVE  LogFitsTasks'
      BY <1>3, <2>3, ReceiveLog
    <2>4. ASSUME NEW k \in Conns,
                 AppendWrites(k) \/ AppendOk(k) \/ AppendFails(k) \/ CloseRequest(k)
          PROVE  LogFitsTasks'
      BY <1>3, <2>4, AppendWritesLog, AppendReturnsLog, CloseRequestLog
    <2>5. ASSUME NEW k \in Conns, HsmCall(k) \/ HsmSteps(k) \/ HsmFails(k) \/ HsmReturns(k)
          PROVE  LogFitsTasks'
      BY <1>3, <2>5, HsmLog
    <2>6. CASE UNCHANGED vars
      <3>1. UNCHANGED <<conn, served, file, newline, calls>>
        BY <2>6 DEF vars, gatewayVars, logVars
      <3>2. FileFits /\ \A k \in Conns : Traced(k)
        BY <1>3 DEF IInv, LogFitsTasks
      <3>3. \A k \in Conns : Traced(k)'
        BY <3>1, <3>2, ShowsStay, TracedKept DEF Keeps
      <3> QED
        BY <3>1, <3>2, <3>3 DEF LogFitsTasks, FileFits
    <2> QED
      BY <2>1, <2>2, <2>3, <2>4, <2>5, <2>6 DEF Next, Proceed
  <1> QED
    BY <1>1, <1>2, <1>3

-----------------------------------------------------------------------------
(***************************************************************************)
(* The invariant, and what follows from it.                                *)
(***************************************************************************)
LEMMA InitInductive == Init => IInv
  <1> SUFFICES ASSUME Init PROVE IInv
    OBVIOUS
  <1>1. AP!IInv
    <2>1. AP!Init
      BY DEF Init, A!Init, AP!Init, A!GENESIS, AP!GENESIS, A!NoCall, AP!NoCall
    <2> QED
      BY <2>1, AP!InitInductive, GatewayConstants
  <1>2. HP!IInv
    <2>1. HP!Init
      BY DEF Init, H!Init, HP!Init, H!NoSlot, HP!NoSlot, H!Idle, HP!Idle
    <2>2. HP!NoSlot \notin Slots /\ Objects \in [KeyLabels -> [HP!Classes -> Nat]]
      BY GatewayConstants DEF HP!NoSlot, HP!Classes
    <2> QED
      BY <2>1, <2>2, HP!InitInductive
  <1>3. MaxRequests \in Nat
    BY GatewayConstants
  <1>4. /\ \A k \in Conns : /\ conn[k] = Closed /\ served[k] = 0
                            /\ calls[k] = A!NoCall /\ work[k] = H!Idle
        /\ file = << >> /\ newline /\ status = "down"
    BY DEF Init, A!Init, H!Init
  <1>5. TypeOK
    <2>1. conn \in [Conns -> Task] /\ served \in [Conns -> 0..MaxRequests]
      BY <1>3 DEF Init, Task
    <2>2. \A k \in Conns : Placed(k)
      BY <1>4 DEF Placed, Closed
    <2> QED
      BY <2>1, <2>2, TypesAre
  <1>6. TasksFit /\ Connected
    BY <1>4 DEF TasksFit, TaskFits, Closed, Connected
  <1>7. LogFitsTasks
    <2>1. FileFits
      BY <1>4 DEF FileFits
    <2>2. \A k \in Conns : Traced(k)
      BY <1>4 DEF Traced, Closed
    <2> QED
      BY <2>1, <2>2 DEF LogFitsTasks
  <1> QED
    BY <1>1, <1>2, <1>5, <1>6, <1>7 DEF IInv

LEMMA NextInductive == IInv /\ [Next]_vars => IInv'
  <1> SUFFICES ASSUME IInv, [Next]_vars PROVE IInv'
    OBVIOUS
  <1>1. AP!IInv' /\ HP!IInv' /\ H!TypeOK'
    BY PartsStep
  <1>2. TypeOK' /\ TasksFit' /\ Connected'
    BY <1>1, NextTasks
  <1>3. LogFitsTasks'
    BY NextLog
  <1> QED
    BY <1>1, <1>2, <1>3 DEF IInv

LEMMA Invariance == Spec => []IInv
  BY InitInductive, NextInductive, PTL DEF Spec

\* Tasks keep their types; a task is inside append or HsmClient exactly where
\* process_line and execute call them (src/src/server.rs), and only while the
\* process runs.
THEOREM TypeCorrect == Spec => []TypeOK
  <1>1. IInv => TypeOK
    BY DEF IInv
  <1> QED
    BY <1>1, Invariance, PTL

\* Whatever clients ask, of any table from_raw accepts: only allowed and valid
\* requests reach the HSM, the integrity key serves no client, and nothing is
\* decrypted without a valid seal (process_line and execute of
\* src/src/server.rs).
THEOREM OnlyAllowedReachHsm == Spec => []HsmOnlyForAllowed
  <1>1. ASSUME IInv PROVE HsmOnlyForAllowed
    <2> SUFFICES ASSUME NEW k \in Conns, work[k] # H!Idle
                 PROVE  LET req == conn[k].req
                            grant == [cn |-> CnOf[k], op |-> req.op, label |-> req.label]
                        IN  /\ grant \in authz.grants
                            /\ req.op \in DeriveOps => req.peer \in authz.peer_keys[grant]
                            /\ req.valid
                            /\ Head(conn[k].plan).label = integrity_label =>
                                /\ req.op \notin {"sign", "verify"}
                                /\ work[k].f \in {"sign_ecdsa_sha256", "verify_ecdsa_sha256"}
                            /\ work[k].f \in {"decrypt_aes_cbc_pad", "derive_and_decrypt"} =>
                                req.sealed
      BY DEF HsmOnlyForAllowed
    <2> DEFINE req == conn[k].req
               grant == [cn |-> CnOf[k], op |-> req.op, label |-> req.label]
    <2>1. conn[k].at = "run"
      BY <1>1, TaskOf DEF Placed
    <2>2. /\ RunFits(k, conn[k]) /\ req \in Requests /\ req.parses
          /\ PlanFits(req, conn[k].plan)
      BY <1>1, <2>1, TaskInRun
    <2>3. Cleared(k, req) /\ req.valid /\ work[k].f = Head(conn[k].plan).f
      BY <2>2 DEF RunFits, Fit
    <2>4. /\ grant \in authz.grants
          /\ req.op \in DeriveOps => req.peer \in authz.peer_keys[grant]
      BY <2>3 DEF Cleared, IsAuthorized, is_authorized, is_peer_key_authorized
    <2>5. req.label # integrity_label
      <3>1. grant.label = req.label
        OBVIOUS
      <3>2. grant.label # integrity_label
        BY <2>4, GatewayConstants
      <3> QED
        BY <3>1, <3>2
    <2> HIDE DEF grant, req
    <2>6. /\ Head(conn[k].plan).label = integrity_label =>
                /\ req.op \notin {"sign", "verify"}
                /\ work[k].f \in {"sign_ecdsa_sha256", "verify_ecdsa_sha256"}
          /\ work[k].f \in {"decrypt_aes_cbc_pad", "derive_and_decrypt"} => req.sealed
      BY <2>2, <2>3, <2>5, PlanLeft
    <2> QED
      BY <2>3, <2>4, <2>6 DEF grant, req
  <1> QED
    BY <1>1, Invariance, PTL

\* What Logged and ClosingEntries say of a request the file shows so far.
LEMMA LoggedIs ==
    ASSUME IInv, ~torn, NEW k \in Conns
    PROVE  /\ ShowsNone(k) => \A o : Logged(k, o) = {}
           /\ \A o : ShowsOne(k, o) =>
                /\ \E i \in 1..Len(file) : Logged(k, o) = {i}
                /\ \A p : p # o => Logged(k, p) = {}
           /\ \A o : ShowsTwo(k, o) /\ o # "intent" =>
                \E i, j \in 1..Len(file) :
                    /\ i < j
                    /\ Logged(k, "intent") = {i} /\ Logged(k, o) = {j}
                    /\ \A p : p \notin {"intent", o} => Logged(k, p) = {}
  <1>1. \A i \in 1..Len(file) : file[i].parses
    BY DEF IInv, LogFitsTasks, FileFits
  <1>2. \A o : Body(k, served[k], o).conn = k /\ Body(k, served[k], o).n = served[k]
    BY DEF Body
  <1>3. \A o, p : o # p => Body(k, served[k], o) # Body(k, served[k], p)
    BY DEF Body
  <1>4. \A o : Logged(k, o) = {i \in About(k) : file[i].body = Body(k, served[k], o)}
    BY <1>1, <1>2 DEF Logged, About
  <1>5. ShowsNone(k) => \A o : Logged(k, o) = {}
    BY <1>4 DEF ShowsNone
  <1>6. ASSUME NEW o, ShowsOne(k, o)
        PROVE  /\ \E i \in 1..Len(file) : Logged(k, o) = {i}
               /\ \A p : p # o => Logged(k, p) = {}
    BY <1>3, <1>4, <1>6 DEF ShowsOne
  <1>7. ASSUME NEW o, ShowsTwo(k, o), o # "intent"
        PROVE  \E i, j \in 1..Len(file) :
                    /\ i < j
                    /\ Logged(k, "intent") = {i} /\ Logged(k, o) = {j}
                    /\ \A p : p \notin {"intent", o} => Logged(k, p) = {}
    <2>1. PICK i, j \in 1..Len(file) :
            /\ i < j /\ About(k) = {i, j}
            /\ file[i].body = Body(k, served[k], "intent")
            /\ file[j].body = Body(k, served[k], o)
      BY <1>7 DEF ShowsTwo
    <2>2. /\ Logged(k, "intent") = {i} /\ Logged(k, o) = {j}
          /\ \A p : p \notin {"intent", o} => Logged(k, p) = {}
      BY <1>3, <1>4, <1>7, <2>1
    <2> QED
      BY <2>1, <2>2
  <1> QED
    BY <1>5, <1>6, <1>7

\* Fail-closed: no request uses the HSM before its intent stands in the log,
\* once and unanswered (process_line of src/src/server.rs).
THEOREM IntentComesFirst == Spec => []IntentBeforeHsm
  <1>1. ASSUME IInv PROVE IntentBeforeHsm
    <2> SUFFICES ASSUME ~torn, NEW k \in Conns, work[k] # H!Idle
                 PROVE  /\ \E i \in 1..Len(file) : Logged(k, "intent") = {i}
                        /\ ClosingEntries(k) = {}
      BY DEF IntentBeforeHsm
    <2>1. conn[k].at = "run"
      BY <1>1, TaskOf DEF Placed
    <2>2. ShowsOne(k, "intent")
      BY <1>1, <2>1 DEF IInv, LogFitsTasks, Traced
    <2>3. /\ \E i \in 1..Len(file) : Logged(k, "intent") = {i}
          /\ \A p : p # "intent" => Logged(k, p) = {}
      BY <1>1, <2>2, LoggedIs
    <2> QED
      BY <2>3 DEF ClosingEntries
  <1> QED
    BY <1>1, Invariance, PTL

\* A request refused before or because of its intent leaves none and is not
\* answered ok.
THEOREM RefusalsLeaveNoIntent == Spec => []RefusedLeavesNoIntent
  <1>1. ASSUME IInv PROVE RefusedLeavesNoIntent
    <2> SUFFICES ASSUME ~torn, NEW k \in Conns,
                        conn[k].at = "answer", conn[k].why # "closing"
                 PROVE  Logged(k, "intent") = {} /\ conn[k].resp # "ok"
      BY DEF RefusedLeavesNoIntent
    <2>1. conn[k] \in InAnswer /\ conn[k].resp # "ok"
      BY <1>1, TaskOf, TaskShape DEF TaskFits
    <2>2. ShowsNone(k) \/ ShowsOne(k, "denied")
      BY <1>1, <2>1 DEF IInv, LogFitsTasks, Traced, InAnswer
    <2> QED
      BY <1>1, <2>1, <2>2, LoggedIs
  <1> QED
    BY <1>1, Invariance, PTL

\* The log and the client are told the same: the closing entry, the only one
\* and behind the intent, has the outcome of the answer.
THEOREM LogAgrees == Spec => []LogAgreesWithAnswer
  <1>1. ASSUME IInv PROVE LogAgreesWithAnswer
    <2> SUFFICES ASSUME ~torn, NEW k \in Conns, conn[k].at = "answer",
                        conn[k].why = "closing", conn[k].logged
                 PROVE  \E i, j \in 1..Len(file) :
                            /\ i < j
                            /\ Logged(k, "intent") = {i}
                            /\ ClosingEntries(k) = {j}
                            /\ Logged(k, [ok |-> "authorized", denied |-> "denied",
                                           error |-> "error"][conn[k].resp]) = {j}
      BY DEF LogAgreesWithAnswer
    <2>1. conn[k] \in InAnswer
      BY <1>1, TaskOf, TaskShape
    <2>2. PICK o : o = Outcome(conn[k].resp)
      OBVIOUS
    <2>3. o \in {"authorized", "denied", "error"}
      BY <2>1, <2>2 DEF InAnswer, Outcome
    <2>4. [ok |-> "authorized", denied |-> "denied", error |-> "error"][conn[k].resp] = o
      BY <2>1, <2>2 DEF InAnswer, Outcome
    <2>5. ShowsTwo(k, o)
      BY <1>1, <2>2 DEF IInv, LogFitsTasks, Traced
    <2>6. PICK i, j \in 1..Len(file) :
            /\ i < j
            /\ Logged(k, "intent") = {i} /\ Logged(k, o) = {j}
            /\ \A p : p \notin {"intent", o} => Logged(k, p) = {}
      BY <1>1, <2>3, <2>5, LoggedIs
    <2>7. ClosingEntries(k) = {j}
      BY <2>3, <2>6 DEF ClosingEntries
    <2> QED
      BY <2>4, <2>6, <2>7
  <1> QED
    BY <1>1, Invariance, PTL

-----------------------------------------------------------------------------
(***************************************************************************)
(* What AuditLogProofs and HsmClientProofs show of the parts holds in the  *)
(* gateway.                                                                *)
(***************************************************************************)
\* The chain of the gateway's log is intact unless appends of two connections
\* overlapped or a line was cut short, and it is always a tree
\* (AuditLog::append of src/src/audit.rs as process_line calls it).
THEOREM LogPromisesHold == Spec => [](A!ChainIntact /\ A!LinksNeverDangle)
  <1>1. ASSUME IInv PROVE A!ChainIntact /\ A!LinksNeverDangle
    <2>1. AP!ChainIntact /\ AP!LinksNeverDangle
      BY <1>1 DEF IInv, AP!IInv, AP!SequentialInv, AP!TreeInv, AP!ChainIntact,
                  AP!LinksNeverDangle
    <2>2. A!verify_chain(file) <=> AP!verify_chain(file)
      BY DEF A!verify_chain, AP!verify_chain, A!GENESIS, AP!GENESIS, A!entry_hash,
             AP!entry_hash
    <2> QED
      BY <2>1, <2>2 DEF A!ChainIntact, AP!ChainIntact, A!LinksNeverDangle,
             AP!LinksNeverDangle, A!GENESIS, AP!GENESIS
  <1> QED
    BY <1>1, Invariance, PTL

\* However the requests of the connections interleave in HsmClient: one call
\* at a time works on the token, logged in until it ends; a call that returned
\* leaves no session, login or derived key; only an overlap is refused.
THEOREM HsmPromisesHold ==
    Spec => [](/\ H!OneCallWorks /\ H!WorkIsLoggedIn /\ H!NothingIsLeft
               /\ H!DerivedKeyIsSessionLocal /\ H!OnlyOverlapIsBusy)
  <1>1. ASSUME IInv
        PROVE  /\ H!OneCallWorks /\ H!WorkIsLoggedIn /\ H!NothingIsLeft
               /\ H!DerivedKeyIsSessionLocal /\ H!OnlyOverlapIsBusy
    <2>1. HP!HolderInv /\ HP!DeriveInv /\ HP!AloneInv
      BY <1>1 DEF IInv, HP!IInv
    <2>2. H!Working = HP!Working
      BY DEF H!Working, HP!Working
    <2>3. H!OneCallWorks /\ H!WorkIsLoggedIn
      BY <2>1, <2>2 DEF HP!HolderInv, HP!Holders, H!OneCallWorks, H!WorkIsLoggedIn
    <2>4. H!NothingIsLeft
      BY <1>1, <2>1 DEF HP!HolderInv, HP!LoginHasSession, HP!DeriveInv, H!NothingIsLeft,
                        IInv, HP!IInv, HP!TypeOK
    <2>5. H!DerivedKeyIsSessionLocal
      BY <2>1 DEF HP!HolderInv, HP!Holders, HP!DeriveInv, HP!DeriveFunctions,
                  H!DerivedKeyIsSessionLocal
    <2>6. H!OnlyOverlapIsBusy
      BY <2>1 DEF HP!AloneInv, HP!OnlyOverlapIsBusy, H!OnlyOverlapIsBusy
    <2> QED
      BY <2>3, <2>4, <2>5, <2>6
  <1> QED
    BY <1>1, Invariance, PTL

-----------------------------------------------------------------------------
(***************************************************************************)
(* The gateway implements Pipeline.                                        *)
(***************************************************************************)
\* The refinement mapping, connection by connection.
Ans(k) == IF conn[k].at \in {"log", "executed", "answer"} THEN conn[k].resp ELSE "none"

View(k) == {o \in {"intent", "authorized", "denied", "error"} :
                served[k] > 0 /\ Logged(k, o) # {}}

\* Steps of Pipeline, in terms of the mapping.
SetTo(k, p, a) ==
    /\ Phase(k)' = p /\ Ans(k)' = a
    /\ \A m \in Conns : m # k => Phase(m)' = Phase(m) /\ Ans(m)' = Ans(m)

ShowsTo(k, S) ==
    ~torn' => /\ ~torn /\ View(k)' = S
              /\ \A m \in Conns : m # k => View(m)' = View(m)

LEMMA SetIs ==
    ASSUME NEW k \in Conns, NEW p, NEW a, SetTo(k, p, a)
    PROVE  P!Set(k, p, a)
  <1>1. [m \in Conns |-> Phase(m)]' = [[m \in Conns |-> Phase(m)] EXCEPT ![k] = p]
    BY DEF SetTo
  <1>2. [m \in Conns |-> Ans(m)]' = [[m \in Conns |-> Ans(m)] EXCEPT ![k] = a]
    BY DEF SetTo
  <1> QED
    BY <1>1, <1>2 DEF P!Set, Ans

LEMMA ShowsIs ==
    ASSUME NEW k \in Conns, NEW S, ShowsTo(k, S)
    PROVE  P!Shows(k, S)
  <1>1. [m \in Conns |-> View(m)]' \in [Conns -> SUBSET P!Outcomes]
    BY DEF View, P!Outcomes
  <1>2. CASE torn'
    BY <1>1, <1>2 DEF P!Shows, View
  <1>3. CASE ~torn'
    <2>1. [m \in Conns |-> View(m)]' = [[m \in Conns |-> View(m)] EXCEPT ![k] = S]
      BY <1>3 DEF ShowsTo
    <2> QED
      BY <1>3, <2>1 DEF P!Shows, View, ShowsTo
  <1> QED
    BY <1>2, <1>3

\* How far the request of a task t is.
PhaseAt(t, p) ==
    /\ t.at = "closed" => p = "closed"
    /\ t.at = "ready" => p = "ready"
    /\ t.at = "log" /\ t.why \in {"expiring", "too_long"} => p = "connecting"
    /\ t.at = "log" /\ t.why = "denied" => p = "refusing"
    /\ t.at = "log" /\ t.why = "intent" => p = "intending"
    /\ t.at = "log" /\ t.why = "closing" => p = "closing"
    /\ t.at = "run" => p = "using"
    /\ t.at = "executed" => p = "closing"
    /\ t.at = "answer" => p = "answering"

LEMMA PhaseIs ==
    ASSUME NEW k
    PROVE  PhaseAt(conn[k], Phase(k))
  <1>1. CASE conn[k].at = "closed"
    <2>1. Phase(k) = conn[k].at
      BY <1>1, Zenon DEF Phase
    <2> QED
      BY <1>1, <2>1 DEF PhaseAt
  <1>2. CASE conn[k].at = "ready"
    <2>1. Phase(k) = conn[k].at
      BY <1>2, Zenon DEF Phase
    <2> QED
      BY <1>2, <2>1 DEF PhaseAt
  <1>3. CASE conn[k].at = "log" /\ conn[k].why \in {"expiring", "too_long"}
    <2>1. Phase(k) = "connecting"
      BY <1>3, Zenon DEF Phase
    <2> QED
      BY <1>3, <2>1 DEF PhaseAt
  <1>4. CASE conn[k].at = "log" /\ conn[k].why = "denied"
    <2>1. Phase(k) = "refusing"
      BY <1>4, Zenon DEF Phase
    <2> QED
      BY <1>4, <2>1 DEF PhaseAt
  <1>5. CASE conn[k].at = "log" /\ conn[k].why = "intent"
    <2>1. Phase(k) = "intending"
      BY <1>5, Zenon DEF Phase
    <2> QED
      BY <1>5, <2>1 DEF PhaseAt
  <1>6. CASE conn[k].at = "log" /\ conn[k].why = "closing"
    <2>1. Phase(k) = "closing"
      BY <1>6, Zenon DEF Phase
    <2> QED
      BY <1>6, <2>1 DEF PhaseAt
  <1>7. CASE conn[k].at = "run"
    <2>1. Phase(k) = "using"
      BY <1>7, Zenon DEF Phase
    <2> QED
      BY <1>7, <2>1 DEF PhaseAt
  <1>8. CASE conn[k].at = "executed"
    <2>1. Phase(k) = "closing"
      BY <1>8, Zenon DEF Phase
    <2> QED
      BY <1>8, <2>1 DEF PhaseAt
  <1>9. CASE conn[k].at = "answer"
    <2>1. Phase(k) = "answering"
      BY <1>9, Zenon DEF Phase
    <2> QED
      BY <1>9, <2>1 DEF PhaseAt
  <1> QED
    BY <1>1, <1>2, <1>3, <1>4, <1>5, <1>6, <1>7, <1>8, <1>9 DEF PhaseAt

LEMMA PhaseNext ==
    ASSUME NEW k
    PROVE  PhaseAt(conn[k], Phase(k))'
  BY PhaseIs, PTL

\* A task that stays keeps its place in the mapping.
LEMMA SameTask ==
    ASSUME IInv, NEW m \in Conns, conn'[m] = conn[m]
    PROVE  Phase(m)' = Phase(m) /\ Ans(m)' = Ans(m)
  <1>1. PICK t : t = conn[m]
    OBVIOUS
  <1>2. t \in Task
    BY <1>1, TaskOf
  <1>3. /\ t.at \in {"closed", "ready", "log", "run", "executed", "answer"}
        /\ t.at = "log" => t.why \in {"expiring", "too_long", "denied", "intent", "closing"}
    BY <1>2, TaskShape DEF InLog
  <1>4. PhaseAt(t, Phase(m)) /\ PhaseAt(t, Phase(m)')
    BY <1>1, PhaseIs, PhaseNext
  <1>5. Phase(m)' = Phase(m)
    BY <1>3, <1>4 DEF PhaseAt
  <1> QED
    BY <1>5 DEF Ans

\* The task k goes to t.
LEMMA TaskSet ==
    ASSUME IInv, NEW k \in Conns, NEW t, NEW p, NEW a, conn' = [conn EXCEPT ![k] = t],
           \A q : PhaseAt(t, q) => q = p,
           a = IF t.at \in {"log", "executed", "answer"} THEN t.resp ELSE "none"
    PROVE  SetTo(k, p, a)
  <1>1. conn'[k] = t /\ \A m \in Conns : m # k => conn'[m] = conn[m]
    BY ConnAt
  <1>2. PhaseAt(t, Phase(k)')
    BY <1>1, PhaseNext
  <1>3. Phase(k)' = p /\ Ans(k)' = a
    BY <1>1, <1>2 DEF Ans
  <1> QED
    BY <1>1, <1>3, SameTask DEF SetTo

\* What the file shows of a request, by the mapping.
LEMMA SameView ==
    ASSUME NEW m, file' = file, served'[m] = served[m]
    PROVE  View(m)' = View(m)
  BY DEF View, Logged, Body

LEMMA TornStays ==
    ASSUME IInv, [Next]_vars, ~torn'
    PROVE  ~torn
  BY LogMoves DEF AP!Steps, AP!logVars, AP!Open, AP!Crash, AP!PowerLoss, AP!Begin, AP!WriteOk,
      AP!WriteFails, AP!WriteTorn, AP!TornLine, AP!Publish, AP!CrashMidWrite

LEMMA SameViews ==
    ASSUME IInv, [Next]_vars, NEW k \in Conns, ~torn' => file' = file, served' = served
    PROVE  ShowsTo(k, View(k))
  <1>1. ~torn' => \A m \in Conns : View(m)' = View(m)
    BY SameView
  <1> QED
    BY <1>1, TornStays DEF ShowsTo

\* A step that the mapping does not show.
LEMMA Quiet ==
    ASSUME UNCHANGED <<file, served, torn>>,
           \A m \in Conns : Phase(m)' = Phase(m) /\ Ans(m)' = Ans(m)
    PROVE  UNCHANGED P!pipelineVars
  <1>1. [m \in Conns |-> Phase(m)]' = [m \in Conns |-> Phase(m)]
    OBVIOUS
  <1>2. [m \in Conns |-> Ans(m)]' = [m \in Conns |-> Ans(m)]
    OBVIOUS
  <1>3. [m \in Conns |-> View(m)]' = [m \in Conns |-> View(m)]
    BY SameView
  <1> QED
    BY <1>1, <1>2, <1>3 DEF P!pipelineVars, Ans, View

\* The actions of Pipeline, in terms of the mapping.
LEMMA PipelineSteps ==
    ASSUME NEW k \in Conns
    PROVE  /\ /\ Phase(k) \in {"closed", "connecting"} /\ ShowsTo(k, View(k))
              /\ \E p \in {"connecting", "ready", "closed"} : SetTo(k, p, "none")
              => P!Connect(k)
           /\ /\ Phase(k) = "ready" /\ ShowsTo(k, {})
              /\ \/ SetTo(k, "refusing", "denied") \/ SetTo(k, "intending", "none")
                 \/ SetTo(k, "answering", "error")
              => P!Receive(k)
           /\ /\ Phase(k) = "intending" /\ ShowsTo(k, View(k))
              /\ \/ /\ ~torn => View(k) = {"intent"}
                    /\ SetTo(k, "using", "none") \/ SetTo(k, "closing", "error")
                 \/ /\ ~torn => View(k) = {}
                    /\ SetTo(k, "answering", "error")
              => P!Intended(k)
           /\ /\ Phase(k) = "using" /\ ShowsTo(k, View(k))
              /\ \E a \in P!Answers : SetTo(k, "closing", a)
              => P!Finish(k)
           /\ /\ Phase(k) \in {"refusing", "closing"} /\ ShowsTo(k, View(k))
              /\ SetTo(k, "answering", Ans(k))
              => P!Settle(k)
           /\ /\ Phase(k) \in {"answering", "ready"} /\ ShowsTo(k, View(k))
              /\ \E p \in {"ready", "closed"} : SetTo(k, p, "none")
              => P!Answer(k)
  <1>1. [m \in Conns |-> Phase(m)][k] = Phase(k)
    OBVIOUS
  <1>2. [m \in Conns |-> Ans(m)][k] = Ans(k)
    OBVIOUS
  <1>3. [m \in Conns |-> View(m)][k] = View(k)
    OBVIOUS
  <1>4. ShowsTo(k, View(k)) => P!Shows(k, [m \in Conns |-> View(m)][k])
    BY <1>3, ShowsIs
  <1>5. ShowsTo(k, {}) => P!Shows(k, {})
    BY ShowsIs
  <1>6. \A p, a : SetTo(k, p, a) => P!Set(k, p, a)
    BY SetIs
  <1>7. /\ Phase(k) \in {"closed", "connecting"} /\ ShowsTo(k, View(k))
        /\ \E p \in {"connecting", "ready", "closed"} : SetTo(k, p, "none")
        => P!Connect(k)
    BY <1>1, <1>4, <1>6 DEF P!Connect, View
  <1>8. /\ Phase(k) = "ready" /\ ShowsTo(k, {})
        /\ \/ SetTo(k, "refusing", "denied") \/ SetTo(k, "intending", "none")
           \/ SetTo(k, "answering", "error")
        => P!Receive(k)
    BY <1>1, <1>5, <1>6 DEF P!Receive
  <1>9. /\ Phase(k) = "intending" /\ ShowsTo(k, View(k))
        /\ \/ /\ ~torn => View(k) = {"intent"}
              /\ SetTo(k, "using", "none") \/ SetTo(k, "closing", "error")
           \/ /\ ~torn => View(k) = {}
              /\ SetTo(k, "answering", "error")
        => P!Intended(k)
    BY <1>1, <1>3, <1>4, <1>6 DEF P!Intended, View
  <1>10. /\ Phase(k) = "using" /\ ShowsTo(k, View(k))
         /\ \E a \in P!Answers : SetTo(k, "closing", a)
         => P!Finish(k)
    BY <1>1, <1>4, <1>6 DEF P!Finish, View
  <1>11. /\ Phase(k) \in {"refusing", "closing"} /\ ShowsTo(k, View(k))
         /\ SetTo(k, "answering", Ans(k))
         => P!Settle(k)
    <2> SUFFICES ASSUME Phase(k) \in {"refusing", "closing"}, ShowsTo(k, View(k)),
                        SetTo(k, "answering", Ans(k))
                 PROVE  P!Settle(k)
      OBVIOUS
    <2>1. PICK a : a = Ans(k)
      OBVIOUS
    <2>2. P!Set(k, "answering", a)
      BY <1>6, <2>1
    <2>3. a = [m \in Conns |-> IF conn[m].at \in {"log", "executed", "answer"}
                               THEN conn[m].resp ELSE "none"][k]
      BY <2>1 DEF Ans
    <2>4. P!Set(k, "answering",
                [m \in Conns |-> IF conn[m].at \in {"log", "executed", "answer"}
                                 THEN conn[m].resp ELSE "none"][k])
      BY <2>2, <2>3 DEF P!Set
    <2>5. P!Shows(k, [m \in Conns |-> {o \in {"intent", "authorized", "denied", "error"} :
                                            served[m] > 0 /\ Logged(m, o) # {}}][k])
      BY <1>4 DEF View
    <2>6. [m \in Conns |-> Phase(m)][k] \in {"refusing", "closing"}
      BY <1>1
    <2> QED
      BY <2>4, <2>5, <2>6 DEF P!Settle, P!Set, P!Shows
  <1>12. /\ Phase(k) \in {"answering", "ready"} /\ ShowsTo(k, View(k))
         /\ \E p \in {"ready", "closed"} : SetTo(k, p, "none")
         => P!Answer(k)
    BY <1>1, <1>4, <1>6 DEF P!Answer, View
  <1> QED
    BY <1>7, <1>8, <1>9, <1>10, <1>11, <1>12

-----------------------------------------------------------------------------
\* A line is added to the file.
LEMMA LoggedMore ==
    ASSUME NEW m, NEW e \in A!Lines, file \in Seq(A!Lines), file' = Append(file, e),
           served'[m] = served[m], NEW o
    PROVE  /\ e.body # Body(m, served[m], o) => Logged(m, o)' = Logged(m, o)
           /\ e.parses /\ e.body = Body(m, served[m], o) => Logged(m, o)' # {}
           /\ Logged(m, o) \subseteq Logged(m, o)'
  <1>1. /\ Len(file) \in Nat /\ Len(file') = Len(file) + 1
        /\ \A i \in 1..Len(file) : file'[i] = file[i]
        /\ file'[Len(file) + 1] = e
    BY AppendProperties, LenProperties
  <1>2. PICK b : b = Body(m, served[m], o)
    OBVIOUS
  <1>3. Body(m, served[m], o)' = b
    BY <1>2 DEF Body
  <1>4. /\ Logged(m, o) = {i \in 1..Len(file) : file[i].parses /\ file[i].body = b}
        /\ Logged(m, o)' = {i \in 1..Len(file') : file'[i].parses /\ file'[i].body = b}
    BY <1>2, <1>3 DEF Logged
  <1>5. 1..Len(file') = 1..Len(file) \cup {Len(file) + 1}
    BY <1>1
  <1>6. ASSUME e.body # b PROVE Logged(m, o)' = Logged(m, o)
    BY <1>1, <1>4, <1>5, <1>6
  <1>7. ASSUME e.parses, e.body = b PROVE Len(file) + 1 \in Logged(m, o)'
    BY <1>1, <1>4, <1>5, <1>7
  <1>8. Logged(m, o) \subseteq Logged(m, o)'
    BY <1>1, <1>4, <1>5
  <1> QED
    BY <1>2, <1>6, <1>7, <1>8

LEMMA ViewOther ==
    ASSUME NEW m, NEW e \in A!Lines, file \in Seq(A!Lines), file' = Append(file, e),
           served'[m] = served[m],
           e.body.conn = m => e.body.n # served[m] \/ ~(served[m] > 0)
    PROVE  View(m)' = View(m)
  <1>1. CASE ~(served[m] > 0)
    BY <1>1 DEF View
  <1>2. CASE ~(e.body.conn = m /\ e.body.n = served[m])
    <2>1. \A o : e.body # Body(m, served[m], o)
      BY <1>2 DEF Body
    <2>2. \A o : Logged(m, o)' = Logged(m, o)
      BY <2>1, LoggedMore
    <2> QED
      BY <2>2 DEF View
  <1> QED
    BY <1>1, <1>2

LEMMA ViewMore ==
    ASSUME NEW k, NEW o \in {"intent", "authorized", "denied", "error"},
           NEW e \in A!Lines, file \in Seq(A!Lines), file' = Append(file, e),
           served'[k] = served[k], served[k] > 0,
           e.parses, e.body = Body(k, served[k], o)
    PROVE  View(k)' = View(k) \cup {o}
  <1>1. Logged(k, o)' # {}
    BY LoggedMore
  <1>2. ASSUME NEW p, p # o PROVE Logged(k, p)' = Logged(k, p)
    <2>1. e.body # Body(k, served[k], p)
      BY <1>2 DEF Body
    <2> QED
      BY <2>1, LoggedMore
  <1> QED
    BY <1>1, <1>2 DEF View

\* A request is seen as far as its task has written.
LEMMA ViewIs ==
    ASSUME IInv, ~torn, NEW k \in Conns, served[k] > 0
    PROVE  /\ ShowsNone(k) => View(k) = {}
           /\ ShowsOne(k, "intent") => View(k) = {"intent"}
  <1>1. ASSUME ShowsNone(k) PROVE View(k) = {}
    BY <1>1, LoggedIs DEF View
  <1>2. ASSUME ShowsOne(k, "intent") PROVE View(k) = {"intent"}
    <2>1. Logged(k, "intent") # {} /\ \A p : p # "intent" => Logged(k, p) = {}
      BY <1>2, LoggedIs
    <2> QED
      BY <2>1 DEF View
  <1> QED
    BY <1>1, <1>2

LEMMA FreshView ==
    ASSUME NEW k, ShowsNone(k)'
    PROVE  View(k)' = {}
  <1>1. \A n, o : Body(k, n, o).conn = k /\ Body(k, n, o).n = n
    BY DEF Body
  <1>2. \A o : Logged(k, o)' = {}
    BY <1>1 DEF ShowsNone, About, Logged
  <1> QED
    BY <1>2 DEF View

-----------------------------------------------------------------------------
\* The steps of a task, as steps of Pipeline.
LEMMA ReadyMaps ==
    ASSUME IInv, [Next]_vars, NEW k \in Conns,
           \/ Accept(k) \/ Disconnect(k) \/ Answer(k)
           \/ \E cert \in Certs : AcceptAudited(k, cert)
    PROVE  P!Connect(k) \/ P!Answer(k)
  <1>1. PhaseAt(conn[k], Phase(k))
    BY PhaseIs
  <1>2. CASE Accept(k) \/ Disconnect(k) \/ Answer(k)
    <2>1. PICK t \in {Ready, Closed} : conn' = [conn EXCEPT ![k] = t]
      BY <1>2 DEF Accept, Disconnect, Answer
    <2>2. PICK p : p = t.at
      OBVIOUS
    <2>3. t.at \in {"ready", "closed"}
      BY DEF Ready, Closed
    <2>4. SetTo(k, p, "none") /\ p \in {"ready", "closed"}
      BY <2>1, <2>2, <2>3, TaskSet DEF PhaseAt
    <2>5. UNCHANGED <<file, served>>
      BY <1>2 DEF Accept, Disconnect, Answer, logVars
    <2>6. ShowsTo(k, View(k))
      BY <2>5, SameViews
    <2>7. Phase(k) \in {"closed", "ready", "answering"}
      BY <1>1, <1>2 DEF Accept, Disconnect, Answer, Closed, Ready, PhaseAt
    <2> QED
      BY <2>4, <2>6, <2>7, PipelineSteps
  <1>3. ASSUME NEW cert, AcceptAudited(k, cert) PROVE P!Connect(k)
    <2>1. PICK t, b : /\ t = Logging(cert, << >>, "none") /\ A!Begin(k, b)
                      /\ cert \in {"expiring", "too_long"}
                      /\ conn' = [conn EXCEPT ![k] = t]
      BY <1>3 DEF AcceptAudited
    <2>2. t.at = "log" /\ t.why \in {"expiring", "too_long"} /\ t.resp = "none"
      BY <2>1 DEF Logging
    <2>3. SetTo(k, "connecting", "none")
      BY <2>1, <2>2, TaskSet DEF PhaseAt
    <2>4. UNCHANGED <<file, served>>
      BY <1>3, <2>1, BeginCalls, TaskOf DEF AcceptAudited
    <2>5. ShowsTo(k, View(k))
      BY <2>4, SameViews
    <2>6. Phase(k) = "closed"
      BY <1>1, <1>3 DEF AcceptAudited, Closed, PhaseAt
    <2> QED
      BY <2>3, <2>5, <2>6, PipelineSteps
  <1> QED
    BY <1>2, <1>3

LEMMA ReceiveMaps ==
    ASSUME IInv, [Next]_vars, NEW k \in Conns, NEW line \in Requests,
           ReceiveMalformed(k, line) \/ ReceiveDenied(k, line) \/ ReceiveCleared(k, line)
    PROVE  P!Receive(k)
  <1>1. Receive(k) /\ conn[k] = Ready
    BY DEF ReceiveMalformed, ReceiveDenied, ReceiveCleared, Receive
  <1>2. Phase(k) = "ready"
    BY <1>1, PhaseIs DEF Ready, PhaseAt
  <1>3. file' = file
    BY BeginCalls, TaskOf DEF ReceiveMalformed, ReceiveDenied, ReceiveCleared, logVars
  <1>4. ShowsTo(k, {})
    <2> SUFFICES ASSUME ~torn'
                 PROVE  /\ ~torn /\ View(k)' = {}
                        /\ \A m \in Conns : m # k => View(m)' = View(m)
      BY DEF ShowsTo
    <2>1. ~torn
      BY TornStays
    <2>2. View(k)' = {}
      BY <1>1, <1>3, <2>1, FreshRequest, FreshView
    <2> QED
      BY <1>1, <1>3, <2>1, <2>2, Received, SameView
  <1>5. CASE ReceiveMalformed(k, line)
    <2>1. PICK t : t = Answering(line, "error", "malformed", FALSE)
      OBVIOUS
    <2>2. conn' = [conn EXCEPT ![k] = t]
      BY <1>5, <2>1 DEF ReceiveMalformed
    <2>3. t.at = "answer" /\ t.resp = "error"
      BY <2>1 DEF Answering
    <2>4. SetTo(k, "answering", "error")
      BY <2>2, <2>3, TaskSet DEF PhaseAt
    <2> QED
      BY <1>2, <1>4, <2>4, PipelineSteps
  <1>6. CASE ReceiveDenied(k, line)
    <2>1. PICK t : t = Logging("denied", line, "denied")
      OBVIOUS
    <2>2. conn' = [conn EXCEPT ![k] = t]
      BY <1>6, <2>1 DEF ReceiveDenied
    <2>3. t.at = "log" /\ t.why = "denied" /\ t.resp = "denied"
      BY <2>1 DEF Logging
    <2>4. SetTo(k, "refusing", "denied")
      BY <2>2, <2>3, TaskSet DEF PhaseAt
    <2> QED
      BY <1>2, <1>4, <2>4, PipelineSteps
  <1>7. CASE ReceiveCleared(k, line)
    <2>1. PICK t : t = Logging("intent", line, "none")
      OBVIOUS
    <2>2. conn' = [conn EXCEPT ![k] = t]
      BY <1>7, <2>1 DEF ReceiveCleared
    <2>3. t.at = "log" /\ t.why = "intent" /\ t.resp = "none"
      BY <2>1 DEF Logging
    <2>4. SetTo(k, "intending", "none")
      BY <2>2, <2>3, TaskSet DEF PhaseAt
    <2> QED
      BY <1>2, <1>4, <2>4, PipelineSteps
  <1> QED
    BY <1>5, <1>6, <1>7

LEMMA HsmMaps ==
    ASSUME IInv, [Next]_vars, NEW k \in Conns, HsmReturns(k)
    PROVE  P!Finish(k) \/ UNCHANGED P!pipelineVars
  <1>1. UNCHANGED <<served, file, torn>>
    BY DEF HsmReturns, logVars
  <1>2. PICK t : t = AfterHsm(k, work[k].result)
    OBVIOUS
  <1>3. work[k].at = "returned" /\ conn' = [conn EXCEPT ![k] = t]
    BY <1>2 DEF HsmReturns, H!Take
  <1>4. conn[k].at = "run"
    BY <1>3, TaskOf DEF Placed, H!Idle
  <1>5. Phase(k) = "using" /\ Ans(k) = "none"
    BY <1>4, PhaseIs DEF PhaseAt, Ans
  <1>6. CASE t = Running(conn[k].req, Tail(conn[k].plan))
    <2>1. t.at = "run"
      BY <1>6 DEF Running
    <2>2. SetTo(k, "using", "none")
      BY <1>3, <2>1, TaskSet DEF PhaseAt
    <2> QED
      BY <1>1, <1>5, <2>2, Quiet DEF SetTo
  <1>7. ASSUME NEW resp \in {"ok", "denied", "error"}, t = Executed(conn[k].req, resp)
        PROVE  P!Finish(k)
    <2>1. t.at = "executed" /\ t.resp = resp
      BY <1>7 DEF Executed
    <2>2. SetTo(k, "closing", resp) /\ resp \in P!Answers
      BY <1>3, <2>1, TaskSet DEF PhaseAt, P!Answers
    <2>3. ShowsTo(k, View(k))
      BY <1>1, SameViews
    <2> QED
      BY <1>5, <2>2, <2>3, PipelineSteps
  <1> QED
    BY <1>2, <1>3, <1>6, <1>7, AfterHsmIs

LEMMA CloseMaps ==
    ASSUME IInv, NEW k \in Conns, CloseRequest(k)
    PROVE  UNCHANGED P!pipelineVars
  <1>1. PICK t, b, resp :
            /\ resp = conn[k].resp /\ t = Logging("closing", conn[k].req, resp)
            /\ A!Begin(k, b) /\ conn' = [conn EXCEPT ![k] = t]
    BY DEF CloseRequest
  <1>2. t.at = "log" /\ t.why = "closing" /\ t.resp = resp
    BY <1>1 DEF Logging
  <1>3. SetTo(k, "closing", resp)
    BY <1>1, <1>2, TaskSet DEF PhaseAt
  <1>4. UNCHANGED <<file, served, torn>>
    BY <1>1, BeginCalls, TaskOf DEF CloseRequest
  <1>5. Phase(k) = "closing" /\ Ans(k) = resp
    BY <1>1, PhaseIs DEF CloseRequest, PhaseAt, Ans
  <1> QED
    BY <1>3, <1>4, <1>5, Quiet DEF SetTo

\* The entry of a task enters the file.
LEMMA AppendWritesMaps ==
    ASSUME IInv, [Next]_vars, NEW k \in Conns, AppendWrites(k)
    PROVE  P!Log(k)
  <1>1. A!TypeOK /\ A!WriteOk(k) /\ UNCHANGED <<conn, served>>
    BY TaskOf DEF AppendWrites, gatewayVars
  <1>2. calls[k] # A!NoCall /\ file' = A!WithLine(A!EntryOf(k))
    BY <1>1, WriteCalls
  <1>3. /\ conn[k].at = "log" /\ LogFits(k, conn[k]) /\ conn[k] \in InLog
        /\ conn[k].why \in {"denied", "intent", "closing"} => served[k] > 0
    BY <1>2, TaskInLog
  <1>4. PICK e : e = A!EntryOf(k)
    OBVIOUS
  <1>5. e \in A!Lines /\ e.parses /\ e.body = calls[k].body /\ e.body.conn = k
    BY <1>1, <1>2, <1>3, <1>4, CallShape DEF LogFits
  <1>6. ASSUME ~torn'
        PROVE  ~torn /\ file' = Append(file, e) /\ file \in Seq(A!Lines)
    <2>1. ~torn
      BY <1>6, TornStays
    <2>2. newline
      BY <2>1 DEF IInv, LogFitsTasks, FileFits
    <2> QED
      BY <1>1, <1>2, <1>4, <2>1, <2>2, FileLines DEF A!WithLine
  <1>7. ASSUME ~torn' PROVE \A m \in Conns : m # k => View(m)' = View(m)
    BY <1>1, <1>5, <1>6, <1>7, ViewOther
  <1>8. ASSUME NEW o \in {"intent", "authorized", "denied", "error"},
               e.body = Body(k, served[k], o), served[k] > 0
        PROVE  ShowsTo(k, View(k) \cup {o})
    <2>1. ASSUME ~torn' PROVE View(k)' = View(k) \cup {o}
      BY <1>1, <1>5, <1>6, <1>8, <2>1, ViewMore
    <2> QED
      BY <1>6, <1>7, <2>1 DEF ShowsTo
  <1>9. UNCHANGED [m \in Conns |-> Phase(m)] /\ UNCHANGED [m \in Conns |-> Ans(m)]
    <2>1. \A m \in Conns : Phase(m)' = Phase(m) /\ Ans(m)' = Ans(m)
      BY <1>1, SameTask
    <2> QED
      BY <2>1
  <1>10. PhaseAt(conn[k], Phase(k)) /\ Ans(k) = conn[k].resp
    BY <1>3, PhaseIs DEF Ans
  <1>11. /\ [m \in Conns |-> Phase(m)][k] = Phase(k)
         /\ [m \in Conns |-> Ans(m)][k] = Ans(k)
         /\ [m \in Conns |-> View(m)][k] = View(k)
    OBVIOUS
  <1>12. CASE conn[k].why \in {"expiring", "too_long"}
    <2>1. Phase(k) = "connecting" /\ e.body.n = 0
      BY <1>3, <1>5, <1>10, <1>12 DEF PhaseAt, LogFits
    <2>2. ASSUME ~torn' PROVE View(k)' = View(k)
      BY <1>1, <1>5, <1>6, <2>1, <2>2, ViewOther
    <2>3. ShowsTo(k, View(k))
      BY <1>6, <1>7, <2>2 DEF ShowsTo
    <2>4. P!Shows(k, [m \in Conns |-> View(m)][k])
      BY <1>11, <2>3, ShowsIs
    <2> QED
      BY <1>9, <1>11, <2>1, <2>4 DEF P!Log, View, Ans
  <1>13. CASE conn[k].why = "denied"
    <2>1. Phase(k) = "refusing" /\ e.body = Body(k, served[k], "denied")
      BY <1>3, <1>5, <1>10, <1>13 DEF PhaseAt, LogFits
    <2>2. P!Shows(k, View(k) \cup {"denied"})
      BY <1>3, <1>8, <1>13, <2>1, ShowsIs
    <2>3. P!Shows(k, [m \in Conns |-> View(m)][k] \cup {"denied"})
      BY <1>11, <2>2
    <2> QED
      BY <1>9, <1>11, <2>1, <2>3 DEF P!Log, View, Ans
  <1>14. CASE conn[k].why = "intent"
    <2>1. Phase(k) = "intending" /\ e.body = Body(k, served[k], "intent")
      BY <1>3, <1>5, <1>10, <1>14 DEF PhaseAt, LogFits
    <2>2. P!Shows(k, View(k) \cup {"intent"})
      BY <1>3, <1>8, <1>14, <2>1, ShowsIs
    <2>3. P!Shows(k, [m \in Conns |-> View(m)][k] \cup {"intent"})
      BY <1>11, <2>2
    <2> QED
      BY <1>9, <1>11, <2>1, <2>3 DEF P!Log, View, Ans
  <1>15. CASE conn[k].why = "closing"
    <2>1. PICK o : o = IF Ans(k) = "ok" THEN "authorized" ELSE Ans(k)
      OBVIOUS
    <2>2. /\ Phase(k) = "closing" /\ o \in {"authorized", "denied", "error"}
          /\ e.body = Body(k, served[k], o)
      BY <1>3, <1>5, <1>10, <1>15, <2>1 DEF PhaseAt, LogFits, InLog, Outcome
    <2>3. P!Shows(k, View(k) \cup {o})
      BY <1>3, <1>8, <1>15, <2>2, ShowsIs
    <2>4. P!Shows(k, [m \in Conns |-> View(m)][k] \cup {o})
      BY <1>11, <2>3
    <2>5. o = IF [m \in Conns |-> Ans(m)][k] = "ok" THEN "authorized"
              ELSE [m \in Conns |-> Ans(m)][k]
      BY <1>11, <2>1
    <2> QED
      BY <1>9, <1>11, <2>2, <2>4, <2>5 DEF P!Log, View, Ans
  <1> QED
    BY <1>3, <1>12, <1>13, <1>14, <1>15 DEF InLog

\* append returns.
LEMMA AppendReturnsMaps ==
    ASSUME IInv, [Next]_vars, NEW k \in Conns, AppendOk(k) \/ AppendFails(k)
    PROVE  P!Connect(k) \/ P!Intended(k) \/ P!Settle(k)
  <1>1. PICK ok \in BOOLEAN :
            /\ conn' = [conn EXCEPT ![k] = AfterAppend(k, ok)]
            /\ ok => A!Publish(k)
            /\ ~ok => A!WriteFails(k) \/ A!WriteTorn(k)
    BY DEF AppendOk, AppendFails
  <1>2. PICK t : t = AfterAppend(k, ok)
    OBVIOUS
  <1>3. conn' = [conn EXCEPT ![k] = t] /\ served' = served
    BY <1>1, <1>2 DEF AppendOk, AppendFails
  <1>4. /\ calls[k] # A!NoCall
        /\ ~torn' => file' = file
        /\ ok => calls[k].at = "wrote"
        /\ ~ok => calls[k].at = "read"
    <2>1. calls[k] # A!NoCall /\ (~torn' => file' = file)
      BY <1>1, EndCalls, TaskOf
    <2> QED
      BY <1>1, <2>1 DEF A!Publish, A!WriteFails, A!WriteTorn, A!TornLine
  <1>5. ShowsTo(k, View(k))
    BY <1>3, <1>4, SameViews
  <1>6. /\ conn[k].at = "log" /\ conn[k] \in InLog /\ LogFits(k, conn[k])
        /\ conn[k].why \in {"denied", "intent", "closing"} => served[k] > 0
    BY <1>4, TaskInLog
  <1>7. PhaseAt(conn[k], Phase(k)) /\ Ans(k) = conn[k].resp
    BY <1>6, PhaseIs DEF Ans
  <1>8. CASE conn[k].why \in {"expiring", "too_long"}
    <2>1. t.at \in {"ready", "closed"}
      BY <1>2, <1>8, AfterAppendIs DEF Ready, Closed
    <2>2. PICK p : p = t.at
      OBVIOUS
    <2>3. SetTo(k, p, "none")
      BY <1>3, <2>1, <2>2, TaskSet DEF PhaseAt
    <2>4. Phase(k) = "connecting"
      BY <1>6, <1>7, <1>8 DEF PhaseAt
    <2> QED
      BY <1>5, <2>1, <2>2, <2>3, <2>4, PipelineSteps
  <1>9. CASE conn[k].why = "intent" /\ ~ok
    <2>1. t = Answering(conn[k].req, "error", "intent", ok)
      BY <1>2, <1>9, AfterAppendIs
    <2>2. t.at = "answer" /\ t.resp = "error"
      BY <2>1 DEF Answering
    <2>3. SetTo(k, "answering", "error")
      BY <1>3, <2>2, TaskSet DEF PhaseAt
    <2>4. ASSUME ~torn PROVE View(k) = {}
      <3>1. ShowsNone(k)
        BY <1>4, <1>6, <1>9, <2>4 DEF IInv, LogFitsTasks, Traced
      <3> QED
        BY <1>6, <1>9, <2>4, <3>1, ViewIs
    <2>5. Phase(k) = "intending"
      BY <1>6, <1>7, <1>9 DEF PhaseAt
    <2> QED
      BY <1>5, <2>3, <2>4, <2>5, PipelineSteps
  <1>10. CASE conn[k].why = "intent" /\ ok
    <2>1. SetTo(k, "using", "none") \/ SetTo(k, "closing", "error")
      <3>1. CASE conn[k].req.valid
        <4>1. t = Running(conn[k].req, Plan(conn[k].req))
          BY <1>2, <1>10, <3>1, AfterAppendIs
        <4>2. t.at = "run"
          BY <4>1 DEF Running
        <4> QED
          BY <1>3, <4>2, TaskSet DEF PhaseAt
      <3>2. CASE ~conn[k].req.valid
        <4>1. t = Executed(conn[k].req, "error")
          BY <1>2, <1>10, <3>2, AfterAppendIs
        <4>2. t.at = "executed" /\ t.resp = "error"
          BY <4>1 DEF Executed
        <4> QED
          BY <1>3, <4>2, TaskSet DEF PhaseAt
      <3> QED
        BY <3>1, <3>2
    <2>2. ASSUME ~torn PROVE View(k) = {"intent"}
      <3>1. ShowsOne(k, "intent")
        BY <1>4, <1>6, <1>10, <2>2 DEF IInv, LogFitsTasks, Traced
      <3> QED
        BY <1>6, <1>10, <2>2, <3>1, ViewIs
    <2>3. Phase(k) = "intending"
      BY <1>6, <1>7, <1>10 DEF PhaseAt
    <2> QED
      BY <1>5, <2>1, <2>2, <2>3, PipelineSteps
  <1>11. CASE conn[k].why \in {"denied", "closing"}
    <2>1. t = Answering(conn[k].req, conn[k].resp, conn[k].why, ok)
      BY <1>2, <1>11, AfterAppendIs
    <2>2. PICK a : a = conn[k].resp
      OBVIOUS
    <2>3. t.at = "answer" /\ t.resp = a
      BY <2>1, <2>2 DEF Answering
    <2>4. SetTo(k, "answering", a)
      BY <1>3, <2>3, TaskSet DEF PhaseAt
    <2>5. Phase(k) \in {"refusing", "closing"}
      BY <1>6, <1>7, <1>11 DEF PhaseAt
    <2> QED
      BY <1>5, <1>7, <2>2, <2>4, <2>5, PipelineSteps
  <1> QED
    BY <1>6, <1>8, <1>9, <1>10, <1>11 DEF InLog

\* The process ends.
LEMMA ExitMaps ==
    ASSUME IInv, [Next]_vars, Exit
    PROVE  P!Crash
  <1>1. served' = served /\ \A k \in Conns : conn'[k] = Closed
    BY DEF Exit
  <1>2. \A k \in Conns : Phase(k)' = "closed" /\ Ans(k)' = "none"
    BY <1>1, PhaseNext DEF Closed, PhaseAt, Ans
  <1>3. /\ [k \in Conns |-> Phase(k)]' = [k \in Conns |-> "closed"]
        /\ [k \in Conns |-> Ans(k)]' = [k \in Conns |-> "none"]
    BY <1>2
  <1>4. [k \in Conns |-> View(k)]' \in [Conns -> SUBSET P!Outcomes]
    BY DEF View, P!Outcomes
  <1>5. ASSUME ~torn', NEW k \in Conns PROVE View(k)' \subseteq View(k)
    <2>1. CASE A!Crash
      BY <1>1, <2>1, SameView DEF A!Crash
    <2>2. CASE A!PowerLoss
      <3>1. PICK n \in 1..Len(file) : file' = SubSeq(file, 1, n - 1)
        BY <1>5, <2>2 DEF A!PowerLoss
      <3>2. Len(file) \in Nat /\ n - 1 \in 0..Len(file) /\ file \in Seq(A!Lines)
        BY FileLines, PartTypes DEF IInv
      <3>3. /\ Len(file') = n - 1
            /\ \A i \in 1..(n - 1) : file'[i] = file[i] /\ i \in 1..Len(file)
        <4>1. /\ \A i \in 1..(n - 1) : 1 + i - 1 = i /\ i \in 1..Len(file)
              /\ n - 1 = n - 1 - 1 + 1
          BY <3>2
        <4> QED
          BY <3>1, <3>2, <4>1
      <3>4. ASSUME NEW o PROVE Logged(k, o)' \subseteq Logged(k, o)
        <4>1. PICK b : b = Body(k, served[k], o)
          OBVIOUS
        <4>2. Body(k, served[k], o)' = b
          BY <1>1, <4>1 DEF Body
        <4> QED
          BY <3>3, <4>1, <4>2 DEF Logged
      <3>5. \A o : Logged(k, o)' # {} => Logged(k, o) # {}
        BY <3>4
      <3> QED
        BY <1>1, <3>5 DEF View
    <2>3. ASSUME NEW m \in Conns, A!CrashMidWrite(m) PROVE FALSE
      BY <1>5, <2>3 DEF A!CrashMidWrite, A!TornLine
    <2> QED
      BY <2>1, <2>2, <2>3 DEF Exit
  <1>6. CASE torn'
    BY <1>3, <1>4, <1>6 DEF P!Crash, Ans, View
  <1>7. CASE ~torn'
    <2>1. ~torn
      BY <1>7, TornStays
    <2>2. \A k \in Conns : [m \in Conns |-> View(m)]'[k] \subseteq [m \in Conns |-> View(m)][k]
      BY <1>5, <1>7
    <2> QED
      BY <1>3, <1>7, <2>1, <2>2 DEF P!Crash, Ans, View
  <1> QED
    BY <1>6, <1>7

\* Every step of the gateway is a step of Pipeline, or none.
LEMMA NextMaps ==
    ASSUME IInv, [Next]_vars
    PROVE  [P!Next]_P!pipelineVars
  <1>1. CASE Start \/ MoveToken \/ UNCHANGED vars
    <2>1. UNCHANGED <<conn, served, file, torn>>
      BY <1>1 DEF Start, MoveToken, vars, gatewayVars, logVars, A!Open
    <2> QED
      BY <2>1, SameTask, Quiet
  <1>2. CASE Exit
    BY <1>2, ExitMaps DEF P!Next
  <1>3. ASSUME NEW k \in Conns, \/ Accept(k) \/ Disconnect(k) \/ Answer(k)
                                \/ \E cert \in Certs : AcceptAudited(k, cert)
        PROVE  P!Next
    BY <1>3, ReadyMaps DEF P!Next
  <1>4. ASSUME NEW k \in Conns, NEW line \in Requests,
               ReceiveMalformed(k, line) \/ ReceiveDenied(k, line) \/ ReceiveCleared(k, line)
        PROVE  P!Next
    BY <1>4, ReceiveMaps DEF P!Next
  <1>5. ASSUME NEW k \in Conns, AppendWrites(k) PROVE P!Next
    BY <1>5, AppendWritesMaps DEF P!Next
  <1>6. ASSUME NEW k \in Conns, AppendOk(k) \/ AppendFails(k) PROVE P!Next
    BY <1>6, AppendReturnsMaps DEF P!Next
  <1>7. ASSUME NEW k \in Conns, CloseRequest(k) PROVE UNCHANGED P!pipelineVars
    BY <1>7, CloseMaps
  <1>8. ASSUME NEW k \in Conns, HsmReturns(k) PROVE P!Next \/ UNCHANGED P!pipelineVars
    BY <1>8, HsmMaps DEF P!Next
  <1>9. ASSUME NEW k \in Conns, HsmCall(k) \/ HsmSteps(k) \/ HsmFails(k)
        PROVE  UNCHANGED P!pipelineVars
    <2>1. UNCHANGED <<conn, served, file, torn>>
      BY <1>9 DEF HsmCall, HsmSteps, HsmFails, gatewayVars, logVars
    <2> QED
      BY <2>1, SameTask, Quiet
  <1> QED
    BY <1>1, <1>2, <1>3, <1>4, <1>5, <1>6, <1>7, <1>8, <1>9 DEF Next, Proceed

LEMMA InitMaps ==
    ASSUME Init
    PROVE  P!Init
  <1>1. /\ \A k \in Conns : conn[k] = Closed /\ served[k] = 0
        /\ torn = FALSE
    BY DEF Init, A!Init
  <1>2. \A k \in Conns : Phase(k) = "closed" /\ Ans(k) = "none" /\ View(k) = {}
    BY <1>1, PhaseIs DEF Closed, PhaseAt, Ans, View
  <1>3. /\ [k \in Conns |-> Phase(k)] = [k \in Conns |-> "closed"]
        /\ [k \in Conns |-> Ans(k)] = [k \in Conns |-> "none"]
        /\ [k \in Conns |-> View(k)] = [k \in Conns |-> {}]
    BY <1>2
  <1> QED
    BY <1>1, <1>3 DEF P!Init, Ans, View

\* The gateway keeps the promise of Pipeline for any number of connections,
\* requests, lines and faults: authorization, intent, HSM, closing entry and
\* answer follow each other as the head of src/src/server.rs says, whatever
\* other connections, the disk and the token do meanwhile.
THEOREM KeepsPipeline == Spec => ImplementsPipeline
  <1>1. Init => P!Init
    BY InitMaps
  <1>2. IInv /\ [Next]_vars => [P!Next]_P!pipelineVars
    BY NextMaps
  <1> QED
    BY <1>1, <1>2, Invariance, PTL DEF Spec, ImplementsPipeline, P!Spec
=============================================================================
