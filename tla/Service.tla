------------------------------ MODULE Service ------------------------------
(***************************************************************************)
(* The process around the gateway: its environment, its start, the accept  *)
(* loop (src/src/main.rs), the certificate policy (src/src/server.rs), and *)
(* the tokio threads that connections share, with time passing.            *)
(*                                                                         *)
(* Connections are tasks.  Whatever a task does it does on one of the      *)
(* worker threads, between two awaits in one go.  HSM calls either go to   *)
(* the blocking pool while the task waits, or, for the seal and its check, *)
(* are made on the worker, which nobody else can use meanwhile.  The       *)
(* accept loop runs on the main thread.                                    *)
(***************************************************************************)
EXTENDS Integers, Sequences, FiniteSets

CONSTANTS
    Conns,       \* connections
    Cns,         \* clients
    NoCn,        \* stands for a certificate without a usable CN
    Certs,       \* certificates: [cn, not_before, not_after], times in ticks
    Day,         \* ticks of a day
    Envs,        \* environments the process may be started in
    Workers,     \* number of worker threads
    MaxTime      \* bound on time

ASSUME ServiceConstants ==
    /\ IsFiniteSet(Conns)
    /\ NoCn \notin Cns
    /\ Certs \subseteq [cn : Cns \cup {NoCn}, not_before : Int, not_after : Int]
    /\ Envs \subseteq [usable : BOOLEAN, max : SUBSET Int, warn : SUBSET Int]
    /\ Day \in Nat \ {0} /\ Workers \in Nat \ {0} /\ MaxTime \in Nat

VARIABLES
    now,
    clients,     \* the CNs in the clients file
    stage,       \* "down", "starting" or "listening"
    gateway,     \* what the process was started with: its table and limits
    since,       \* history: when it loaded the table, and the CNs in the file since
    conn         \* per connection, where its task is

vars == <<now, clients, stage, gateway, since, conn>>

-----------------------------------------------------------------------------
(***************************************************************************)
(* The environment.  A days variable is unset, {}, or holds a number;      *)
(* usable says that the required ones are set and the numbers parse.       *)
(***************************************************************************)
days_var(var, default) == IF var = {} THEN default ELSE CHOOSE n \in var : TRUE

\* What Gateway::new gets of it.
Limits(env) == [max_days |-> days_var(env.max, 90), warn_days |-> days_var(env.warn, 14)]

-----------------------------------------------------------------------------
(***************************************************************************)
(* Certificates.                                                           *)
(***************************************************************************)
\* Mutant of num_days: rounded up.
num_days_up(ticks) == -((-ticks) \div Day)

\* Whole days, truncated towards zero.
num_days(ticks) == IF ticks >= 0 THEN ticks \div Day ELSE -((-ticks) \div Day)

\* peer_leaf_cert and cert_cn return Ok.
HasCn(cert) == cert.cn # NoCn

validity_days(cert) == num_days(cert.not_after - cert.not_before)

days_left(cert) == num_days(cert.not_after - now)

-----------------------------------------------------------------------------
(***************************************************************************)
(* Tasks.                                                                  *)
(***************************************************************************)
None == [at |-> "none"]

\* The HSM calls of a request, by the thread they are made on.
Calls == {<<"pool">>, <<"pool", "worker">>, <<"worker", "pool">>}

FreeWorker == Cardinality({k \in Conns : conn[k].at = "worker"}) < Workers

\* What is left to do before a task waits for the next line.
GoOn(c, rest) ==
    IF rest = << >> THEN [c EXCEPT !.at = "ready", !.todo = << >>]
    ELSE [c EXCEPT !.at = Head(rest), !.todo = Tail(rest)]

Serving(k) == conn[k].at \in {"ready", "pool", "resume", "worker"}

-----------------------------------------------------------------------------
(***************************************************************************)
(* The process.                                                            *)
(***************************************************************************)
\* main loads the environment and the clients file; an error ends it.
Load(env) ==
    /\ stage = "down"
    /\ env.usable
    /\ stage' = "starting"
    /\ gateway' = [table |-> clients, limits |-> Limits(env)]
    /\ since' = [time |-> now, cns |-> clients]
    /\ UNCHANGED <<now, clients, conn>>

\* The audit log, the HSM and TLS are set up and the port is bound.
Listen ==
    /\ stage = "starting"
    /\ stage' = "listening"
    /\ UNCHANGED <<now, clients, gateway, since, conn>>

\* Mutant of Exit: a task on a blocking thread outlives the loop.
ExitDetached ==
    /\ stage # "down"
    /\ stage' = "down"
    /\ conn' = [k \in Conns |-> IF conn[k].at = "pool" THEN conn[k] ELSE None]
    /\ UNCHANGED <<now, clients, gateway, since>>

\* One of the steps of the start fails, accept returns an error, or the
\* process is killed.  All tasks go.
Exit ==
    /\ stage # "down"
    /\ stage' = "down"
    /\ conn' = [k \in Conns |-> None]
    /\ UNCHANGED <<now, clients, gateway, since>>

-----------------------------------------------------------------------------
(***************************************************************************)
(* Connections.                                                            *)
(***************************************************************************)
\* listener.accept and tokio::spawn.
Accept(k, cert) ==
    /\ stage = "listening"
    /\ conn[k] = None
    /\ conn' = [conn EXCEPT ![k] = [at |-> "accepted", cert |-> cert]]
    /\ UNCHANGED <<now, clients, stage, gateway, since>>

\* Mutant of Handshake: the end of the certificate is not looked at.
HandshakeExpired(k) ==
    /\ FreeWorker
    /\ conn[k].at = "accepted"
    /\ conn' = [conn EXCEPT ![k] =
            IF @.cert.not_before <= now THEN [@ EXCEPT !.at = "tls"] ELSE None]
    /\ UNCHANGED <<now, clients, stage, gateway, since>>

\* acceptor.accept(tcp).await ends once the client has done its part, for
\* which nothing sets a time; rustls wants a certificate that is valid then.
Handshake(k) ==
    /\ FreeWorker
    /\ conn[k].at = "accepted"
    /\ conn' = [conn EXCEPT ![k] =
            IF now \in @.cert.not_before .. @.cert.not_after THEN [@ EXCEPT !.at = "tls"] ELSE None]
    /\ UNCHANGED <<now, clients, stage, gateway, since>>

\* The beginning of handle_connection.  warned is whether it appends an audit
\* entry about the expiry; admitted is the time, for the properties.
Policy(k) ==
    /\ FreeWorker
    /\ conn[k].at = "tls"
    /\ LET cert == conn[k].cert
       IN  conn' = [conn EXCEPT ![k] =
                IF ~HasCn(cert) \/ validity_days(cert) > gateway.limits.max_days THEN None
                ELSE [at |-> "ready", cert |-> cert, todo |-> << >>,
                      warned |-> days_left(cert) <= gateway.limits.warn_days, admitted |-> now]]
    /\ UNCHANGED <<now, clients, stage, gateway, since>>

\* A line of a client in the table starts the calls of its request, if it
\* is granted; other lines are answered at once.
Line(k, calls) ==
    /\ FreeWorker
    /\ conn[k].at = "ready"
    /\ conn[k].cert.cn \in gateway.table
    /\ conn' = [conn EXCEPT ![k] = GoOn(@, calls)]
    /\ UNCHANGED <<now, clients, stage, gateway, since>>

\* The pool is done and wakes the task, with a result or with an error that
\* ends the request.
PoolReturns(k) ==
    /\ conn[k].at = "pool"
    /\ \E rest \in {conn[k].todo, << >>} :
        conn' = [conn EXCEPT ![k] = [@ EXCEPT !.at = "resume", !.todo = rest]]
    /\ UNCHANGED <<now, clients, stage, gateway, since>>

Resume(k) ==
    /\ FreeWorker
    /\ conn[k].at = "resume"
    /\ conn' = [conn EXCEPT ![k] = GoOn(@, @.todo)]
    /\ UNCHANGED <<now, clients, stage, gateway, since>>

\* Mutant of WorkerReturns: the HSM is guarded by a lock that a request
\* keeps until it has its result.
WorkerReturnsLocked(k) ==
    /\ conn[k].at = "worker"
    /\ \A j \in Conns : conn[j].at \notin {"pool", "resume"}
    /\ \E rest \in {conn[k].todo, << >>} : conn' = [conn EXCEPT ![k] = GoOn(@, rest)]
    /\ UNCHANGED <<now, clients, stage, gateway, since>>

\* seal_response or check_integrity returns, on the same thread.
WorkerReturns(k) ==
    /\ conn[k].at = "worker"
    /\ \E rest \in {conn[k].todo, << >>} : conn' = [conn EXCEPT ![k] = GoOn(@, rest)]
    /\ UNCHANGED <<now, clients, stage, gateway, since>>

\* The client gives up the handshake, closes the connection, or its end is
\* gone when the answer is written.
Disconnect(k) ==
    /\ FreeWorker
    /\ conn[k].at \in {"accepted", "ready"}
    /\ conn' = [conn EXCEPT ![k] = None]
    /\ UNCHANGED <<now, clients, stage, gateway, since>>

-----------------------------------------------------------------------------
(***************************************************************************)
(* The world: time, and the operator who edits the clients file.           *)
(***************************************************************************)
Tick ==
    /\ now < MaxTime
    /\ now' = now + 1
    /\ UNCHANGED <<clients, stage, gateway, since, conn>>

Edit(cns) ==
    /\ clients' = cns
    /\ since' = [since EXCEPT !.cns = @ \cup cns]
    /\ UNCHANGED <<now, stage, gateway, conn>>

Init ==
    /\ now = 0
    /\ clients = Cns
    /\ stage = "down"
    /\ gateway = [table |-> {}, limits |-> [max_days |-> 0, warn_days |-> 0]]
    /\ since = [time |-> 0, cns |-> Cns]
    /\ conn = [k \in Conns |-> None]

\* A task that does not wait for its client is polled.
Poll(k) == Policy(k) \/ Resume(k)

Next ==
    \/ \E env \in Envs : Load(env)
    \/ Listen
    \/ Exit
    \/ Tick
    \/ \E cns \in SUBSET Cns : Edit(cns)
    \/ \E k \in Conns :
        \/ \E cert \in Certs : Accept(k, cert)
        \/ Handshake(k)
        \/ Poll(k)
        \/ \E calls \in Calls : Line(k, calls)
        \/ PoolReturns(k)
        \/ WorkerReturns(k)
        \/ Disconnect(k)

Spec == Init /\ [][Next]_vars

\* HSM calls return.  The run queue of the runtime is fair: a task that is
\* ready again and again while a worker is free gets its turn.  A client
\* need not go on with its handshake, send a line or read its answer.
FairSpec ==
    /\ Spec
    /\ \A k \in Conns :
        WF_vars(PoolReturns(k)) /\ WF_vars(WorkerReturns(k)) /\ SF_vars(Poll(k))

-----------------------------------------------------------------------------
(***************************************************************************)
(* Properties.                                                             *)
(***************************************************************************)
\* Types; there are only tasks while the process listens, and never more on
\* workers than there are workers.
TypeOK ==
    /\ now \in 0..MaxTime
    /\ clients \subseteq Cns
    /\ stage \in {"down", "starting", "listening"}
    /\ gateway \in [table : SUBSET Cns, limits : [max_days : Int, warn_days : Int]]
    /\ since \in [time : 0..now, cns : SUBSET Cns]
    /\ DOMAIN conn = Conns
    /\ \A k \in Conns :
        \/ conn[k] = None
        \/ conn[k] \in [at : {"accepted", "tls"}, cert : Certs]
        \/ conn[k] \in [at : {"ready", "pool", "resume", "worker"}, cert : Certs,
                        todo : {<< >>, <<"pool">>, <<"worker">>}, warned : BOOLEAN,
                        admitted : 0..now]
    /\ stage # "listening" => \A k \in Conns : conn[k] = None
    /\ Cardinality({k \in Conns : conn[k].at = "worker"}) <= Workers

\* Whole days are at most n exactly below this many ticks.
AtMostDays(n) == IF n >= 0 THEN (n + 1) * Day ELSE n * Day + 1

\* The limits in ticks: nobody is served with a certificate that is valid a
\* day or more beyond the maximum, so nobody at all under a negative one, and
\* a client gets a warning exactly if its certificate had no more than the
\* whole days to warn left when it was admitted; a negative number of days
\* warns of certificates that ended that long ago, which have passed the
\* handshake if time went by since (src/src/server.rs:68-94).
LimitsAreKept ==
    \A k \in Conns :
        Serving(k) =>
            LET cert == conn[k].cert
                max == gateway.limits.max_days
                warn == gateway.limits.warn_days
            IN  /\ cert.not_after - cert.not_before < (max + 1) * Day
                /\ conn[k].warned <=> cert.not_after - conn[k].admitted < AtMostDays(warn)

\* "blocked by removing its CN from clients.yaml" (src/README.md:153), and
\* expiry: a connection can outlive its certificate, and a grant its entry
\* in the file, but neither a restart.  Nobody is served whose certificate
\* had expired when the process was started, and no request runs of a client
\* that was not in the file since.
RestartEnforces ==
    \A k \in Conns :
        Serving(k) =>
            /\ conn[k].cert.not_after >= since.time
            /\ conn[k].at # "ready" => conn[k].cert.cn \in since.cns

\* Once its handshake is done a connection gets through the policy, and its
\* requests come to their answers, even if HSM calls occupy every worker at
\* times and other clients keep their handshakes open for ever.
WorkersSuffice ==
    \A k \in Conns :
        conn[k].at \in {"tls", "pool", "resume", "worker"} ~> conn[k].at \in {"none", "ready"}

\* "Hard reject when a client cert is valid longer than
\* GATEWAY_MAX_CLIENT_CERT_VALIDITY_DAYS" (src/README.md:147).
HardReject ==
    \A k \in Conns :
        Serving(k) =>
            conn[k].cert.not_after - conn[k].cert.not_before <= gateway.limits.max_days * Day
=============================================================================
