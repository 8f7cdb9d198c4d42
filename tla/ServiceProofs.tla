---------------------------- MODULE ServiceProofs ----------------------------
(***************************************************************************)
(* Proofs about Service, for any connections, certificates, environments,  *)
(* number of worker threads and length of a day.                           *)
(***************************************************************************)
EXTENDS Service, FiniteSetTheorems, TLAPS

-----------------------------------------------------------------------------
(***************************************************************************)
(* Days.                                                                   *)
(***************************************************************************)
LEMMA Division ==
    ASSUME NEW a \in Nat, NEW d \in Nat \ {0}
    PROVE  /\ a \div d \in Nat
           /\ (a \div d) * d <= a
           /\ a < (a \div d) * d + d
  OBVIOUS

LEMMA TimesMonotone ==
    ASSUME NEW a \in Int, NEW b \in Int, NEW d \in Nat, a <= b
    PROVE  a * d <= b * d
  OBVIOUS

\* Truncation: at most n whole days are less than n + 1 days.
LEMMA WholeDays ==
    ASSUME NEW t \in Int, NEW n \in Nat
    PROVE  num_days(t) <= n <=> t < (n + 1) * Day
  <1> USE ServiceConstants
  <1>1. (n + 1) * Day \in Nat /\ (n + 1) * Day > 0
    OBVIOUS
  <1>2. CASE t < 0
    <2>1. (-t) \div Day \in Nat
      BY <1>2, Division
    <2>2. num_days(t) <= 0
      BY <1>2, <2>1 DEF num_days
    <2>3. num_days(t) \in Int
      BY <1>2, <2>1 DEF num_days
    <2> QED
      BY <1>1, <1>2, <2>2, <2>3
  <1>3. CASE t >= 0
    <2> DEFINE q == t \div Day
    <2>1. q \in Nat /\ q * Day <= t /\ t < q * Day + Day
      BY <1>3, Division
    <2>2. num_days(t) = q
      BY <1>3 DEF num_days
    <2> HIDE DEF q
    <2>3. q * Day \in Int /\ (q + 1) * Day = q * Day + Day
      BY <2>1
    <2>4. ASSUME q <= n PROVE t < (n + 1) * Day
      <3>1. (q + 1) * Day <= (n + 1) * Day
        BY <2>1, <2>4, TimesMonotone
      <3> QED
        BY <1>1, <2>1, <2>3, <3>1
    <2>5. ASSUME t < (n + 1) * Day, n < q PROVE FALSE
      <3>1. (n + 1) * Day <= q * Day
        BY <2>1, <2>5, TimesMonotone
      <3> QED
        BY <1>1, <2>1, <2>3, <2>5, <3>1
    <2> QED
      BY <2>1, <2>2, <2>4, <2>5
  <1> QED
    BY <1>2, <1>3

\* At most -m whole days, m > 0, are at most -m days.
LEMMA WholeDaysPast ==
    ASSUME NEW t \in Int, NEW m \in Nat \ {0}
    PROVE  num_days(t) <= -m <=> t <= (-m) * Day
  <1> USE ServiceConstants
  <1>1. m * Day \in Nat /\ m * Day > 0 /\ (-m) * Day = -(m * Day)
    OBVIOUS
  <1>2. CASE t >= 0
    <2>1. t \div Day \in Nat
      BY <1>2, Division
    <2> QED
      BY <1>1, <1>2, <2>1 DEF num_days
  <1>3. CASE t < 0
    <2> DEFINE q == (-t) \div Day
    <2>1. q \in Nat /\ q * Day <= -t /\ -t < q * Day + Day
      BY <1>3, Division
    <2>2. num_days(t) = -q
      BY <1>3 DEF num_days
    <2> HIDE DEF q
    <2>3. q * Day \in Int /\ (q + 1) * Day = q * Day + Day
      BY <2>1
    <2>4. ASSUME m <= q PROVE m * Day <= -t
      <3>1. m * Day <= q * Day
        BY <2>1, <2>4, TimesMonotone
      <3> QED
        BY <1>1, <2>1, <2>3, <3>1
    <2>5. ASSUME m * Day <= -t, q < m PROVE FALSE
      <3>1. (q + 1) * Day <= m * Day
        BY <2>1, <2>5, TimesMonotone
      <3> QED
        BY <1>1, <2>1, <2>3, <2>5, <3>1
    <2> QED
      BY <1>1, <1>3, <2>1, <2>2, <2>4, <2>5
  <1> QED
    BY <1>2, <1>3

\* Both together.
LEMMA AtMostWholeDays ==
    ASSUME NEW t \in Int, NEW n \in Int
    PROVE  num_days(t) <= n <=> t < AtMostDays(n)
  <1>1. CASE n >= 0
    BY <1>1, WholeDays DEF AtMostDays
  <1>2. CASE n < 0
    <2>1. PICK m \in Nat \ {0} : n = -m
      BY <1>2
    <2>2. num_days(t) <= n <=> t <= n * Day
      BY <2>1, WholeDaysPast
    <2>3. n * Day \in Int
      BY ServiceConstants
    <2> QED
      BY <1>2, <2>2, <2>3 DEF AtMostDays
  <1> QED
    BY <1>1, <1>2

LEMMA DaysType ==
    ASSUME NEW t \in Int
    PROVE  num_days(t) \in Int
  <1>1. CASE t >= 0
    BY <1>1, ServiceConstants, Division DEF num_days
  <1>2. CASE t < 0
    BY <1>2, ServiceConstants, Division DEF num_days
  <1> QED
    BY <1>1, <1>2

LEMMA LimitsType ==
    ASSUME NEW env \in Envs
    PROVE  Limits(env) \in [max_days : Int, warn_days : Int]
  <1>1. env.max \in SUBSET Int /\ env.warn \in SUBSET Int
    BY ServiceConstants
  <1>2. \A var \in SUBSET Int, d \in Int : days_var(var, d) \in Int
    BY DEF days_var
  <1> QED
    BY <1>1, <1>2 DEF Limits

-----------------------------------------------------------------------------
(***************************************************************************)
(* The inductive invariant.                                                *)
(***************************************************************************)
InHandshake == [at : {"accepted", "tls"}, cert : Certs]

InService ==
    [at : {"ready", "pool", "resume", "worker"}, cert : Certs,
     todo : {<< >>, <<"pool">>, <<"worker">>}, warned : BOOLEAN, admitted : 0..now]

\* What holds of the state of a task: past the handshake its certificate ends
\* after it begins and had not expired when the process started, and past the policy it is within
\* the limits; what runs belongs to a client in the file since then.
Proper(c) ==
    /\ c = None \/ c \in InHandshake \/ c \in InService
    /\ c.at = "tls" \/ c \in InService =>
        c.cert.not_after >= since.time /\ c.cert.not_after >= c.cert.not_before
    /\ c \in InService =>
        LET max == gateway.limits.max_days
            warn == gateway.limits.warn_days
        IN  /\ c.cert.not_after - c.cert.not_before < (max + 1) * Day
            /\ c.warned <=> c.cert.not_after - c.admitted < AtMostDays(warn)
    /\ c.at \in {"pool", "resume", "worker"} => c.cert.cn \in since.cns

\* The table is of the file the process was started with, or older.
TableIsFromFile == stage # "down" => gateway.table \subseteq since.cns

OnWorker == {k \in Conns : conn[k].at = "worker"}

IInv ==
    /\ TypeOK
    /\ \A k \in Conns : Proper(conn[k])
    /\ TableIsFromFile

-----------------------------------------------------------------------------
(***************************************************************************)
(* Steps of one task.                                                      *)
(***************************************************************************)
LEMMA InitIInv == Init => IInv
  <1> SUFFICES ASSUME Init PROVE IInv
    OBVIOUS
  <1> USE DEF Init
  <1>1. {k \in Conns : conn[k].at = "worker"} = {}
    BY DEF None
  <1>2. TypeOK
    BY <1>1, ServiceConstants, FS_EmptySet DEF TypeOK
  <1>3. ASSUME NEW k \in Conns PROVE Proper(conn[k])
    BY DEF Proper, None, InService
  <1> QED
    BY <1>2, <1>3 DEF IInv, TableIsFromFile

\* The threads suffice for one more task on a worker, or for none more.
LEMMA WorkersBound ==
    ASSUME TypeOK, NEW k \in Conns, NEW new,
           conn' = [conn EXCEPT ![k] = new],
           new.at = "worker" => conn[k].at = "worker" \/ FreeWorker
    PROVE  Cardinality(OnWorker') <= Workers
  <1>0. Workers \in Nat /\ IsFiniteSet(Conns)
    BY ServiceConstants
  <1>1. IsFiniteSet(OnWorker) /\ Cardinality(OnWorker) \in Nat
    BY <1>0, FS_Subset, FS_CardinalityType DEF OnWorker
  <1>2. Cardinality(OnWorker) <= Workers
    BY DEF TypeOK, OnWorker
  <1>3. DOMAIN conn = Conns
    BY DEF TypeOK
  <1>4. OnWorker' \subseteq OnWorker \cup {k}
    BY <1>3 DEF OnWorker
  <1>5. CASE new.at = "worker" /\ conn[k].at # "worker"
    <2>1. Cardinality(OnWorker) < Workers
      BY <1>5 DEF FreeWorker, OnWorker
    <2>2. /\ IsFiniteSet(OnWorker \cup {k})
          /\ Cardinality(OnWorker \cup {k}) =
                IF k \in OnWorker THEN Cardinality(OnWorker) ELSE Cardinality(OnWorker) + 1
      BY <1>1, FS_AddElement
    <2>3. Cardinality(OnWorker \cup {k}) <= Workers /\ Cardinality(OnWorker \cup {k}) \in Nat
      BY <1>0, <1>1, <2>1, <2>2
    <2>4. Cardinality(OnWorker') <= Cardinality(OnWorker \cup {k}) /\ IsFiniteSet(OnWorker')
      BY <1>4, <2>2, FS_Subset
    <2>5. Cardinality(OnWorker') \in Nat
      BY <2>4, FS_CardinalityType
    <2> QED
      BY <1>0, <2>3, <2>4, <2>5
  <1>6. CASE ~(new.at = "worker" /\ conn[k].at # "worker")
    <2>1. OnWorker' \subseteq OnWorker
      BY <1>3, <1>6 DEF OnWorker
    <2>2. Cardinality(OnWorker') <= Cardinality(OnWorker) /\ IsFiniteSet(OnWorker')
      BY <1>1, <2>1, FS_Subset
    <2>3. Cardinality(OnWorker') \in Nat
      BY <2>2, FS_CardinalityType
    <2> QED
      BY <1>0, <1>1, <1>2, <2>2, <2>3
  <1> QED
    BY <1>5, <1>6

LEMMA TaskStep ==
    ASSUME IInv, NEW k \in Conns, NEW new,
           conn' = [conn EXCEPT ![k] = new], Proper(new),
           stage = "listening",
           new.at = "worker" => conn[k].at = "worker" \/ FreeWorker,
           UNCHANGED <<now, clients, stage, gateway, since>>
    PROVE  IInv'
  <1>1. DOMAIN conn = Conns
    BY DEF IInv, TypeOK
  <1>2. \A j \in Conns : conn'[j] = IF j = k THEN new ELSE conn[j]
    BY <1>1
  <1>3. \A c : Proper(c) => Proper(c)'
    BY DEF Proper, InService
  <1>4. \A j \in Conns : Proper(conn[j])
    BY DEF IInv
  <1>5. \A j \in Conns : Proper(conn[j])'
    <2> SUFFICES ASSUME NEW j \in Conns PROVE Proper(conn[j])'
      OBVIOUS
    <2>1. CASE j = k
      <3>1. conn'[j] = new
        BY <1>2, <2>1
      <3> QED
        BY <1>3, <3>1 DEF Proper
    <2>2. CASE j # k
      <3>1. conn'[j] = conn[j] /\ Proper(conn[j])
        BY <1>2, <1>4, <2>2
      <3> QED
        BY <3>1 DEF Proper, InService
    <2> QED
      BY <2>1, <2>2
  <1>6. TypeOK'
    <2>1. Cardinality({j \in Conns : conn'[j].at = "worker"}) <= Workers
      BY WorkersBound DEF IInv, OnWorker
    <2>2. DOMAIN conn' = Conns
      BY <1>1
    <2>3. \A j \in Conns :
            conn'[j] = None \/ conn'[j] \in InHandshake \/ conn'[j] \in InService'
      BY <1>5 DEF Proper
    <2> QED
      BY <2>1, <2>2, <2>3 DEF IInv, TypeOK, InHandshake, InService
  <1> QED
    BY <1>5, <1>6 DEF IInv, TableIsFromFile

\* There are tasks only while the process listens.
LEMMA TaskListens ==
    ASSUME IInv, NEW k \in Conns, conn[k].at # "none"
    PROVE  stage = "listening"
  BY DEF IInv, TypeOK, None

LEMMA NoneProper == Proper(None)
  BY DEF Proper, None, InService

LEMMA AcceptStep ==
    ASSUME IInv, NEW k \in Conns, NEW cert \in Certs, Accept(k, cert)
    PROVE  IInv'
  <1>1. PICK new : new = [at |-> "accepted", cert |-> cert]
    OBVIOUS
  <1>2. Proper(new) /\ new.at # "worker"
    BY <1>1 DEF Proper, InHandshake, InService
  <1> QED
    BY <1>1, <1>2, TaskStep DEF Accept

\* rustls admits nobody whose certificate has expired, now or at the start.
LEMMA HandshakeStep ==
    ASSUME IInv, NEW k \in Conns, Handshake(k)
    PROVE  IInv'
  <1>1. conn[k] \in InHandshake /\ conn[k].at = "accepted"
    BY DEF Handshake, IInv, Proper, InService, None
  <1>2. stage = "listening"
    BY <1>1, TaskListens
  <1>3. CASE now \in conn[k].cert.not_before .. conn[k].cert.not_after
    <2>1. PICK new : new = [conn[k] EXCEPT !.at = "tls"]
      OBVIOUS
    <2>2. conn' = [conn EXCEPT ![k] = new]
      BY <1>3, <2>1 DEF Handshake
    <2>3. new \in InHandshake /\ new.at = "tls" /\ new.cert = conn[k].cert
      BY <1>1, <2>1 DEF InHandshake
    <2>4. /\ conn[k].cert.not_after >= since.time
          /\ conn[k].cert.not_after >= conn[k].cert.not_before
      <3>1. since.time \in 0..now /\ now \in Nat
        BY DEF IInv, TypeOK
      <3>2. conn[k].cert.not_after \in Int /\ conn[k].cert.not_before \in Int
        BY <1>1, ServiceConstants DEF InHandshake
      <3> QED
        BY <1>3, <3>1, <3>2
    <2>5. Proper(new)
      BY <2>3, <2>4 DEF Proper, InHandshake, InService
    <2> QED
      BY <1>2, <2>2, <2>3, <2>5, TaskStep DEF Handshake
  <1>4. CASE now \notin conn[k].cert.not_before .. conn[k].cert.not_after
    <2>1. conn' = [conn EXCEPT ![k] = None]
      BY <1>4 DEF Handshake
    <2> QED
      BY <1>2, <2>1, NoneProper, TaskStep DEF Handshake, None
  <1> QED
    BY <1>3, <1>4

LEMMA PolicyStep ==
    ASSUME IInv, NEW k \in Conns, Policy(k)
    PROVE  IInv'
  <1>1. PICK cert : cert = conn[k].cert
    OBVIOUS
  <1>2. conn[k] \in InHandshake /\ conn[k].at = "tls" /\ cert \in Certs
    BY <1>1 DEF Policy, IInv, Proper, InService, InHandshake, None
  <1>3. stage = "listening" /\ cert.not_after >= since.time /\ cert.not_after >= cert.not_before
    BY <1>1, <1>2, TaskListens DEF IInv, Proper
  <1>4. CASE ~HasCn(cert) \/ validity_days(cert) > gateway.limits.max_days
    <2>1. conn' = [conn EXCEPT ![k] = None]
      BY <1>1, <1>4 DEF Policy
    <2> QED
      BY <1>3, <2>1, NoneProper, TaskStep DEF Policy, None
  <1>5. CASE ~(~HasCn(cert) \/ validity_days(cert) > gateway.limits.max_days)
    <2>1. PICK warned : warned = (days_left(cert) <= gateway.limits.warn_days)
      OBVIOUS
    <2>2. PICK new : new = [at |-> "ready", cert |-> cert, todo |-> << >>,
                            warned |-> warned, admitted |-> now]
      OBVIOUS
    <2>3. conn' = [conn EXCEPT ![k] = new]
      BY <1>1, <1>5, <2>1, <2>2 DEF Policy
    <2>4. now \in 0..now /\ now \in Nat /\ warned \in BOOLEAN
      BY <2>1 DEF IInv, TypeOK
    <2>5. new \in InService
      BY <1>2, <2>2, <2>4 DEF InService
    <2>6. cert.not_after \in Int /\ cert.not_before \in Int
      BY <1>2, ServiceConstants
    <2>7. gateway.limits.max_days \in Int /\ gateway.limits.warn_days \in Int
      BY DEF IInv, TypeOK
    <2>8. cert.not_after - cert.not_before < (gateway.limits.max_days + 1) * Day
      <3>1. validity_days(cert) \in Int /\ validity_days(cert) <= gateway.limits.max_days
        BY <1>5, <2>6, <2>7, DaysType DEF validity_days
      <3>2. validity_days(cert) >= 0
        <4>1. cert.not_after - cert.not_before \in Nat
          BY <1>3, <2>6
        <4> QED
          BY <4>1, ServiceConstants, Division DEF validity_days, num_days
      <3>3. gateway.limits.max_days \in Nat
        BY <2>7, <3>1, <3>2
      <3> QED
        BY <2>6, <3>1, <3>3, WholeDays DEF validity_days
    <2>9. warned <=> cert.not_after - now < AtMostDays(gateway.limits.warn_days)
      <3>1. days_left(cert) <= gateway.limits.warn_days <=>
                cert.not_after - now < AtMostDays(gateway.limits.warn_days)
        BY <2>4, <2>6, <2>7, AtMostWholeDays DEF days_left
      <3>2. warned <=> days_left(cert) <= gateway.limits.warn_days
        BY <2>1, Zenon
      <3> QED
        BY <3>1, <3>2, Zenon
    <2>10. Proper(new)
      BY <1>3, <2>2, <2>5, <2>8, <2>9 DEF Proper
    <2> QED
      BY <1>3, <2>2, <2>3, <2>10, TaskStep DEF Policy
  <1> QED
    BY <1>4, <1>5

-----------------------------------------------------------------------------
(***************************************************************************)
(* Requests.                                                               *)
(***************************************************************************)
\* A served task stays proper when it goes on, if its client may have
\* requests run.
LEMMA GoOnProper ==
    ASSUME IInv, NEW c \in InService, Proper(c), c.cert.cn \in since.cns,
           NEW rest \in Calls \cup {<< >>, <<"pool">>, <<"worker">>}
    PROVE  Proper(GoOn(c, rest))
  <1> DEFINE new == GoOn(c, rest)
  <1>1. /\ rest = << >> => new = [c EXCEPT !.at = "ready", !.todo = << >>]
        /\ rest # << >> => new = [c EXCEPT !.at = Head(rest), !.todo = Tail(rest)]
    BY DEF GoOn
  <1>2. /\ rest # << >> => Head(rest) \in {"pool", "worker"}
        /\ rest # << >> => Tail(rest) \in {<< >>, <<"pool">>, <<"worker">>}
    <2>1. rest \in {<< >>, <<"pool">>, <<"worker">>, <<"pool", "worker">>, <<"worker", "pool">>}
      BY DEF Calls
    <2>2. CASE rest = <<"pool">>
      BY <2>2
    <2>3. CASE rest = <<"worker">>
      BY <2>3
    <2>4. CASE rest = <<"pool", "worker">>
      BY <2>4
    <2>5. CASE rest = <<"worker", "pool">>
      BY <2>5
    <2> QED
      BY <2>1, <2>2, <2>3, <2>4, <2>5
  <1> HIDE DEF new
  <1>3. new \in InService
    BY <1>1, <1>2 DEF InService
  <1>4. new.cert = c.cert /\ new.warned = c.warned /\ new.admitted = c.admitted
    BY <1>1 DEF InService
  <1>5. Proper(new)
    BY <1>3, <1>4 DEF Proper
  <1> QED
    BY <1>5 DEF new

\* Where a served task is.
LEMMA ServedTask ==
    ASSUME IInv, NEW k \in Conns, conn[k].at \in {"ready", "pool", "resume", "worker"}
    PROVE  /\ conn[k] \in InService /\ Proper(conn[k]) /\ stage = "listening"
           /\ conn[k].at # "ready" => conn[k].cert.cn \in since.cns
  <1>1. Proper(conn[k])
    BY DEF IInv
  <1>2. conn[k] \in InService
    BY <1>1 DEF Proper, None, InHandshake
  <1> QED
    BY <1>1, <1>2, TaskListens DEF Proper

LEMMA LineStep ==
    ASSUME IInv, NEW k \in Conns, NEW calls \in Calls, Line(k, calls)
    PROVE  IInv'
  <1>1. PICK new : new = GoOn(conn[k], calls)
    OBVIOUS
  <1>2. conn' = [conn EXCEPT ![k] = new] /\ FreeWorker
    BY <1>1 DEF Line
  <1>3. conn[k] \in InService /\ Proper(conn[k]) /\ stage = "listening"
    BY ServedTask DEF Line
  <1>4. conn[k].cert.cn \in since.cns
    BY <1>3 DEF Line, IInv, TableIsFromFile
  <1>5. Proper(new)
    BY <1>1, <1>3, <1>4, GoOnProper
  <1> QED
    BY <1>2, <1>3, <1>5, TaskStep DEF Line

LEMMA PoolReturnsStep ==
    ASSUME IInv, NEW k \in Conns, PoolReturns(k)
    PROVE  IInv'
  <1>1. /\ conn[k] \in InService /\ Proper(conn[k]) /\ stage = "listening"
        /\ conn[k].cert.cn \in since.cns
    BY ServedTask DEF PoolReturns
  <1>2. PICK rest \in {conn[k].todo, << >>} :
            conn' = [conn EXCEPT ![k] = [@ EXCEPT !.at = "resume", !.todo = rest]]
    BY DEF PoolReturns
  <1>3. PICK c : c = conn[k]
    OBVIOUS
  <1>4. PICK new : new = [c EXCEPT !.at = "resume", !.todo = rest]
    OBVIOUS
  <1>5. conn' = [conn EXCEPT ![k] = new]
    BY <1>2, <1>3, <1>4
  <1>6. c \in InService /\ rest \in {<< >>, <<"pool">>, <<"worker">>}
    BY <1>1, <1>2, <1>3 DEF InService
  <1>7. /\ new \in InService /\ new.cert = c.cert /\ new.warned = c.warned
        /\ new.admitted = c.admitted /\ new.at = "resume"
    BY <1>4, <1>6 DEF InService
  <1>8. Proper(new)
    BY <1>1, <1>3, <1>7 DEF Proper
  <1> QED
    BY <1>1, <1>5, <1>7, <1>8, TaskStep DEF PoolReturns

LEMMA ResumeStep ==
    ASSUME IInv, NEW k \in Conns, Resume(k)
    PROVE  IInv'
  <1>1. /\ conn[k] \in InService /\ Proper(conn[k]) /\ stage = "listening"
        /\ conn[k].cert.cn \in since.cns
    BY ServedTask DEF Resume
  <1>2. conn[k].todo \in {<< >>, <<"pool">>, <<"worker">>}
    BY <1>1 DEF InService
  <1>3. PICK new : new = GoOn(conn[k], conn[k].todo)
    OBVIOUS
  <1>4. conn' = [conn EXCEPT ![k] = new] /\ FreeWorker
    BY <1>3 DEF Resume
  <1>5. Proper(new)
    BY <1>1, <1>2, <1>3, GoOnProper
  <1> QED
    BY <1>1, <1>4, <1>5, TaskStep DEF Resume

LEMMA WorkerReturnsStep ==
    ASSUME IInv, NEW k \in Conns, WorkerReturns(k)
    PROVE  IInv'
  <1>1. /\ conn[k] \in InService /\ Proper(conn[k]) /\ stage = "listening"
        /\ conn[k].cert.cn \in since.cns /\ conn[k].at = "worker"
    BY ServedTask DEF WorkerReturns
  <1>2. PICK rest \in {conn[k].todo, << >>} : conn' = [conn EXCEPT ![k] = GoOn(@, rest)]
    BY DEF WorkerReturns
  <1>3. rest \in {<< >>, <<"pool">>, <<"worker">>}
    BY <1>1, <1>2 DEF InService
  <1>4. PICK new : new = GoOn(conn[k], rest)
    OBVIOUS
  <1>5. conn' = [conn EXCEPT ![k] = new]
    BY <1>2, <1>4
  <1>6. Proper(new)
    BY <1>1, <1>3, <1>4, GoOnProper
  <1> QED
    BY <1>1, <1>5, <1>6, TaskStep DEF WorkerReturns

LEMMA DisconnectStep ==
    ASSUME IInv, NEW k \in Conns, Disconnect(k)
    PROVE  IInv'
  <1>1. stage = "listening"
    BY TaskListens DEF Disconnect
  <1> QED
    BY <1>1, NoneProper, TaskStep DEF Disconnect, None

-----------------------------------------------------------------------------
(***************************************************************************)
(* The process, time and the operator.                                     *)
(***************************************************************************)
LEMMA LoadStep ==
    ASSUME IInv, NEW env \in Envs, Load(env)
    PROVE  IInv'
  <1>1. DOMAIN conn = Conns /\ (\A k \in Conns : conn[k] = None) /\ conn' = conn
    BY DEF Load, IInv, TypeOK
  <1>2. gateway' \in [table : SUBSET Cns, limits : [max_days : Int, warn_days : Int]]
    BY LimitsType DEF Load, IInv, TypeOK
  <1>3. since' \in [time : 0..now, cns : SUBSET Cns]
    BY DEF Load, IInv, TypeOK
  <1>4. \A k \in Conns : Proper(conn[k])'
    BY <1>1 DEF Proper, None, InService
  <1>5. TypeOK'
    BY <1>1, <1>2, <1>3 DEF Load, IInv, TypeOK
  <1>6. TableIsFromFile'
    BY DEF Load, TableIsFromFile
  <1> QED
    BY <1>4, <1>5, <1>6 DEF IInv

LEMMA ListenStep ==
    ASSUME IInv, Listen
    PROVE  IInv'
  <1>1. \A k \in Conns : Proper(conn[k])'
    BY DEF Listen, IInv, Proper, InService
  <1>2. TypeOK'
    BY DEF Listen, IInv, TypeOK
  <1> QED
    BY <1>1, <1>2 DEF Listen, IInv, TableIsFromFile

LEMMA ExitStep ==
    ASSUME IInv, Exit
    PROVE  IInv'
  <1>1. DOMAIN conn' = Conns /\ \A k \in Conns : conn'[k] = None
    BY DEF Exit
  <1>2. \A k \in Conns : Proper(conn[k])'
    BY <1>1 DEF Proper, None, InService
  <1>3. {k \in Conns : conn'[k].at = "worker"} = {}
    BY <1>1 DEF None
  <1>4. Cardinality({k \in Conns : conn'[k].at = "worker"}) <= Workers
    <2>1. Cardinality({}) = 0
      BY FS_EmptySet, Zenon
    <2>2. Cardinality({k \in Conns : conn'[k].at = "worker"}) = 0
      BY <1>3, <2>1, Zenon
    <2> QED
      BY <2>2, ServiceConstants
  <1>5. TypeOK'
    BY <1>1, <1>4 DEF Exit, IInv, TypeOK
  <1> QED
    BY <1>2, <1>5 DEF Exit, IInv, TableIsFromFile

LEMMA TickStep ==
    ASSUME IInv, Tick
    PROVE  IInv'
  <1>1. now \in Nat /\ now' = now + 1 /\ now' \in 0..MaxTime
    BY ServiceConstants DEF Tick, IInv, TypeOK
  <1>2. 0..now \subseteq 0..now'
    BY <1>1
  <1>3. InService \subseteq InService'
    BY <1>2 DEF InService
  <1>4. ASSUME NEW k \in Conns PROVE Proper(conn[k])'
    <2>1. Proper(conn[k]) /\ UNCHANGED <<conn, gateway, since>>
      BY DEF IInv, Tick
    <2>2. CASE conn[k] \in InService
      BY <1>3, <2>1, <2>2 DEF Proper
    <2>3. CASE conn[k] \notin InService
      <3>1. conn[k] \notin InService'
        BY <2>1, <2>3 DEF Proper, None, InHandshake, InService
      <3> QED
        BY <2>1, <2>3, <3>1 DEF Proper
    <2> QED
      BY <2>2, <2>3
  <1>5. TypeOK'
    <2>1. \A k \in Conns :
            conn'[k] = None \/ conn'[k] \in InHandshake \/ conn'[k] \in InService'
      BY <1>4 DEF Proper
    <2>2. since' \in [time : 0..now', cns : SUBSET Cns]
      BY <1>2 DEF Tick, IInv, TypeOK
    <2> QED
      BY <1>1, <2>1, <2>2 DEF Tick, IInv, TypeOK, InHandshake, InService
  <1> QED
    BY <1>4, <1>5 DEF Tick, IInv, TableIsFromFile

LEMMA EditStep ==
    ASSUME IInv, NEW cns \in SUBSET Cns, Edit(cns)
    PROVE  IInv'
  <1>1. /\ since.time' = since.time /\ since.cns \subseteq since'.cns
        /\ since' \in [time : 0..now, cns : SUBSET Cns]
    BY DEF Edit, IInv, TypeOK
  <1>2. \A k \in Conns : Proper(conn[k])'
    BY <1>1 DEF Edit, IInv, Proper, InService
  <1>3. TypeOK'
    BY <1>1 DEF Edit, IInv, TypeOK
  <1> QED
    BY <1>1, <1>2, <1>3 DEF Edit, IInv, TableIsFromFile

LEMMA NextIInv == IInv /\ [Next]_vars => IInv'
  <1> SUFFICES ASSUME IInv, [Next]_vars PROVE IInv'
    OBVIOUS
  <1>1. ASSUME NEW env \in Envs, Load(env) PROVE IInv'
    BY <1>1, LoadStep
  <1>2. CASE Listen
    BY <1>2, ListenStep
  <1>3. CASE Exit
    BY <1>3, ExitStep
  <1>4. CASE Tick
    BY <1>4, TickStep
  <1>5. ASSUME NEW cns \in SUBSET Cns, Edit(cns) PROVE IInv'
    BY <1>5, EditStep
  <1>6. ASSUME NEW k \in Conns, NEW cert \in Certs, Accept(k, cert) PROVE IInv'
    BY <1>6, AcceptStep
  <1>7. ASSUME NEW k \in Conns, Handshake(k) \/ Poll(k) PROVE IInv'
    BY <1>7, HandshakeStep, PolicyStep, ResumeStep DEF Poll
  <1>8. ASSUME NEW k \in Conns, NEW calls \in Calls, Line(k, calls) PROVE IInv'
    BY <1>8, LineStep
  <1>9. ASSUME NEW k \in Conns, PoolReturns(k) \/ WorkerReturns(k) \/ Disconnect(k) PROVE IInv'
    BY <1>9, PoolReturnsStep, WorkerReturnsStep, DisconnectStep
  <1>10. CASE UNCHANGED vars
    BY <1>10 DEF vars, IInv, TypeOK, Proper, InService, TableIsFromFile
  <1> QED
    BY <1>1, <1>2, <1>3, <1>4, <1>5, <1>6, <1>7, <1>8, <1>9, <1>10 DEF Next

-----------------------------------------------------------------------------
(***************************************************************************)
(* The theorems.                                                           *)
(***************************************************************************)
LEMMA Invariance == Spec => []IInv
  BY InitIInv, NextIInv, PTL DEF Spec

\* The types; tasks only while the process listens; never more HSM calls on
\* workers than there are workers (seal_response and check_integrity in
\* src/src/server.rs:293-315).
THEOREM TypeCorrect == Spec => []TypeOK
  <1>1. IInv => TypeOK
    BY DEF IInv
  <1> QED
    BY Invariance, <1>1, PTL

\* The certificate policy of handle_connection in ticks, for any length of
\* a day (src/src/server.rs:68-94).
THEOREM PolicyKeepsLimits == Spec => []LimitsAreKept
  <1>1. IInv => LimitsAreKept
    <2> SUFFICES ASSUME IInv, NEW k \in Conns, Serving(k)
                 PROVE  LET cert == conn[k].cert
                            max == gateway.limits.max_days
                            warn == gateway.limits.warn_days
                        IN  /\ cert.not_after - cert.not_before < (max + 1) * Day
                            /\ conn[k].warned <=>
                                cert.not_after - conn[k].admitted < AtMostDays(warn)
      BY DEF LimitsAreKept
    <2>1. conn[k] \in InService /\ Proper(conn[k])
      BY ServedTask DEF Serving
    <2> QED
      BY <2>1 DEF Proper
  <1> QED
    BY Invariance, <1>1, PTL

\* A restart ends what a running process still grants: the start of
\* src/src/main.rs and the handshake and policy of each connection.
THEOREM RestartAlwaysEnforces == Spec => []RestartEnforces
  <1>1. IInv => RestartEnforces
    <2> SUFFICES ASSUME IInv, NEW k \in Conns, Serving(k)
                 PROVE  /\ conn[k].cert.not_after >= since.time
                        /\ conn[k].at # "ready" => conn[k].cert.cn \in since.cns
      BY DEF RestartEnforces
    <2>1. /\ conn[k] \in InService /\ Proper(conn[k])
          /\ conn[k].at # "ready" => conn[k].cert.cn \in since.cns
      BY ServedTask DEF Serving
    <2> QED
      BY <2>1 DEF Proper
  <1> QED
    BY Invariance, <1>1, PTL
=============================================================================
