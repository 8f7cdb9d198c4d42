------------------------------ MODULE Pipeline ------------------------------
(***************************************************************************)
(* What the gateway promises for each request (head of src/src/server.rs:  *)
(* authz, audit intent, HSM call, audit result), without saying how: no    *)
(* append in steps, no hash chain, no sessions, no table.  Gateway         *)
(* implements it.                                                          *)
(***************************************************************************)
CONSTANT Conns

VARIABLES
    phase,     \* per connection, how far its request is
    answer,    \* per connection, the answer, once decided
    view,      \* per connection, the outcomes the log shows for its request
    reliable   \* no line of the log was ever cut short

pipelineVars == <<phase, answer, view, reliable>>

Answers == {"ok", "denied", "error"}

Outcomes == {"intent", "authorized", "denied", "error"}

Set(k, p, a) ==
    /\ phase' = [phase EXCEPT ![k] = p]
    /\ answer' = [answer EXCEPT ![k] = a]

\* Once a line was cut short the log may show anything.
Shows(k, outcomes) ==
    \/ reliable /\ reliable' /\ view' = [view EXCEPT ![k] = outcomes]
    \/ ~reliable' /\ view' \in [Conns -> SUBSET Outcomes]

-----------------------------------------------------------------------------
Connect(k) ==
    /\ phase[k] \in {"closed", "connecting"}
    /\ \E p \in {"connecting", "ready", "closed"} : Set(k, p, "none")
    /\ Shows(k, view[k])

\* A request is refused, or is to be executed, or cannot be understood.
Receive(k) ==
    /\ phase[k] = "ready"
    /\ \/ Set(k, "refusing", "denied")
       \/ Set(k, "intending", "none")
       \/ Set(k, "answering", "error")
    /\ Shows(k, {})

\* The entry of the phase appears in the log.
Log(k) ==
    /\ \/ phase[k] = "refusing" /\ Shows(k, view[k] \cup {"denied"})
       \/ phase[k] = "intending" /\ Shows(k, view[k] \cup {"intent"})
       \/ phase[k] = "closing" /\
            Shows(k, view[k] \cup {IF answer[k] = "ok" THEN "authorized" ELSE answer[k]})
       \/ phase[k] = "connecting" /\ Shows(k, view[k])
    /\ UNCHANGED <<phase, answer>>

\* With its intent in the log the request goes to the HSM, or to its end if
\* it is unfit; without, it is rejected.
Intended(k) ==
    /\ phase[k] = "intending"
    /\ \/ /\ reliable => view[k] = {"intent"}
          /\ Set(k, "using", "none") \/ Set(k, "closing", "error")
       \/ /\ reliable => view[k] = {}
          /\ Set(k, "answering", "error")
    /\ Shows(k, view[k])

Finish(k) ==
    /\ phase[k] = "using"
    /\ \E a \in Answers : Set(k, "closing", a)
    /\ Shows(k, view[k])

\* The answer goes out, be the last entry in the log or not: process_line drops
\* the result of its closing append and of the append of a refusal (src/src/
\* server.rs:128, 140, 147, 164-170).  The contract is therefore weaker than
\* "if an entry cannot be written ... the caller must reject the request"
\* (src/src/audit.rs:3-6) for these entries: when they fail, the request is
\* refused anyway, or the HSM has done it and its intent is in the log,
\* "A lone `intent` without a closing entry means the operation was interrupted
\* and its outcome is UNKNOWN" (src/src/audit.rs:11-12), though the client got
\* its answer.
Settle(k) ==
    /\ phase[k] \in {"refusing", "closing"}
    /\ Set(k, "answering", answer[k])
    /\ Shows(k, view[k])

Answer(k) ==
    /\ phase[k] \in {"answering", "ready"}
    /\ \E p \in {"ready", "closed"} : Set(k, p, "none")
    /\ Shows(k, view[k])

\* The process ends; a tail of the log may be lost.
Crash ==
    /\ phase' = [k \in Conns |-> "closed"]
    /\ answer' = [k \in Conns |-> "none"]
    /\ \/ ~reliable' /\ view' \in [Conns -> SUBSET Outcomes]
       \/ reliable /\ reliable' /\ \A k \in Conns : view'[k] \subseteq view[k]

Init ==
    /\ phase = [k \in Conns |-> "closed"]
    /\ answer = [k \in Conns |-> "none"]
    /\ view = [k \in Conns |-> {}]
    /\ reliable = TRUE

Next ==
    \/ \E k \in Conns :
        \/ Connect(k) \/ Receive(k) \/ Log(k) \/ Intended(k)
        \/ Finish(k) \/ Settle(k) \/ Answer(k)
    \/ Crash

Spec == Init /\ [][Next]_pipelineVars
=============================================================================
