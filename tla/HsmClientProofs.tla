--------------------------- MODULE HsmClientProofs ---------------------------
(***************************************************************************)
(* Proofs about HsmClient for every set of threads, labels and slots and   *)
(* every content of the token.                                             *)
(***************************************************************************)
EXTENDS HsmClient, SequenceTheorems, TLAPS

DeriveFunctions == {"derive_and_encrypt", "derive_and_decrypt"}

\* The calls that hold something of the token: it works for them, or has
\* their derived key.
Holders == Working \cup derived

\* Closing the last session logs out.
LoginHasSession == sessions = {} => ~loggedIn

\* The holders of the token are one call, which is logged in.
HolderInv ==
    /\ derived \subseteq sessions
    /\ \A c, d \in Holders : c = d
    /\ Holders # {} => loggedIn
    /\ LoginHasSession

\* Only derive calls derive, and a call that works has something left to do.
DeriveInv ==
    /\ \A c \in derived : work[c].at \in {"run", "drop"} /\ work[c].f \in DeriveFunctions
    /\ \A c \in Callers :
        work[c].at = "run" =>
            /\ work[c].todo # << >>
            /\ \A i \in 1..Len(work[c].todo) :
                work[c].todo[i] = "derive" => work[c].f \in DeriveFunctions

\* A call that is alone when it logs in finds nobody logged in.
AloneInv ==
    /\ \A c \in sessions :
        work[c].at = "login" /\ work[c].alone => sessions = {c} /\ ~loggedIn
    /\ OnlyOverlapIsBusy

IInv == TypeOK /\ HolderInv /\ DeriveInv /\ AloneInv

Work == {Idle} \cup OpeningCalls \cup LoginCalls \cup RunningCalls \cup EndedCalls

-----------------------------------------------------------------------------
(***************************************************************************)
(* Shapes of a call.                                                       *)
(***************************************************************************)
\* What a call holds is told by where it is.
LEMMA WorkShape ==
    ASSUME NEW w \in Work
    PROVE  /\ w.at = "idle" => w = Idle
           /\ w.at = "open" => w \in OpeningCalls
           /\ w.at = "login" => w \in LoginCalls
           /\ w.at = "run" => w \in RunningCalls
           /\ w.at \in {"drop", "returned"} => w \in EndedCalls
           /\ w.at \in {"idle", "open", "login", "run", "drop", "returned"}
  BY DEF Work, Idle, OpeningCalls, LoginCalls, RunningCalls, EndedCalls

\* A program is a sequence of PKCS#11 calls.
LEMMA ProgramType ==
    ASSUME NEW f \in Functions
    PROVE  /\ Program(f) \in Seq(Commands)
           /\ Program(f) # << >>
           /\ \A i \in 1..Len(Program(f)) : Program(f)[i] = "derive" => f \in DeriveFunctions
  <1>1. CASE f \in {"sign_ecdsa_sha256", "verify_ecdsa_sha256", "decrypt_aes_cbc_pad"}
    <2>1. \A x, y \in Commands : <<x, y>> \in Seq(Commands) /\ Len(<<x, y>>) = 2
      OBVIOUS
    <2>2. \E y \in {"sign", "verify", "decrypt"} : Program(f) = <<"find", y>>
      BY <1>1 DEF Program
    <2> QED BY <2>1, <2>2 DEF Commands
  <1>2. CASE f = "encrypt_aes_cbc_pad"
    <2>1. Program(f) = <<"find", "random", "encrypt">>
      BY <1>2 DEF Program
    <2>2. \A x, y, z \in Commands : <<x, y, z>> \in Seq(Commands) /\ Len(<<x, y, z>>) = 3
      OBVIOUS
    <2> QED BY <2>1, <2>2 DEF Commands
  <1>3. CASE f = "derive_and_decrypt"
    <2>1. Program(f) = <<"find", "derive", "decrypt">>
      BY <1>3 DEF Program
    <2>2. \A x, y, z \in Commands : <<x, y, z>> \in Seq(Commands) /\ <<x, y, z>> # << >>
      OBVIOUS
    <2>3. Program(f) \in Seq(Commands) /\ Program(f) # << >>
      BY <2>1, <2>2 DEF Commands
    <2> QED BY <1>3, <2>3 DEF DeriveFunctions
  <1>4. CASE f = "derive_and_encrypt"
    <2>1. Program(f) = <<"find", "derive", "random", "encrypt">>
      BY <1>4 DEF Program
    <2>2. \A w, x, y, z \in Commands : <<w, x, y, z>> \in Seq(Commands) /\ <<w, x, y, z>> # << >>
      OBVIOUS
    <2>3. Program(f) \in Seq(Commands) /\ Program(f) # << >>
      BY <2>1, <2>2 DEF Commands
    <2> QED BY <1>4, <2>3 DEF DeriveFunctions
  <1> QED BY <1>1, <1>2, <1>3, <1>4 DEF Functions

\* An ended call keeps the function and the alone mark of the call.
LEMMA EndingType ==
    ASSUME NEW c, work[c].f \in Functions, work[c].alone \in BOOLEAN,
           NEW r \in Results
    PROVE  /\ Ending(c, r) \in EndedCalls
           /\ Ending(c, r).at = "drop"
           /\ Ending(c, r).f = work[c].f
           /\ Ending(c, r).alone = work[c].alone
           /\ Ending(c, r).result = r
  BY DEF Ending, EndedCalls

\* A returned call is an ended one.
LEMMA ReturnedType ==
    ASSUME NEW f \in Functions, NEW alone \in BOOLEAN, NEW r \in Results
    PROVE  /\ Returned(f, alone, r) \in EndedCalls
           /\ Returned(f, alone, r).at = "returned"
           /\ Returned(f, alone, r).alone = alone
           /\ Returned(f, alone, r).result = r
  BY DEF Returned, EndedCalls

\* A step of c that changes only the call of c keeps the types, if what it
\* makes of the call is one and keeps its session.
LEMMA LocalType ==
    ASSUME TypeOK, NEW c \in Callers, NEW w \in Work,
           work' = [work EXCEPT ![c] = w],
           UNCHANGED <<tokens, slot>>, slot # NoSlot,
           loggedIn' \in BOOLEAN, derived' \subseteq Callers,
           sessions' \subseteq sessions \cup {c},
           c \in sessions' => w.at \in {"login", "run", "drop"}
    PROVE  TypeOK'
  <1>1. work' \in [Callers -> Work]
    BY DEF TypeOK, Work
  <1>2. \A d \in sessions' : d \in Callers /\ work'[d].at \in {"login", "run", "drop"}
    BY DEF TypeOK
  <1> QED BY <1>1, <1>2 DEF TypeOK, Work

-----------------------------------------------------------------------------
(***************************************************************************)
(* Type correctness.                                                       *)
(***************************************************************************)
\* The initial states have the types.
LEMMA InitType == Init => TypeOK
  BY DEF Init, TypeOK, Idle

\* Every step keeps the types.
LEMMA NextType == TypeOK /\ [Next]_hsmVars => TypeOK'
  <1> SUFFICES ASSUME TypeOK, [Next]_hsmVars PROVE TypeOK'
    OBVIOUS
  <1>0. ASSUME NEW c \in Callers
        PROVE  work[c] \in Work /\ (work[c].at # "idle" => slot # NoSlot)
    BY DEF TypeOK, Work, Idle
  <1>1. CASE UNCHANGED hsmVars
    BY <1>1 DEF TypeOK, hsmVars
  <1>2. CASE Connect
    BY <1>2 DEF Connect, TypeOK
  <1>3. CASE Exit
    <2>1. \A c \in Callers : work'[c] = Idle
      BY <1>3 DEF Exit
    <2>2. work' \in [Callers -> {Idle}]
      BY <1>3 DEF Exit
    <2> QED BY <1>3, <2>1, <2>2 DEF Exit, CloseAll, TypeOK
  <1>4. CASE \E s \in Slots : Unplug(s)
    BY <1>4 DEF Unplug, CloseAll, TypeOK
  <1>5. ASSUME NEW s \in Slots, Plug(s) PROVE TypeOK'
    BY <1>5 DEF Plug, TypeOK
  <1>6. ASSUME NEW c \in Callers, NEW f \in Functions, NEW label \in Labels,
               NEW ivOk \in BOOLEAN, Call(c, f, label, ivOk)
        PROVE  TypeOK'
    <2>1. c \notin sessions
      BY <1>6 DEF Call, TypeOK, Idle
    <2>2. Returned(f, TRUE, "error") \in Work
      BY ReturnedType DEF Work, Results
    <2>3. [at |-> "open", f |-> f, label |-> label] \in Work
      BY DEF Work, OpeningCalls
    <2>4. PICK w \in Work : work' = [work EXCEPT ![c] = w]
      BY <1>6, <2>2, <2>3 DEF Call
    <2>5. UNCHANGED <<tokens, slot, sessions, loggedIn, derived>> /\ slot # NoSlot
      BY <1>6 DEF Call
    <2> QED BY <2>1, <2>4, <2>5, LocalType DEF TypeOK
  <1>7. ASSUME NEW c \in Callers, OpenSession(c) PROVE TypeOK'
    <2>1. work[c] \in OpeningCalls /\ slot # NoSlot
      BY <1>0, <1>7, WorkShape DEF OpenSession
    <2>2. ASSUME NEW d \in Callers
          PROVE  /\ work'[d] \in Work
                 /\ d \in sessions' => work'[d].at \in {"login", "run", "drop"}
      <3>1. CASE d = c
        <4>1. work'[d] = [at |-> "login", f |-> work[c].f, label |-> work[c].label,
                          alone |-> sessions = {}]
          BY <1>7, <3>1 DEF OpenSession
        <4>2. work'[d] \in LoginCalls
          BY <2>1, <4>1 DEF OpeningCalls, LoginCalls
        <4> QED BY <4>1, <4>2 DEF Work
      <3>2. CASE d # c /\ d \in sessions
        <4>1. work'[d] = [work[d] EXCEPT !.alone = FALSE]
          BY <1>7, <3>2 DEF OpenSession
        <4>2. work[d].at \in {"login", "run", "drop"} /\ work[d] \in Work
          BY <1>0, <3>2 DEF TypeOK
        <4>3. CASE work[d] \in LoginCalls
          BY <4>1, <4>3 DEF Work, LoginCalls
        <4>4. CASE work[d] \in RunningCalls
          BY <4>1, <4>4 DEF Work, RunningCalls
        <4>5. CASE work[d] \in EndedCalls
          BY <4>1, <4>2, <4>5 DEF Work, EndedCalls
        <4> QED BY <4>2, <4>3, <4>4, <4>5, WorkShape
      <3>3. CASE d # c /\ d \notin sessions
        <4>1. work'[d] = work[d] /\ d \notin sessions'
          BY <1>7, <3>3 DEF OpenSession
        <4> QED BY <1>0, <4>1
      <3> QED BY <3>1, <3>2, <3>3
    <2>3. work' \in [Callers -> Work]
      <3>1. work' = [d \in Callers |-> work'[d]]
        BY <1>7 DEF OpenSession
      <3> QED BY <2>2, <3>1
    <2>4. sessions' \subseteq Callers
      BY <1>7 DEF OpenSession, TypeOK
    <2> QED BY <1>7, <2>1, <2>2, <2>3, <2>4 DEF OpenSession, TypeOK, Work
  <1>8. ASSUME NEW c \in Callers, NoToken(c) PROVE TypeOK'
    <2>1. work[c] \in OpeningCalls /\ slot # NoSlot /\ c \notin sessions
      BY <1>0, <1>8, WorkShape DEF NoToken, TypeOK
    <2>2. Returned(work[c].f, TRUE, "error") \in Work
      BY <2>1, ReturnedType DEF Work, Results, OpeningCalls
    <2> QED BY <1>8, <2>1, <2>2, LocalType DEF NoToken, TypeOK
  <1>9. ASSUME NEW c \in Callers, Login(c) PROVE TypeOK'
    <2>1. work[c] \in LoginCalls /\ slot # NoSlot
      BY <1>0, <1>9, WorkShape DEF Login
    <2> DEFINE w == [at |-> "run", f |-> work[c].f, label |-> work[c].label,
                     alone |-> work[c].alone, todo |-> Program(work[c].f)]
    <2>2. w \in RunningCalls
      BY <2>1, ProgramType DEF LoginCalls, RunningCalls
    <2>3. w \in Work /\ w.at = "run"
      BY <2>2 DEF Work
    <2>4. work' = [work EXCEPT ![c] = w]
      BY <1>9 DEF Login
    <2> HIDE DEF w
    <2> QED BY <1>9, <2>1, <2>3, <2>4, LocalType DEF Login, TypeOK
  <1>10. ASSUME NEW c \in Callers, work[c].at \in {"login", "run"},
                NEW r \in Results, work' = [work EXCEPT ![c] = Ending(c, r)],
                UNCHANGED <<tokens, slot, sessions, loggedIn>>, derived' \subseteq Callers
         PROVE  TypeOK'
    <2>1. work[c] \in LoginCalls \cup RunningCalls /\ slot # NoSlot
      BY <1>0, <1>10, WorkShape
    <2>2. Ending(c, r) \in Work /\ Ending(c, r).at = "drop"
      BY <2>1, EndingType DEF Work, LoginCalls, RunningCalls
    <2> QED BY <1>10, <2>1, <2>2, LocalType DEF TypeOK
  <1>11. ASSUME NEW c \in Callers, LoginRefused(c) PROVE TypeOK'
    BY <1>10, <1>11 DEF LoginRefused, Results, TypeOK
  <1>12. ASSUME NEW c \in Callers, Fails(c) PROVE TypeOK'
    BY <1>10, <1>12 DEF Fails, Results, TypeOK
  <1>13. ASSUME NEW c \in Callers, DeviceFails(c) PROVE TypeOK'
    <2>1. CASE work[c].at = "open"
      <3>1. work[c] \in OpeningCalls /\ slot # NoSlot /\ c \notin sessions
        BY <1>0, <2>1, WorkShape DEF TypeOK
      <3>2. Returned(work[c].f, TRUE, "error") \in Work
        BY <3>1, ReturnedType DEF Work, Results, OpeningCalls
      <3> QED BY <1>13, <2>1, <3>1, <3>2, LocalType DEF DeviceFails, TypeOK
    <2>2. CASE work[c].at # "open"
      BY <1>10, <1>13, <2>2 DEF DeviceFails, Results, TypeOK
    <2> QED BY <2>1, <2>2
  <1>14. ASSUME NEW c \in Callers, Step(c) PROVE TypeOK'
    <2>1. work[c] \in RunningCalls /\ slot # NoSlot
      BY <1>0, <1>14, WorkShape DEF Step
    <2>2. derived' \subseteq Callers
      BY <1>14 DEF Step, TypeOK
    <2>3. CASE Len(work[c].todo) > 1
      <3> DEFINE w == [work[c] EXCEPT !.todo = Tail(@)]
      <3>1. work' = [work EXCEPT ![c] = w]
        BY <1>14, <2>3 DEF Step
      <3>2. Tail(work[c].todo) \in Seq(Commands)
        BY <2>1, <2>3 DEF RunningCalls
      <3>3. w \in RunningCalls
        BY <2>1, <3>2 DEF RunningCalls
      <3>4. w \in Work /\ w.at = "run"
        BY <3>3 DEF Work, RunningCalls
      <3> HIDE DEF w
      <3> QED BY <1>14, <2>1, <2>2, <3>1, <3>4, LocalType DEF Step, TypeOK
    <2>4. CASE ~(Len(work[c].todo) > 1)
      <3>1. PICK r \in Results : work' = [work EXCEPT ![c] = Ending(c, r)]
        BY <1>14, <2>4 DEF Step, Results
      <3> QED BY <1>10, <1>14, <2>2, <3>1 DEF Step
    <2> QED BY <2>3, <2>4
  <1>15. ASSUME NEW c \in Callers, Drop(c) PROVE TypeOK'
    <2>1. work[c] \in EndedCalls /\ slot # NoSlot
      BY <1>0, <1>15, WorkShape DEF Drop
    <2>2. Returned(work[c].f, work[c].alone, work[c].result) \in Work
      BY <2>1, ReturnedType DEF Work, EndedCalls
    <2>3. /\ work' = [work EXCEPT ![c] =
                          Returned(work[c].f, work[c].alone, work[c].result)]
          /\ c \notin sessions' /\ sessions' \subseteq sessions
          /\ derived' \subseteq Callers /\ UNCHANGED <<tokens, slot>>
      BY <1>15 DEF Drop, TypeOK
    <2>4. loggedIn' \in BOOLEAN
      BY <1>15 DEF Drop
    <2> QED BY <2>1, <2>2, <2>3, <2>4, LocalType
  <1>16. ASSUME NEW c \in Callers, Take(c) PROVE TypeOK'
    <2>1. slot # NoSlot /\ c \notin sessions
      BY <1>0, <1>16 DEF Take, TypeOK
    <2> QED BY <1>16, <2>1, LocalType DEF Take, TypeOK, Work
  <1> QED
    BY <1>1, <1>2, <1>3, <1>4, <1>5, <1>6, <1>7, <1>8, <1>9, <1>11, <1>12,
       <1>13, <1>14, <1>15, <1>16
    DEF Next, Proceed

\* TypeOK holds in every state of every behaviour of the PKCS#11 layer.
THEOREM TypeCorrect == Spec => []TypeOK
  BY InitType, NextType, PTL DEF Spec

-----------------------------------------------------------------------------
(***************************************************************************)
(* The login as a lock.                                                    *)
(***************************************************************************)
\* What the call of c becomes in each step, and that no other call changes
\* but for its alone mark, which can only be cleared.
LEMMA OthersStay ==
    ASSUME TypeOK, NEW c \in Callers,
           Proceed(c) \/ DeviceFails(c)
              \/ \E f \in Functions, label \in Labels, ivOk \in BOOLEAN :
                    Call(c, f, label, ivOk)
    PROVE  \A d \in Callers : d # c =>
              /\ work'[d].at = work[d].at
              /\ work[d].at = "run" => work'[d].todo = work[d].todo
              /\ work[d].at \in {"login", "run", "drop", "returned"} =>
                    work'[d].f = work[d].f /\ (work'[d].alone => work[d].alone)
              /\ work[d].at \in {"drop", "returned"} => work'[d].result = work[d].result
  <1>1. CASE OpenSession(c)
    <2> SUFFICES ASSUME NEW d \in Callers, d # c, d \in sessions
                 PROVE  /\ work'[d].at = work[d].at
                        /\ work[d].at = "run" => work'[d].todo = work[d].todo
                        /\ work[d].at \in {"login", "run", "drop", "returned"} =>
                              work'[d].f = work[d].f /\ ~work'[d].alone
                        /\ work[d].at \in {"drop", "returned"} =>
                              work'[d].result = work[d].result
      BY <1>1 DEF OpenSession
    <2>1. work'[d] = [work[d] EXCEPT !.alone = FALSE]
      BY <1>1 DEF OpenSession
    <2>2. work[d] \in LoginCalls \cup RunningCalls \cup EndedCalls
      BY WorkShape DEF TypeOK, Work
    <2> QED BY <2>1, <2>2 DEF LoginCalls, RunningCalls, EndedCalls
  <1>2. CASE ~OpenSession(c)
    <2>1. \A d \in Callers : d # c => work'[d] = work[d]
      BY <1>2 DEF Proceed, DeviceFails, Call, NoToken, Login, LoginRefused, Step, Fails,
                  Drop, Take, TypeOK
    <2> QED BY <2>1
  <1> QED BY <1>1, <1>2

\* A step after which nothing more of the token is held, and no login is
\* new, keeps HolderInv.
LEMMA FewerHolders ==
    ASSUME TypeOK, HolderInv, derived' \subseteq sessions', Holders' \subseteq Holders,
           Holders' # {} => loggedIn', sessions' = {} => ~loggedIn'
    PROVE  HolderInv'
  BY DEF HolderInv, LoginHasSession

\* Every step keeps HolderInv.
LEMMA NextHolder == IInv /\ [Next]_hsmVars => HolderInv'
  <1> SUFFICES ASSUME TypeOK, HolderInv, [Next]_hsmVars PROVE HolderInv'
    BY DEF IInv
  <1>1. CASE UNCHANGED hsmVars
    BY <1>1 DEF HolderInv, Holders, Working, LoginHasSession, hsmVars
  <1>2. CASE Connect \/ \E s \in Slots : Plug(s)
    BY <1>2 DEF Connect, Plug, HolderInv, Holders, Working, LoginHasSession
  <1>3. CASE Exit \/ \E s \in Slots : Unplug(s)
    BY <1>3 DEF Exit, Unplug, CloseAll, HolderInv, Holders, Working, LoginHasSession
  <1>4. ASSUME NEW c \in Callers,
               Proceed(c) \/ DeviceFails(c)
                  \/ \E f \in Functions, label \in Labels, ivOk \in BOOLEAN :
                        Call(c, f, label, ivOk)
        PROVE  HolderInv'
    <2>0. \A d \in Callers : d # c => work'[d].at = work[d].at
      BY <1>4, OthersStay
    <2>1. sessions \subseteq Callers /\ derived \subseteq sessions
      BY DEF TypeOK, HolderInv
    <2>2. CASE Login(c)
      <3>1. Holders = {} /\ ~loggedIn /\ loggedIn' /\ c \in sessions
        BY <2>2 DEF Login, HolderInv
      <3>2. sessions' = sessions /\ derived' = derived
        BY <2>2 DEF Login
      <3>3. Holders' \subseteq {c}
        BY <2>0, <2>1, <3>1, <3>2 DEF Holders, Working
      <3> QED BY <2>1, <3>1, <3>2, <3>3 DEF HolderInv, LoginHasSession
    <2>3. CASE Step(c)
      <3>1. c \in Working /\ UNCHANGED <<sessions, loggedIn>>
        BY <2>3 DEF Step, Working
      <3>2. derived' \subseteq derived \cup {c}
        BY <2>3 DEF Step
      <3>3. Holders' \subseteq Holders
        BY <2>0, <2>1, <3>1, <3>2 DEF Holders, Working
      <3>4. derived' \subseteq sessions'
        BY <2>1, <3>1, <3>2 DEF Working
      <3> QED BY <3>1, <3>3, <3>4, FewerHolders DEF HolderInv, LoginHasSession
    <2>4. CASE Drop(c)
      <3>1. /\ sessions' = sessions \ {c}
            /\ derived' = derived \ {c}
            /\ loggedIn' = (loggedIn /\ sessions' # {})
        BY <2>4 DEF Drop
      <3>2. Holders' \subseteq Holders /\ Holders' \subseteq sessions'
        BY <2>0, <2>1, <3>1 DEF Holders, Working
      <3>3. Holders' # {} => loggedIn'
        BY <3>1, <3>2 DEF HolderInv
      <3>4. sessions' = {} => ~loggedIn'
        BY <3>1
      <3> QED BY <2>1, <3>1, <3>2, <3>3, <3>4, FewerHolders
    <2>5. CASE OpenSession(c)
      <3>1. /\ sessions' = sessions \cup {c} /\ UNCHANGED <<loggedIn, derived>>
            /\ work'[c].at = "login"
        BY <2>5 DEF OpenSession
      <3>2. Holders' \subseteq Holders
        BY <2>0, <2>1, <3>1 DEF Holders, Working
      <3> QED BY <2>1, <3>1, <3>2, FewerHolders DEF HolderInv
    <2>6. CASE ~(Login(c) \/ Step(c) \/ Drop(c) \/ OpenSession(c))
      <3>1. UNCHANGED <<sessions, loggedIn, derived>> /\ work'[c].at # "run"
        BY <1>4, <2>6 DEF Proceed, DeviceFails, Call, NoToken, LoginRefused, Fails, Take,
                          Ending, Returned, Idle, TypeOK
      <3>2. Holders' \subseteq Holders
        BY <2>0, <2>1, <3>1 DEF Holders, Working
      <3> QED BY <2>1, <3>1, <3>2, FewerHolders DEF HolderInv, LoginHasSession
    <2> QED BY <2>2, <2>3, <2>4, <2>5, <2>6
  <1> QED BY <1>1, <1>2, <1>3, <1>4 DEF Next

\* Every step keeps DeriveInv.
LEMMA NextDerive == IInv /\ [Next]_hsmVars => DeriveInv'
  <1> SUFFICES ASSUME TypeOK, HolderInv, DeriveInv, [Next]_hsmVars PROVE DeriveInv'
    BY DEF IInv
  <1>1. CASE UNCHANGED hsmVars
    BY <1>1 DEF DeriveInv, hsmVars
  <1>2. CASE Connect \/ \E s \in Slots : Plug(s)
    BY <1>2 DEF Connect, Plug, DeriveInv
  <1>3. CASE Exit
    BY <1>3 DEF Exit, CloseAll, DeriveInv, Idle
  <1>4. CASE \E s \in Slots : Unplug(s)
    BY <1>4 DEF Unplug, CloseAll, DeriveInv
  <1>5. ASSUME NEW c \in Callers,
               Proceed(c) \/ DeviceFails(c)
                  \/ \E f \in Functions, label \in Labels, ivOk \in BOOLEAN :
                        Call(c, f, label, ivOk)
        PROVE  DeriveInv'
    <2> DEFINE Good(d) ==
            /\ d \in derived' => work'[d].at \in {"run", "drop"}
                                 /\ work'[d].f \in DeriveFunctions
            /\ work'[d].at = "run" =>
                /\ work'[d].todo # << >>
                /\ \A i \in 1..Len(work'[d].todo) :
                    work'[d].todo[i] = "derive" => work'[d].f \in DeriveFunctions
    <2>1. derived \subseteq Callers /\ derived' \subseteq derived \cup {c}
      BY <1>5 DEF Proceed, DeviceFails, Call, OpenSession, NoToken, Login, LoginRefused,
                  Step, Fails, Drop, Take, TypeOK
    <2>2. ASSUME NEW d \in Callers, d # c PROVE Good(d)
      BY <1>5, <2>1, <2>2, OthersStay DEF DeriveInv
    <2>3. work[c] \in Work
      BY DEF TypeOK, Work
    <2>4. Good(c)
      <3>1. CASE Login(c)
        <4>1. work[c] \in LoginCalls /\ c \notin derived'
          BY <2>3, <3>1, WorkShape DEF Login, DeriveInv
        <4>2. /\ work'[c].at = "run"
              /\ work'[c].f = work[c].f
              /\ work'[c].todo = Program(work[c].f)
          BY <3>1 DEF Login, TypeOK
        <4> QED BY <4>1, <4>2, ProgramType DEF LoginCalls
      <3>2. CASE Step(c) /\ Len(work[c].todo) > 1
        <4>1. work[c] \in RunningCalls
          BY <2>3, <3>2, WorkShape DEF Step
        <4>2. work[c].todo \in Seq(Commands) /\ work[c].todo # << >>
          BY <3>2, <4>1, EmptySeq DEF RunningCalls
        <4>3. /\ work'[c].at = "run"
              /\ work'[c].f = work[c].f
              /\ work'[c].todo = Tail(work[c].todo)
          BY <3>2, <4>1 DEF Step, TypeOK, RunningCalls
        <4>4. /\ Len(Tail(work[c].todo)) = Len(work[c].todo) - 1
              /\ \A i \in 1..(Len(work[c].todo) - 1) :
                    Tail(work[c].todo)[i] = work[c].todo[i + 1]
              /\ Head(work[c].todo) = work[c].todo[1]
              /\ Len(work[c].todo) \in Nat \ {0}
          BY <4>2, EmptySeq
        <4>5. c \in derived' => work[c].f \in DeriveFunctions
          BY <3>2, <4>4 DEF Step, DeriveInv
        <4>6. \A i \in 1..(Len(work[c].todo) - 1) : i + 1 \in 1..Len(work[c].todo)
          BY <4>4
        <4>7. Tail(work[c].todo) # << >>
          <5>1. \A n \in Nat \ {0} : n > 1 => n - 1 # 0
            OBVIOUS
          <5>2. Len(work[c].todo) - 1 # 0
            BY <3>2, <4>4, <5>1
          <5>3. Len(Tail(work[c].todo)) # 0
            BY <4>4, <5>2, Zenon
          <5> QED BY <5>3, EmptySeq
        <4>8. \A i \in 1..Len(work[c].todo) :
                work[c].todo[i] = "derive" => work[c].f \in DeriveFunctions
          BY <3>2 DEF Step, DeriveInv
        <4> QED BY <4>3, <4>4, <4>5, <4>6, <4>7, <4>8
      <3>3. CASE Step(c) /\ ~(Len(work[c].todo) > 1)
        <4>1. work[c] \in RunningCalls
          BY <2>3, <3>3, WorkShape DEF Step
        <4>2. PICK r \in Results : work' = [work EXCEPT ![c] = Ending(c, r)]
          BY <3>3 DEF Step, Results
        <4>3. work'[c].at = "drop" /\ work'[c].f = work[c].f
          BY <4>1, <4>2, EndingType DEF TypeOK, RunningCalls
        <4>4. c \in derived' => work[c].f \in DeriveFunctions
          <5>1. CASE c \in derived
            BY <5>1 DEF DeriveInv
          <5>2. CASE c \notin derived /\ Head(work[c].todo) = "derive"
            <6>1. work[c].todo # << >> /\ work[c].todo \in Seq(Commands)
              BY <3>3, <4>1 DEF Step, DeriveInv, RunningCalls
            <6>2. /\ Len(work[c].todo) \in Nat \ {0}
                  /\ Head(work[c].todo) = work[c].todo[1]
              BY <6>1, EmptySeq
            <6> QED BY <3>3, <5>2, <6>2 DEF Step, DeriveInv
          <5> QED BY <3>3, <5>1, <5>2 DEF Step
        <4> QED BY <4>3, <4>4
      <3>4. CASE ~Login(c) /\ ~Step(c)
        <4>1. CASE LoginRefused(c) \/ Fails(c) \/ (DeviceFails(c) /\ work[c].at # "open")
          <5>1. work[c] \in LoginCalls \cup RunningCalls
            BY <2>3, <4>1, WorkShape DEF LoginRefused, Fails, DeviceFails
          <5>2. PICK r \in Results : work' = [work EXCEPT ![c] = Ending(c, r)]
            BY <4>1 DEF LoginRefused, Fails, DeviceFails, Results
          <5>3. work'[c].at = "drop" /\ work'[c].f = work[c].f
            BY <5>1, <5>2, EndingType DEF TypeOK, LoginCalls, RunningCalls
          <5>4. derived' = derived
            BY <4>1 DEF LoginRefused, Fails, DeviceFails
          <5> QED BY <5>3, <5>4 DEF DeriveInv
        <4>2. CASE ~(LoginRefused(c) \/ Fails(c) \/ (DeviceFails(c) /\ work[c].at # "open"))
          <5>1. work'[c].at # "run" /\ c \notin derived'
            BY <1>5, <3>4, <4>2
            DEF Proceed, DeviceFails, Call, OpenSession, NoToken, Drop, Take, Returned, Idle,
                TypeOK, DeriveInv
          <5> QED BY <5>1
        <4> QED BY <4>1, <4>2
      <3> QED BY <3>1, <3>2, <3>3, <3>4
    <2>5. \A d \in Callers : Good(d)
      BY <2>2, <2>4
    <2> QED BY <2>1, <2>5 DEF DeriveInv
  <1> QED BY <1>1, <1>2, <1>3, <1>4, <1>5 DEF Next

\* Every step keeps AloneInv.
LEMMA NextAlone == IInv /\ [Next]_hsmVars => AloneInv'
  <1> SUFFICES ASSUME TypeOK, HolderInv, AloneInv, [Next]_hsmVars PROVE AloneInv'
    BY DEF IInv
  <1>1. CASE UNCHANGED hsmVars
    BY <1>1 DEF AloneInv, OnlyOverlapIsBusy, hsmVars
  <1>2. CASE Connect \/ \E s \in Slots : Plug(s)
    BY <1>2 DEF Connect, Plug, AloneInv, OnlyOverlapIsBusy
  <1>3. CASE Exit
    BY <1>3 DEF Exit, CloseAll, AloneInv, OnlyOverlapIsBusy, Idle
  <1>4. CASE \E s \in Slots : Unplug(s)
    BY <1>4 DEF Unplug, CloseAll, AloneInv, OnlyOverlapIsBusy
  <1>5. ASSUME NEW c \in Callers,
               Proceed(c) \/ DeviceFails(c)
                  \/ \E f \in Functions, label \in Labels, ivOk \in BOOLEAN :
                        Call(c, f, label, ivOk)
        PROVE  AloneInv'
    <2> DEFINE Alone(d) == d \in sessions' /\ work'[d].at = "login" /\ work'[d].alone =>
                               sessions' = {d} /\ ~loggedIn'
               Busy(d) == work'[d].at \in {"drop", "returned"} /\ work'[d].result = "busy" =>
                              ~work'[d].alone
    <2>1. sessions \subseteq Callers /\ sessions' \subseteq sessions \cup {c} /\ work[c] \in Work
      BY <1>5 DEF Proceed, DeviceFails, Call, OpenSession, NoToken, Login, LoginRefused,
                  Step, Fails, Drop, Take, TypeOK, Work
    <2>2. Step(c) => /\ work'[c].at \in {"run", "drop"}
                     /\ work'[c].at = "drop" => work'[c].result # "busy"
      <3> SUFFICES ASSUME Step(c) PROVE /\ work'[c].at \in {"run", "drop"}
                                        /\ work'[c].at = "drop" => work'[c].result # "busy"
        OBVIOUS
      <3>1. work[c] \in RunningCalls
        BY <2>1, WorkShape DEF Step
      <3>2. CASE Len(work[c].todo) > 1
        <4>1. work'[c] = [work[c] EXCEPT !.todo = Tail(@)]
          BY <3>2 DEF Step, TypeOK
        <4> QED BY <3>1, <4>1 DEF RunningCalls
      <3>3. CASE ~(Len(work[c].todo) > 1)
        <4>1. PICK r \in {"ok", "mismatch"} : work' = [work EXCEPT ![c] = Ending(c, r)]
          BY <3>3 DEF Step
        <4> QED BY <4>1 DEF Ending, TypeOK
      <3> QED BY <3>2, <3>3
    <2>3. ASSUME NEW d \in Callers, d # c PROVE Alone(d) /\ Busy(d)
      <3>1. Busy(d)
        BY <1>5, <2>3, OthersStay DEF AloneInv, OnlyOverlapIsBusy
      <3>2. SUFFICES ASSUME d \in sessions', work'[d].at = "login", work'[d].alone
                     PROVE  sessions' = {d} /\ ~loggedIn'
        BY <3>1
      <3>3. d \in sessions /\ work[d].at = "login" /\ work[d].alone
        BY <1>5, <2>1, <2>3, <3>2, OthersStay
      <3>4. sessions = {d} /\ ~loggedIn /\ c \notin sessions
        BY <2>3, <3>3 DEF AloneInv
      <3>5. CASE OpenSession(c)
        <4>1. work'[d] = [work[d] EXCEPT !.alone = FALSE]
          BY <2>3, <3>3, <3>5 DEF OpenSession
        <4>2. work[d] \in LoginCalls
          BY <3>3, WorkShape DEF TypeOK, Work
        <4>3. ~work'[d].alone
          BY <4>1, <4>2 DEF LoginCalls
        <4> QED BY <3>2, <4>3
      <3>6. CASE ~OpenSession(c)
        <4>1. sessions' \subseteq sessions
          BY <1>5, <3>6 DEF Proceed, DeviceFails, Call, NoToken, Login,
                  LoginRefused, Step, Fails, Drop, Take
        <4>2. CASE Drop(c)
          BY <3>4, <4>2, <4>1, <3>2, Zenon DEF Drop
        <4>3. CASE ~Drop(c)
          <5>1. loggedIn' = loggedIn
            BY <1>5, <3>4, <3>6, <4>3 DEF Proceed, DeviceFails, Call, NoToken, Login,
                  LoginRefused, Step, Fails, Take
          <5> QED BY <3>2, <3>4, <4>1, <5>1
        <4> QED BY <4>2, <4>3
      <3> QED BY <3>5, <3>6
    <2>4. Alone(c)
      <3>1. CASE OpenSession(c)
        <4>1. /\ work'[c] = [at |-> "login", f |-> work[c].f, label |-> work[c].label,
                             alone |-> sessions = {}]
              /\ sessions' = sessions \cup {c} /\ loggedIn' = loggedIn
          BY <3>1 DEF OpenSession
        <4> DEFINE alone == sessions = {}
        <4>2. work'[c].alone = alone
          <5>1. work'[c] = [at |-> "login", f |-> work[c].f, label |-> work[c].label,
                            alone |-> alone]
            BY <4>1
          <5> HIDE DEF alone
          <5> QED BY <5>1
        <4> QED BY <4>1, <4>2 DEF HolderInv, LoginHasSession
      <3>2. CASE ~OpenSession(c)
        <4>1. work'[c].at # "login"
          BY <1>5, <2>2, <3>2 DEF Proceed, DeviceFails, Call, NoToken, Login, LoginRefused,
                  Fails, Drop, Take, Ending, Returned, Idle, TypeOK
        <4> QED BY <4>1
      <3> QED BY <3>1, <3>2
    <2>5. Busy(c)
      <3>1. CASE LoginRefused(c)
        <4>1. work[c] \in LoginCalls /\ c \in sessions /\ loggedIn
          BY <2>1, <3>1, WorkShape DEF LoginRefused
        <4>2. ~work[c].alone
          BY <3>1, <4>1 DEF LoginRefused, AloneInv
        <4>3. work' = [work EXCEPT ![c] = Ending(c, "busy")]
          BY <3>1 DEF LoginRefused
        <4>4. work'[c].alone = work[c].alone
          BY <4>1, <4>3, EndingType DEF TypeOK, LoginCalls, Results
        <4> QED BY <4>2, <4>4
      <3>2. CASE Drop(c)
        <4>1. work[c] \in EndedCalls /\ work[c].at = "drop"
          BY <2>1, <3>2, WorkShape DEF Drop
        <4>2. work' = [work EXCEPT ![c] =
                          Returned(work[c].f, work[c].alone, work[c].result)]
          BY <3>2 DEF Drop
        <4>3. work'[c].alone = work[c].alone /\ work'[c].result = work[c].result
          BY <4>1, <4>2, ReturnedType DEF TypeOK, EndedCalls
        <4> QED BY <4>1, <4>3 DEF AloneInv, OnlyOverlapIsBusy
      <3>3. CASE ~LoginRefused(c) /\ ~Drop(c)
        <4>1. work'[c].at \in {"drop", "returned"} => work'[c].result # "busy"
          BY <1>5, <2>2, <3>3 DEF Proceed, DeviceFails, Call, OpenSession, NoToken, Login,
                  Fails, Take, Ending, Returned, Idle, TypeOK
        <4> QED BY <4>1
      <3> QED BY <3>1, <3>2, <3>3
    <2>6. \A d \in Callers : Alone(d) /\ Busy(d)
      BY <2>3, <2>4, <2>5
    <2> QED BY <2>1, <2>6 DEF AloneInv, OnlyOverlapIsBusy
  <1> QED BY <1>1, <1>2, <1>3, <1>4, <1>5 DEF Next

-----------------------------------------------------------------------------
(***************************************************************************)
(* The invariant, and what follows from it.                                *)
(***************************************************************************)
\* The initial states satisfy the invariant: no session is open.
LEMMA InitInductive == Init => IInv
  <1> SUFFICES ASSUME Init PROVE IInv
    OBVIOUS
  <1>1. \A c \in Callers : work[c].at = "idle"
    BY DEF Init, Idle
  <1>2. HolderInv
    BY DEF Init, HolderInv, Holders, Working, LoginHasSession
  <1>3. DeriveInv /\ AloneInv
    BY <1>1 DEF Init, DeriveInv, AloneInv, OnlyOverlapIsBusy
  <1> QED BY <1>2, <1>3, InitType DEF IInv

\* Every step keeps the inductive invariant.
LEMMA NextInductive == IInv /\ [Next]_hsmVars => IInv'
  BY NextType, NextHolder, NextDerive, NextAlone DEF IInv

\* IInv holds in every state of every behaviour of the PKCS#11 layer.
LEMMA Invariance == Spec => []IInv
  BY InitInductive, NextInductive, PTL DEF Spec

\* However many threads call hsm.rs at once, the refused C_Login lets at most
\* one of them work on the token at a time.
THEOREM LoginExcludes == Spec => []OneCallWorks
  <1>1. IInv => OneCallWorks
    BY DEF IInv, HolderInv, Holders, OneCallWorks
  <1> QED BY <1>1, Invariance, PTL

\* A call that works on the token stays logged in although other calls open,
\* fail and close sessions beside it.
THEOREM WorkStaysLoggedIn == Spec => []WorkIsLoggedIn
  <1>1. IInv => WorkIsLoggedIn
    BY DEF IInv, HolderInv, Holders, WorkIsLoggedIn
  <1> QED BY <1>1, Invariance, PTL

\* No path through the functions of hsm.rs, no device error and no removal of
\* a token leaves a session, a login or a derived key behind once its call has
\* returned: each open_session ends in a drop of its Session.
THEOREM CallsLeaveNothing == Spec => []NothingIsLeft
  <1>1. IInv => NothingIsLeft
    BY DEF IInv, HolderInv, LoginHasSession, DeriveInv, TypeOK, NothingIsLeft
  <1> QED BY <1>1, Invariance, PTL

\* The key that derive_aes_key makes lives only in the session of its call,
\* and at most one such key exists.
THEOREM DerivedKeysStayLocal == Spec => []DerivedKeyIsSessionLocal
  <1>1. IInv => DerivedKeyIsSessionLocal
    BY DEF IInv, HolderInv, Holders, DeriveInv, DeriveFunctions, DerivedKeyIsSessionLocal
  <1> QED BY <1>1, Invariance, PTL

\* open_session fails with CKR_USER_ALREADY_LOGGED_IN only for a call whose
\* session was open beside another call's.
THEOREM BusyMeansOverlap == Spec => []OnlyOverlapIsBusy
  <1>1. IInv => OnlyOverlapIsBusy
    BY DEF IInv, AloneInv
  <1> QED BY <1>1, Invariance, PTL
=============================================================================
