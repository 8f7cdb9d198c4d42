------------------------------ MODULE HsmClient ------------------------------
(***************************************************************************)
(* The PKCS#11 layer of src/src/hsm.rs, called by several threads at once, *)
(* and the part of PKCS#11 it depends on.                                  *)
(*                                                                         *)
(* Each of the six functions opens a session of its own, logs in on it,    *)
(* finds its key and works, and closes the session when the Session value  *)
(* is dropped.  No lock orders the threads.  In PKCS#11 the login belongs  *)
(* to the application, not to the session: C_Login while any session is    *)
(* logged in fails with CKR_USER_ALREADY_LOGGED_IN, and only closing the   *)
(* last session logs out.  A session object, such as the derived key, goes *)
(* with its session.  Taking the token out closes every session.  Several  *)
(* tokens may be plugged in; nothing tells one from another, so whatever   *)
(* sits in the slot that was taken at the start is used, and a token with  *)
(* another PIN or other keys answers with errors.                          *)
(***************************************************************************)
EXTENDS Naturals, Sequences

CONSTANTS
    Callers,   \* threads that call into HsmClient
    Labels,    \* key labels they ask for
    Objects,   \* how many objects a token has per label and class
    Slots      \* slots tokens may appear in

Classes == {"PRIVATE_KEY", "PUBLIC_KEY", "SECRET_KEY"}

NoSlot == "no slot"

ASSUME HsmConstants ==
    /\ Objects \in [Labels -> [Classes -> Nat]]
    /\ NoSlot \notin Slots

VARIABLES
    tokens,    \* the slots with a token in them
    slot,      \* HsmClient.slot, NoSlot while no process is connected
    sessions,  \* the callers whose session is open
    loggedIn,  \* whether the application is logged in
    derived,   \* the callers whose derived key is in the token
    work       \* per caller, the HsmClient call it is in

hsmVars == <<tokens, slot, sessions, loggedIn, derived, work>>

-----------------------------------------------------------------------------
(***************************************************************************)
(* What each function does with its session.                               *)
(***************************************************************************)
Functions == {"sign_ecdsa_sha256", "verify_ecdsa_sha256",
              "encrypt_aes_cbc_pad", "decrypt_aes_cbc_pad",
              "derive_and_encrypt", "derive_and_decrypt"}

\* The functions that take an IV, which must be 16 bytes long.
IvFunctions == {"decrypt_aes_cbc_pad", "derive_and_decrypt"}

\* The class find_key_by_label is called with.
ClassOf(f) ==
    CASE f \in {"sign_ecdsa_sha256", "derive_and_encrypt", "derive_and_decrypt"} ->
            "PRIVATE_KEY"
      [] f = "verify_ecdsa_sha256" -> "PUBLIC_KEY"
      [] OTHER -> "SECRET_KEY"

\* The PKCS#11 calls that follow the login.
Program(f) ==
    CASE f = "sign_ecdsa_sha256" -> <<"find", "sign">>
      [] f = "verify_ecdsa_sha256" -> <<"find", "verify">>
      [] f = "encrypt_aes_cbc_pad" -> <<"find", "random", "encrypt">>
      [] f = "decrypt_aes_cbc_pad" -> <<"find", "decrypt">>
      [] f = "derive_and_encrypt" -> <<"find", "derive", "random", "encrypt">>
      [] f = "derive_and_decrypt" -> <<"find", "derive", "decrypt">>

Idle == [at |-> "idle"]

\* The call of c after it ended with a result but before its session, if it
\* has one, is dropped; and after it returned.
Ending(c, result) ==
    [at |-> "drop", f |-> work[c].f, alone |-> work[c].alone, result |-> result]

Returned(f, alone, result) ==
    [at |-> "returned", f |-> f, alone |-> alone, result |-> result]

-----------------------------------------------------------------------------
(***************************************************************************)
(* The process and the tokens.                                             *)
(***************************************************************************)
\* HsmClient::connect takes the first slot with a token and keeps it.  In
\* which order slots come is up to the PKCS#11 module.
Connect ==
    /\ slot = NoSlot
    /\ slot' \in tokens
    /\ UNCHANGED <<tokens, sessions, loggedIn, derived, work>>

\* Every session is closed, by the end of the process or the removal of the
\* token they are with.
CloseAll ==
    /\ sessions' = {}
    /\ loggedIn' = FALSE
    /\ derived' = {}

Exit ==
    /\ slot # NoSlot
    /\ slot' = NoSlot
    /\ CloseAll
    /\ work' = [c \in Callers |-> Idle]
    /\ UNCHANGED tokens

Unplug(s) ==
    /\ s \in tokens
    /\ tokens' = tokens \ {s}
    /\ \/ s = slot /\ CloseAll
       \/ s # slot /\ UNCHANGED <<sessions, loggedIn, derived>>
    /\ UNCHANGED <<slot, work>>

Plug(s) ==
    /\ s \notin tokens
    /\ tokens' = tokens \cup {s}
    /\ UNCHANGED <<slot, sessions, loggedIn, derived, work>>

-----------------------------------------------------------------------------
(***************************************************************************)
(* One call.                                                               *)
(***************************************************************************)
\* The caller enters a function; ivOk is whether its IV has 16 bytes.
Call(c, f, label, ivOk) ==
    /\ slot # NoSlot
    /\ work[c] = Idle
    /\ work' = [work EXCEPT ![c] =
                    IF f \in IvFunctions /\ ~ivOk
                    THEN Returned(f, TRUE, "error")
                    ELSE [at |-> "open", f |-> f, label |-> label]]
    /\ UNCHANGED <<tokens, slot, sessions, loggedIn, derived>>

\* open_rw_session.  From here on the calls in progress know of each other
\* through the login; alone records that no other session was open beside
\* this one so far.
OpenSession(c) ==
    /\ work[c].at = "open"
    /\ slot \in tokens
    /\ sessions' = sessions \cup {c}
    /\ work' = [d \in Callers |->
                    IF d = c
                    THEN [at |-> "login", f |-> work[c].f, label |-> work[c].label,
                          alone |-> sessions = {}]
                    ELSE IF d \in sessions THEN [work[d] EXCEPT !.alone = FALSE]
                    ELSE work[d]]
    /\ UNCHANGED <<tokens, slot, loggedIn, derived>>

\* The token is gone or sits in another slot now.
NoToken(c) ==
    /\ work[c].at = "open"
    /\ slot \notin tokens
    /\ work' = [work EXCEPT ![c] = Returned(@.f, TRUE, "error")]
    /\ UNCHANGED <<tokens, slot, sessions, loggedIn, derived>>

\* Mutant of Login: the call logs in again on the session it is logged in
\* with.
LoginTwice(c) ==
    /\ work[c].at = "login"
    /\ c \in sessions
    /\ ~loggedIn
    /\ loggedIn' = TRUE
    /\ UNCHANGED <<tokens, slot, sessions, derived, work>>

\* C_Login.
Login(c) ==
    /\ work[c].at = "login"
    /\ c \in sessions
    /\ ~loggedIn
    /\ loggedIn' = TRUE
    /\ work' = [work EXCEPT ![c] =
                    [at |-> "run", f |-> @.f, label |-> @.label, alone |-> @.alone,
                     todo |-> Program(@.f)]]
    /\ UNCHANGED <<tokens, slot, sessions, derived>>

\* Mutant of LoginRefused: the refusal is taken for a login.
LoginTolerated(c) ==
    /\ work[c].at = "login"
    /\ c \in sessions
    /\ loggedIn
    /\ work' = [work EXCEPT ![c] =
                    [at |-> "run", f |-> @.f, label |-> @.label, alone |-> @.alone,
                     todo |-> Program(@.f)]]
    /\ UNCHANGED <<tokens, slot, sessions, loggedIn, derived>>

\* Mutant of LoginRefused: the login is tried again on the open session until
\* it succeeds.
LoginRetried(c) ==
    /\ work[c].at = "login"
    /\ loggedIn
    /\ UNCHANGED hsmVars

\* Mutant of LoginRefused: the error is returned before the session has an
\* owner that closes it.
LoginRefusedLeaks(c) ==
    /\ work[c].at = "login"
    /\ c \in sessions
    /\ loggedIn
    /\ work' = [work EXCEPT ![c] = Returned(@.f, @.alone, "busy")]
    /\ UNCHANGED <<tokens, slot, sessions, loggedIn, derived>>

\* CKR_USER_ALREADY_LOGGED_IN: open_session returns it as an error.
LoginRefused(c) ==
    /\ work[c].at = "login"
    /\ c \in sessions
    /\ loggedIn
    /\ work' = [work EXCEPT ![c] = Ending(c, "busy")]
    /\ UNCHANGED <<tokens, slot, sessions, loggedIn, derived>>

\* find_key_by_label returns a handle only if it is the only one.
FoundOne(c) == Objects[work[c].label][ClassOf(work[c].f)] = 1

\* The session went with the token, or the key is missing or not unique:
\* the next PKCS#11 call, or find_key_by_label, returns an error.
Fails(c) ==
    /\ work[c].at \in {"login", "run"}
    /\ \/ c \notin sessions
       \/ work[c].at = "run" /\ Head(work[c].todo) = "find" /\ ~FoundOne(c)
    /\ work' = [work EXCEPT ![c] = Ending(c, "error")]
    /\ UNCHANGED <<tokens, slot, sessions, loggedIn, derived>>

\* The device reports an error, whatever it was asked.
DeviceFails(c) ==
    /\ \/ /\ work[c].at = "open"
          /\ work' = [work EXCEPT ![c] = Returned(@.f, TRUE, "error")]
       \/ /\ work[c].at \in {"login", "run"}
          /\ work' = [work EXCEPT ![c] = Ending(c, "error")]
    /\ UNCHANGED <<tokens, slot, sessions, loggedIn, derived>>

\* The next PKCS#11 call of the function succeeds.  verify has two ways to
\* end well.
Step(c) ==
    /\ work[c].at = "run"
    /\ c \in sessions
    /\ Head(work[c].todo) = "find" => FoundOne(c)
    /\ derived' = IF Head(work[c].todo) = "derive" THEN derived \cup {c} ELSE derived
    /\ IF Len(work[c].todo) > 1
       THEN work' = [work EXCEPT ![c].todo = Tail(@)]
       ELSE \E result \in IF work[c].f = "verify_ecdsa_sha256"
                          THEN {"ok", "mismatch"} ELSE {"ok"} :
                work' = [work EXCEPT ![c] = Ending(c, result)]
    /\ UNCHANGED <<tokens, slot, sessions, loggedIn>>

\* Mutant of Drop: the session is never closed.
DropNothing(c) ==
    /\ work[c].at = "drop"
    /\ work' = [work EXCEPT ![c] = Returned(@.f, @.alone, @.result)]
    /\ UNCHANGED <<tokens, slot, sessions, loggedIn, derived>>

\* Mutant of Drop: every call logs out before it closes its session.
DropLogsOut(c) ==
    /\ work[c].at = "drop"
    /\ sessions' = sessions \ {c}
    /\ derived' = derived \ {c}
    /\ loggedIn' = FALSE
    /\ work' = [work EXCEPT ![c] = Returned(@.f, @.alone, @.result)]
    /\ UNCHANGED <<tokens, slot>>

\* Mutant of Drop: the derived key is a token object, Token(true).
DropKeepsDerived(c) ==
    /\ work[c].at = "drop"
    /\ sessions' = sessions \ {c}
    /\ loggedIn' = (loggedIn /\ sessions' # {})
    /\ work' = [work EXCEPT ![c] = Returned(@.f, @.alone, @.result)]
    /\ UNCHANGED <<tokens, slot, derived>>

\* The function returns: its local session goes out of scope, which calls
\* C_CloseSession, and a Token(false) key goes with it.
Drop(c) ==
    /\ work[c].at = "drop"
    /\ sessions' = sessions \ {c}
    /\ derived' = derived \ {c}
    /\ loggedIn' = (loggedIn /\ sessions' # {})
    /\ work' = [work EXCEPT ![c] = Returned(@.f, @.alone, @.result)]
    /\ UNCHANGED <<tokens, slot>>

\* The caller takes the result.
Take(c) ==
    /\ work[c].at = "returned"
    /\ work' = [work EXCEPT ![c] = Idle]
    /\ UNCHANGED <<tokens, slot, sessions, loggedIn, derived>>

-----------------------------------------------------------------------------
Init ==
    /\ tokens \in SUBSET Slots
    /\ slot = NoSlot
    /\ sessions = {}
    /\ loggedIn = FALSE
    /\ derived = {}
    /\ work = [c \in Callers |-> Idle]

\* What a call that was entered does by itself, device errors aside.
Proceed(c) ==
    \/ OpenSession(c) \/ NoToken(c)
    \/ Login(c) \/ LoginRefused(c)
    \/ Step(c) \/ Fails(c)
    \/ Drop(c)
    \/ Take(c)

Next ==
    \/ Connect \/ Exit
    \/ \E s \in Slots : Unplug(s) \/ Plug(s)
    \/ \E c \in Callers :
        \/ \E f \in Functions, label \in Labels, ivOk \in BOOLEAN : Call(c, f, label, ivOk)
        \/ Proceed(c)
        \/ DeviceFails(c)

Spec == Init /\ [][Next]_hsmVars

\* Every thread is scheduled, and every PKCS#11 call returns.
FairSpec == Spec /\ \A c \in Callers : WF_hsmVars(Proceed(c))

-----------------------------------------------------------------------------
(***************************************************************************)
(* Properties.                                                             *)
(***************************************************************************)
Results == {"ok", "mismatch", "error", "busy"}

Commands == {"find", "derive", "random", "sign", "verify", "encrypt", "decrypt"}

OpeningCalls == [at : {"open"}, f : Functions, label : Labels]

LoginCalls == [at : {"login"}, f : Functions, label : Labels, alone : BOOLEAN]

RunningCalls == [at : {"run"}, f : Functions, label : Labels, alone : BOOLEAN,
                 todo : Seq(Commands)]

EndedCalls == [at : {"drop", "returned"}, f : Functions, alone : BOOLEAN, result : Results]

\* The variables have their types.  A thread is inside HsmClient only while
\* the process is connected, and a session belongs to a call that uses it.
TypeOK ==
    /\ tokens \subseteq Slots
    /\ slot \in Slots \cup {NoSlot}
    /\ sessions \subseteq {c \in Callers : work[c].at \in {"login", "run", "drop"}}
    /\ loggedIn \in BOOLEAN
    /\ derived \subseteq Callers
    /\ work \in [Callers -> {Idle} \cup OpeningCalls \cup LoginCalls
                                \cup RunningCalls \cup EndedCalls]
    /\ slot = NoSlot => \A c \in Callers : work[c] = Idle

\* The calls that work on the token through a session that is still open.
Working == {c \in sessions : work[c].at = "run"}

\* The refused login acts as a lock: never do two calls work on the token at
\* the same time.
OneCallWorks == \A c, d \in Working : c = d

\* A call that works on the token is logged in until it ends: that other
\* calls fail and close their sessions beside it never logs it out.
WorkIsLoggedIn == Working # {} => loggedIn

\* A call that has returned, whether it worked, was refused, failed or lost
\* its token, leaves nothing behind on the token: its session is closed, its
\* derived key is gone, and if the application is logged in at all it is
\* through the open session of a call that has yet to return, so the login
\* goes with the calls in progress and a later call can log in.
NothingIsLeft ==
    LET held == {c \in Callers : work[c].at \in {"login", "run", "drop"}}
    IN  /\ sessions \cup derived \subseteq held
        /\ loggedIn => sessions \cap held # {}

\* "session-local ... and never leaves the HSM" (src/src/hsm.rs:172-174): a
\* derived key exists only while the derive call that made it has its
\* session open, and there is never more than one.
DerivedKeyIsSessionLocal ==
    /\ \A c \in derived :
        /\ c \in sessions
        /\ work[c].f \in {"derive_and_encrypt", "derive_and_decrypt"}
        /\ work[c].at \in {"run", "drop"}
    /\ \A c, d \in derived : c = d

\* A call is told that the user is already logged in only if another call
\* had a session open beside its own.
OnlyOverlapIsBusy ==
    \A c \in Callers :
        work[c].at \in {"drop", "returned"} /\ work[c].result = "busy" => ~work[c].alone

\* Every call of HsmClient returns.
CallsReturn == \A c \in Callers : work[c].at # "idle" ~> work[c].at = "idle"

=============================================================================
