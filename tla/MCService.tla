----------------------------- MODULE MCService ------------------------------
(***************************************************************************)
(* Service for TLC.  A day has two ticks, so that half days occur.         *)
(***************************************************************************)
EXTENDS Service

Cert(cn, from, to) == [cn |-> cn, not_before |-> from, not_after |-> to]

\* Valid for one day, a day and a half, two days; no CN.  The first can have
\* ended a day ago when its client is admitted.
MCCerts == {Cert("app", -1, 1), Cert("app", 0, 3), Cert("app", -2, 2), Cert(NoCn, 0, 2)}

Env(usable, max, warn) == [usable |-> usable, max |-> max, warn |-> warn]

MCEnvs == {Env(TRUE, {1}, {0}), Env(TRUE, {}, {-1}), Env(TRUE, {-1}, {}), Env(FALSE, {}, {})}
=============================================================================
