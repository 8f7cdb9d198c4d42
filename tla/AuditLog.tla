------------------------------ MODULE AuditLog ------------------------------
(***************************************************************************)
(* The hash-chained audit log of src/src/audit.rs, written by concurrent   *)
(* callers and reopened after a crash.                                     *)
(*                                                                         *)
(* AuditLog::append takes two locks one after the other, never together:   *)
(* it copies last_hash_b64 (lock, clone, unlock), writes the line under    *)
(* the file lock, and stores the new hash under the first lock again.  An  *)
(* append is therefore three steps here, Begin, a Write and Publish, and   *)
(* steps of different callers interleave.                                  *)
(*                                                                         *)
(* SHA-256 is ideal: the hash of an entry is the sequence of all bodies    *)
(* from the first entry of its chain to its own, so two hashes are equal   *)
(* exactly when the whole history below them is.  A body stands for the    *)
(* fields ts, cn, operation, key_label, outcome and detail together.       *)
(***************************************************************************)
EXTENDS Naturals, Sequences

CONSTANTS
    Callers,     \* tasks that call append
    Bodies,      \* what an entry says
    MaxLines,    \* bound on the lines of the file
    MaxFaults    \* bound on I/O errors, torn writes and crashes

ASSUME AuditConstants ==
    /\ MaxLines \in Nat
    /\ MaxFaults \in Nat

VARIABLES
    file,        \* the lines of the log file
    newline,     \* whether the last line of the file is terminated
    last,        \* AuditLog.last_hash_b64
    status,      \* the process: "down", "up", or "refused" by a failed open
    calls,       \* per caller, how far its append has come
    faults,      \* faults so far
    overlapped,  \* history: an append began while another was in progress
    torn         \* history: a write stopped in the middle of a line

logVars == <<file, newline, last, status, calls, faults, overlapped, torn>>

-----------------------------------------------------------------------------
(***************************************************************************)
(* Hashes, entries and lines.                                              *)
(***************************************************************************)
GENESIS == << >>

Hashes == Seq(Bodies)

entry_hash(prev, body) == Append(prev, body)

Entry(prev, body) ==
    [parses |-> TRUE, prev |-> prev, body |-> body,
     hash |-> entry_hash(prev, body)]

\* A line that serde_json does not accept as one Entry.
Junk == [parses |-> FALSE]

Lines == {Junk} \cup [parses : {TRUE}, prev : Hashes, body : Bodies, hash : Hashes]

NoCall == [at |-> "idle"]

InProgress == {c \in Callers : calls[c].at # "idle"}

\* The entry a caller is writing, made from the hash it copied at Begin.
EntryOf(c) == Entry(calls[c].prev, calls[c].body)

\* The hash verify_chain returns for a file it accepts.
TipOf(f) == IF f = << >> THEN GENESIS ELSE f[Len(f)].hash

\* verify_chain returns Ok: every line parses, names the hash of the line
\* before it and carries the hash of its own fields.
verify_chain(f) ==
    /\ \A i \in 1..Len(f) : f[i].parses
    /\ \A i \in 1..Len(f) :
        /\ f[i].prev = IF i = 1 THEN GENESIS ELSE f[i-1].hash
        /\ f[i].hash = entry_hash(f[i].prev, f[i].body)

\* Mutant of WithLine: the file is opened for writing without append(true).
WithLineTruncates(line) == <<line>>

\* The file with the bytes of one more line behind it: they start a new
\* line, or run on behind a last line that was left without its newline, and
\* the joint line no longer parses.
WithLine(line) ==
    IF newline THEN Append(file, line) ELSE [file EXCEPT ![Len(file)] = Junk]

-----------------------------------------------------------------------------
\* Mutant of Open: the chain verify_chain returned is dropped and the log
\* starts over from GENESIS.
OpenForgetsTip ==
    /\ status # "up"
    /\ \/ verify_chain(file) /\ status' = "up"
       \/ ~verify_chain(file) /\ status' = "refused"
    /\ last' = GENESIS
    /\ UNCHANGED <<file, newline, calls, faults, overlapped, torn>>

\* AuditLog::open: an unaccepted chain ends the process with an error; the
\* service manager starts it again, which ends the same way.  An I/O error,
\* of verify_chain or of opening the file to append, ends it too, and the next
\* start may do better.
Open ==
    /\ status # "up"
    /\ \/ /\ verify_chain(file)
          /\ status' = "up"
          /\ last' = TipOf(file)
          /\ UNCHANGED faults
       \/ /\ ~verify_chain(file)
          /\ status' = "refused"
          /\ last' = GENESIS
          /\ UNCHANGED faults
       \/ /\ faults < MaxFaults
          /\ faults' = faults + 1
          /\ status' = "down"
          /\ last' = GENESIS
    /\ UNCHANGED <<file, newline, calls, overlapped, torn>>

\* append, first step: copy last_hash_b64 and build the entry on it.
Begin(c, body) ==
    /\ status = "up"
    /\ calls[c] = NoCall
    /\ calls' = [calls EXCEPT ![c] = [at |-> "read", prev |-> last, body |-> body]]
    /\ overlapped' = (overlapped \/ InProgress # {})
    /\ UNCHANGED <<file, newline, last, status, faults, torn>>

\* append, second step: write_all and flush under the file lock.
WriteOk(c) ==
    /\ calls[c].at = "read"
    /\ file' = WithLine(EntryOf(c))
    /\ newline' = TRUE
    /\ calls' = [calls EXCEPT ![c].at = "wrote"]
    /\ UNCHANGED <<last, status, faults, overlapped, torn>>

\* Mutant of WriteFails: the hash is stored although the write failed.
WriteFailsAdvances(c) ==
    /\ calls[c].at = "read"
    /\ faults < MaxFaults
    /\ faults' = faults + 1
    /\ last' = EntryOf(c).hash
    /\ calls' = [calls EXCEPT ![c] = NoCall]
    /\ UNCHANGED <<file, newline, status, overlapped, torn>>

\* write_all fails before the first byte: append returns the error.
WriteFails(c) ==
    /\ calls[c].at = "read"
    /\ faults < MaxFaults
    /\ faults' = faults + 1
    /\ calls' = [calls EXCEPT ![c] = NoCall]
    /\ UNCHANGED <<file, newline, last, status, overlapped, torn>>

\* Some bytes of the line reach the file: a part of the entry, or all of it
\* but the newline.
TornLine(c) ==
    /\ calls[c].at = "read"
    /\ faults < MaxFaults
    /\ faults' = faults + 1
    /\ \E line \in {Junk, EntryOf(c)} : file' = WithLine(line)
    /\ newline' = FALSE
    /\ torn' = TRUE

\* write_all fails after some bytes (the disk fills up): append returns the
\* error and leaves the bytes where they are.
WriteTorn(c) ==
    /\ TornLine(c)
    /\ calls' = [calls EXCEPT ![c] = NoCall]
    /\ UNCHANGED <<last, status, overlapped>>

\* Mutant of Publish: the stored hash is never replaced.
PublishNothing(c) ==
    /\ calls[c].at = "wrote"
    /\ calls' = [calls EXCEPT ![c] = NoCall]
    /\ UNCHANGED <<file, newline, last, status, faults, overlapped, torn>>

\* append, third step: store the hash and return Ok.
Publish(c) ==
    /\ calls[c].at = "wrote"
    /\ last' = EntryOf(c).hash
    /\ calls' = [calls EXCEPT ![c] = NoCall]
    /\ UNCHANGED <<file, newline, status, faults, overlapped, torn>>

\* Mutant of Stop: a call of the ended process goes on.
StopKeepsCalls ==
    /\ status = "up"
    /\ status' = "down"
    /\ last' = GENESIS
    /\ UNCHANGED <<calls, overlapped>>

\* The process ends: what its tasks and its memory held is gone.
Stop ==
    /\ status = "up"
    /\ status' = "down"
    /\ last' = GENESIS
    /\ calls' = [c \in Callers |-> NoCall]
    /\ UNCHANGED overlapped

Crash ==
    /\ Stop
    /\ faults < MaxFaults
    /\ faults' = faults + 1
    /\ UNCHANGED <<file, newline, torn>>

\* The host loses power.  flush on a std::fs::File does nothing and append
\* never calls sync_data, so any suffix of the file may not have reached the
\* disk: the cut falls between two lines, in a line, or before its newline.
PowerLoss ==
    /\ Stop
    /\ faults < MaxFaults
    /\ faults' = faults + 1
    /\ \E n \in 1..Len(file) :
        \/ /\ file' = SubSeq(file, 1, n - 1)
           /\ newline' = TRUE
           /\ UNCHANGED torn
        \/ /\ \E line \in {Junk, file[n]} :
                file' = Append(SubSeq(file, 1, n - 1), line)
           /\ newline' = FALSE
           /\ torn' = TRUE

CrashMidWrite(c) == Stop /\ TornLine(c)

-----------------------------------------------------------------------------
Init ==
    /\ file = << >>
    /\ newline = TRUE
    /\ last = GENESIS
    /\ status = "down"
    /\ calls = [c \in Callers |-> NoCall]
    /\ faults = 0
    /\ overlapped = FALSE
    /\ torn = FALSE

Next ==
    \/ Open
    \/ Crash
    \/ PowerLoss
    \/ \E c \in Callers :
        \/ Len(file) < MaxLines /\ \E b \in Bodies : Begin(c, b)
        \/ WriteOk(c)
        \/ WriteFails(c)
        \/ WriteTorn(c)
        \/ Publish(c)
        \/ CrashMidWrite(c)

Spec == Init /\ [][Next]_logVars

\* Restart=always: the service manager starts a stopped gateway again, and
\* the disk's errors are finitely many.
FairSpec == Spec /\ WF_logVars(Open)

-----------------------------------------------------------------------------
(***************************************************************************)
(* Properties.                                                             *)
(***************************************************************************)
\* The variables have their types; a caller that is inside append belongs to
\* a running process.
TypeOK ==
    /\ file \in Seq(Lines)
    /\ newline \in BOOLEAN
    /\ (file = << >>) => newline
    /\ last \in Hashes
    /\ status \in {"down", "up", "refused"}
    /\ calls \in [Callers -> {NoCall} \cup
                     [at : {"read", "wrote"}, prev : Hashes, body : Bodies]]
    /\ InProgress # {} => status = "up"
    /\ faults \in 0..MaxFaults
    /\ overlapped \in BOOLEAN
    /\ torn \in BOOLEAN

\* Only two things can make verify_chain reject a log this code wrote: two
\* appends that overlapped, or a line that was cut short.  Failed writes,
\* crashes between the three steps of append and a lost tail do not.
ChainIntact == ~overlapped /\ ~torn => verify_chain(file)

Linked(h) == h = GENESIS \/ \E i \in 1..Len(file) : file[i].hash = h

\* However appends overlap, the log stays a tree: each entry names GENESIS or
\* an entry that stands earlier in the same file, so a forked log can still be
\* read back to its beginning along prev_hash_b64.
LinksNeverDangle ==
    ~torn => \A i \in 1..Len(file) :
                \/ file[i].prev = GENESIS
                \/ \E j \in 1..(i-1) : file[j].hash = file[i].prev

\* While the process runs, no append changes or removes a terminated line:
\* at most an unterminated last line is spoilt by the next write.
TerminatedLinesStay ==
    [][(status = "up" /\ status' = "up") =>
        \A i \in 1..Len(file) :
            i < Len(file) \/ newline =>
                i \in 1..Len(file') /\ file'[i] = file[i]]_logVars

\* A gateway whose appends never overlapped and whose lines are whole comes
\* up again after every stop, once the disk lets it: the chain it left is one
\* it accepts itself.
RestartsAfterStop ==
    (status # "up" /\ ~overlapped /\ ~torn) ~> (status = "up")

\* "a tampered log refuses to open" (src/src/audit.rs:73): with every line
\* written whole by this code and nobody editing the file, open never
\* refuses.
RefusesOnlyForeignChanges == ~torn => status # "refused"

=============================================================================
