--------------------------- MODULE AuditLogProofs ---------------------------
(***************************************************************************)
(* Proofs about AuditLog for every set of callers and bodies and every     *)
(* bound.  They are made for Steps, the steps of the log without the bound *)
(* on its lines, so that a module with another bound can use them.         *)
(***************************************************************************)
EXTENDS AuditLog, SequenceTheorems, TLAPS

\* ChainIntact made inductive.  Without an overlap at most one append is in
\* progress; between its steps the stored hash is that of the last line,
\* except after the write, when the line is one ahead of it.
SequentialInv ==
    ~overlapped /\ ~torn =>
        /\ verify_chain(file)
        /\ \A c, d \in InProgress : c = d
        /\ status = "up" /\ InProgress = {} => last = TipOf(file)
        /\ \A c \in InProgress :
            /\ calls[c].at = "read" => last = TipOf(file) /\ calls[c].prev = last
            /\ calls[c].at = "wrote" => TipOf(file) = EntryOf(c).hash

\* LinksNeverDangle made inductive.  Every hash the process holds, stored or
\* copied by a caller, is GENESIS or stands in the file.
TreeInv ==
    ~torn =>
        /\ newline
        /\ Linked(last)
        /\ \A c \in InProgress :
            /\ Linked(calls[c].prev)
            /\ calls[c].at = "wrote" => Linked(EntryOf(c).hash)
        /\ LinksNeverDangle

IInv == TypeOK /\ SequentialInv /\ TreeInv

\* Next, but append may begin however long the file is.
Steps ==
    \/ Open \/ Crash \/ PowerLoss
    \/ \E c \in Callers :
        \/ \E b \in Bodies : Begin(c, b)
        \/ WriteOk(c) \/ WriteFails(c) \/ WriteTorn(c) \/ Publish(c) \/ CrashMidWrite(c)

\* The bound on the lines only takes steps away.
LEMMA BoundedSteps == Next => Steps
  BY DEF Next, Steps

-----------------------------------------------------------------------------
(***************************************************************************)
(* What the file and the calls hold.                                       *)
(***************************************************************************)
CallRecords == [at : {"read", "wrote"}, prev : Hashes, body : Bodies]

\* The state of a caller that is inside append, and the line it writes.
LEMMA EntryOfType ==
    ASSUME TypeOK, NEW c \in Callers, calls[c].at # "idle"
    PROVE  /\ calls[c] \in CallRecords
           /\ EntryOf(c) \in Lines
           /\ EntryOf(c).hash \in Hashes
           /\ EntryOf(c).parses
           /\ EntryOf(c).prev = calls[c].prev
           /\ EntryOf(c).hash = entry_hash(EntryOf(c).prev, EntryOf(c).body)
  <1>1. calls[c] \in CallRecords
    BY DEF TypeOK, NoCall, CallRecords
  <1>2. entry_hash(calls[c].prev, calls[c].body) \in Hashes
    BY <1>1 DEF entry_hash, Hashes, CallRecords
  <1> QED BY <1>1, <1>2 DEF EntryOf, Entry, Lines, CallRecords

\* What one more write makes of the file: a line is added, or the
\* unterminated last line is spoilt.  No other line changes.
LEMMA WithLineType ==
    ASSUME file \in Seq(Lines), newline \in BOOLEAN,
           (file = << >>) => newline, NEW line \in Lines
    PROVE  /\ WithLine(line) \in Seq(Lines)
           /\ WithLine(line) # << >>
           /\ \A i \in 1..Len(file) :
                i < Len(file) \/ newline =>
                    i \in 1..Len(WithLine(line)) /\ WithLine(line)[i] = file[i]
  <1>1. CASE newline
    BY <1>1, AppendProperties DEF WithLine
  <1>2. CASE ~newline
    <2>1. Len(file) \in 1..Len(file)
      BY <1>2, EmptySeq
    <2>2. Junk \in Lines
      BY DEF Lines
    <2>3. /\ WithLine(line) \in Seq(Lines)
          /\ Len(WithLine(line)) = Len(file)
          /\ \A j \in 1..Len(file) : j < Len(file) => WithLine(line)[j] = file[j]
      BY <1>2, <2>1, <2>2, ExceptSeq DEF WithLine
    <2>4. WithLine(line) # << >>
      BY <2>1, <2>3, EmptySeq
    <2> QED BY <1>2, <2>3, <2>4
  <1> QED BY <1>1, <1>2

\* The first n lines of the file.
LEMMA PrefixType ==
    ASSUME file \in Seq(Lines), NEW n \in 0..Len(file)
    PROVE  /\ SubSeq(file, 1, n) \in Seq(Lines)
           /\ Len(SubSeq(file, 1, n)) = n
           /\ \A i \in 1..n : SubSeq(file, 1, n)[i] = file[i]
  <1>1. \A i \in 1..n : file[i] \in Lines
    BY ElementOfSeq
  <1>2. Len(file) \in Nat
    BY LenProperties
  <1> QED BY <1>1, <1>2, SubSeqProperties

\* The hash that open stores is a hash.
LEMMA TipType ==
    ASSUME file \in Seq(Lines), verify_chain(file)
    PROVE  TipOf(file) \in Hashes
  <1>1. CASE file = << >>
    BY <1>1 DEF TipOf, GENESIS, Hashes
  <1>2. CASE file # << >>
    <2>1. Len(file) \in 1..Len(file)
      BY <1>2, EmptySeq
    <2>2. file[Len(file)] \in Lines /\ file[Len(file)].parses
      BY <2>1, ElementOfSeq DEF verify_chain
    <2>3. file[Len(file)] # Junk
      BY <2>2 DEF Junk
    <2>4. file[Len(file)].hash \in Hashes
      BY <2>2, <2>3 DEF Lines
    <2> QED BY <1>2, <2>4 DEF TipOf
  <1> QED BY <1>1, <1>2

-----------------------------------------------------------------------------
(***************************************************************************)
(* Type correctness.                                                       *)
(***************************************************************************)
\* The initial state, a log that no process has opened, has the types.
LEMMA InitType == Init => TypeOK
  <1> SUFFICES ASSUME Init PROVE TypeOK
    OBVIOUS
  <1>1. file \in Seq(Lines) /\ last \in Hashes
    BY EmptySeq DEF Init, Hashes, GENESIS
  <1>2. InProgress = {}
    BY DEF Init, InProgress, NoCall
  <1>3. faults \in 0..MaxFaults
    BY AuditConstants DEF Init
  <1>4. calls \in [Callers -> {NoCall} \cup CallRecords]
    BY DEF Init
  <1> QED BY <1>1, <1>2, <1>3, <1>4, Zenon DEF Init, TypeOK, CallRecords

\* Ending the process leaves no call behind.
LEMMA StopType ==
    ASSUME TypeOK, Stop
    PROVE  /\ last' \in Hashes
           /\ status' \in {"down", "up", "refused"}
           /\ calls' \in [Callers -> {NoCall} \cup CallRecords]
           /\ (InProgress = {})'
           /\ overlapped' \in BOOLEAN
  <1>1. last' \in Hashes
    BY DEF Stop, GENESIS, Hashes
  <1>2. (InProgress = {})'
    BY DEF Stop, InProgress, NoCall
  <1> QED BY <1>1, <1>2 DEF Stop, TypeOK

\* A line cut short: the file stays a sequence of lines.
LEMMA TornLineType ==
    ASSUME TypeOK, NEW c \in Callers, TornLine(c)
    PROVE  /\ file' \in Seq(Lines)
           /\ newline' \in BOOLEAN
           /\ (file' = << >>) => newline'
           /\ faults' \in 0..MaxFaults
           /\ torn' \in BOOLEAN
  <1>1. calls[c].at # "idle"
    BY DEF TornLine
  <1>2. {Junk, EntryOf(c)} \subseteq Lines
    BY <1>1, EntryOfType DEF Lines
  <1>3. PICK line \in Lines : file' = WithLine(line)
    BY <1>2 DEF TornLine
  <1>4. file' \in Seq(Lines) /\ file' # << >>
    BY <1>3, WithLineType DEF TypeOK
  <1>5. faults' \in 0..MaxFaults
    BY AuditConstants DEF TornLine, TypeOK
  <1> QED BY <1>4, <1>5 DEF TornLine

\* Every step keeps the types.
LEMMA NextType == TypeOK /\ [Steps]_logVars => TypeOK'
  <1> SUFFICES ASSUME TypeOK, [Steps]_logVars PROVE TypeOK'
    OBVIOUS
  <1>1. CASE UNCHANGED logVars
    BY <1>1 DEF TypeOK, logVars, InProgress
  <1>2. CASE Open
    <2>1. last' \in Hashes
      BY <1>2, TipType, EmptySeq DEF Open, TypeOK, GENESIS, Hashes
    <2>2. (InProgress = {})'
      BY <1>2 DEF Open, TypeOK, InProgress
    <2>3. faults' \in 0..MaxFaults
      BY <1>2, AuditConstants DEF Open, TypeOK
    <2> QED BY <1>2, <2>1, <2>2, <2>3 DEF Open, TypeOK
  <1>3. CASE Crash
    <2>1. Stop /\ faults' \in 0..MaxFaults
      BY <1>3, AuditConstants DEF Crash, TypeOK
    <2> QED BY <1>3, <2>1, StopType DEF Crash, TypeOK, CallRecords
  <1>4. CASE PowerLoss
    <2>1. Stop /\ faults' \in 0..MaxFaults
      BY <1>4, AuditConstants DEF PowerLoss, TypeOK
    <2>2. PICK n \in 1..Len(file) :
            \/ file' = SubSeq(file, 1, n - 1) /\ newline' = TRUE /\ UNCHANGED torn
            \/ /\ \E line \in {Junk, file[n]} :
                    file' = Append(SubSeq(file, 1, n - 1), line)
               /\ newline' = FALSE
               /\ torn' = TRUE
      BY <1>4 DEF PowerLoss
    <2>3. n - 1 \in 0..Len(file) /\ file \in Seq(Lines)
      BY LenProperties DEF TypeOK
    <2>4. SubSeq(file, 1, n - 1) \in Seq(Lines)
      BY <2>3, PrefixType
    <2>5. {Junk, file[n]} \subseteq Lines
      <3>1. file[n] \in Lines
        BY <2>3, ElementOfSeq
      <3>2. Junk \in Lines
        BY DEF Lines
      <3> QED BY <3>1, <3>2
    <2>6. /\ file' \in Seq(Lines)
          /\ newline' \in BOOLEAN
          /\ (file' = << >>) => newline'
          /\ torn' \in BOOLEAN
      <3>1. CASE file' = SubSeq(file, 1, n - 1) /\ newline' = TRUE /\ UNCHANGED torn
        BY <2>4, <3>1 DEF TypeOK
      <3>2. ASSUME NEW line \in {Junk, file[n]},
                   file' = Append(SubSeq(file, 1, n - 1), line)
            PROVE  file' \in Seq(Lines) /\ file' # << >>
        BY <2>4, <2>5, <3>2, AppendProperties
      <3> QED BY <2>2, <3>1, <3>2
    <2> QED BY <2>1, <2>6, StopType DEF TypeOK, CallRecords
  <1>5. ASSUME NEW c \in Callers, NEW b \in Bodies, Begin(c, b) PROVE TypeOK'
    <2>1. calls' \in [Callers -> {NoCall} \cup CallRecords]
      BY <1>5 DEF Begin, TypeOK, CallRecords
    <2> QED BY <1>5, <2>1 DEF Begin, TypeOK, CallRecords
  <1>6. ASSUME NEW c \in Callers, WriteOk(c) PROVE TypeOK'
    <2>1. calls[c].at # "idle" /\ status = "up"
      BY <1>6 DEF WriteOk, TypeOK, InProgress
    <2>2. calls[c] \in CallRecords /\ EntryOf(c) \in Lines
      BY <2>1, EntryOfType
    <2>3. file' \in Seq(Lines) /\ file' # << >>
      BY <1>6, <2>2, WithLineType DEF WriteOk, TypeOK
    <2>4. calls' \in [Callers -> {NoCall} \cup CallRecords]
      BY <1>6, <2>2 DEF WriteOk, TypeOK, CallRecords
    <2> QED BY <1>6, <2>1, <2>3, <2>4 DEF WriteOk, TypeOK, CallRecords
  <1>7. ASSUME NEW c \in Callers, WriteFails(c) PROVE TypeOK'
    <2>1. status = "up"
      BY <1>7 DEF WriteFails, TypeOK, InProgress
    <2>2. faults' \in 0..MaxFaults
      BY <1>7, AuditConstants DEF WriteFails, TypeOK
    <2> QED BY <1>7, <2>1, <2>2 DEF WriteFails, TypeOK
  <1>8. ASSUME NEW c \in Callers, WriteTorn(c) PROVE TypeOK'
    <2>1. TornLine(c) /\ status = "up"
      BY <1>8 DEF WriteTorn, TornLine, TypeOK, InProgress
    <2> QED BY <1>8, <2>1, TornLineType DEF WriteTorn, TypeOK
  <1>9. ASSUME NEW c \in Callers, Publish(c) PROVE TypeOK'
    <2>1. calls[c].at # "idle" /\ status = "up"
      BY <1>9 DEF Publish, TypeOK, InProgress
    <2>2. last' \in Hashes
      BY <1>9, <2>1, EntryOfType DEF Publish
    <2> QED BY <1>9, <2>1, <2>2 DEF Publish, TypeOK
  <1>10. ASSUME NEW c \in Callers, CrashMidWrite(c) PROVE TypeOK'
    <2>1. Stop /\ TornLine(c)
      BY <1>10 DEF CrashMidWrite
    <2> QED BY <2>1, StopType, TornLineType DEF TypeOK, CallRecords
  <1> QED BY <1>1, <1>2, <1>3, <1>4, <1>5, <1>6, <1>7, <1>8, <1>9, <1>10 DEF Steps

\* TypeOK holds in every state of every behaviour of the audit log.
THEOREM TypeCorrect == Spec => []TypeOK
  BY InitType, NextType, BoundedSteps, PTL DEF Spec

-----------------------------------------------------------------------------
(***************************************************************************)
(* The chain.                                                              *)
(***************************************************************************)
\* An entry made from the hash of the last line extends an accepted chain.
LEMMA ChainExtends ==
    ASSUME file \in Seq(Lines), verify_chain(file), NEW e \in Lines,
           e.parses, e.prev = TipOf(file), e.hash = entry_hash(e.prev, e.body)
    PROVE  verify_chain(Append(file, e)) /\ TipOf(Append(file, e)) = e.hash
  <1> DEFINE f == Append(file, e)
  <1>1. /\ f # << >>
        /\ Len(f) = Len(file) + 1
        /\ Len(file) \in Nat
        /\ \A i \in 1..Len(file) : f[i] = file[i]
        /\ f[Len(file) + 1] = e
    BY AppendProperties, LenProperties
  <1> HIDE DEF f
  <1>2. \A i \in 1..Len(f) : f[i].parses
    BY <1>1 DEF verify_chain
  <1>3. ASSUME NEW i \in 1..Len(f)
        PROVE  /\ f[i].prev = IF i = 1 THEN GENESIS ELSE f[i-1].hash
               /\ f[i].hash = entry_hash(f[i].prev, f[i].body)
    <2>1. CASE i \in 1..Len(file)
      <3>1. i # 1 => i - 1 \in 1..Len(file)
        BY <1>1, <2>1
      <3> QED BY <1>1, <2>1, <3>1 DEF verify_chain
    <2>2. CASE i = Len(file) + 1
      <3>1. CASE file = << >>
        BY <1>1, <2>2, <3>1, EmptySeq DEF TipOf
      <3>2. CASE file # << >>
        <4>1. Len(file) \in 1..Len(file)
          BY <3>2, EmptySeq
        <4> QED BY <1>1, <2>2, <3>2, <4>1 DEF TipOf
      <3> QED BY <3>1, <3>2
    <2> QED BY <1>1, <2>1, <2>2
  <1>4. verify_chain(f)
    BY <1>2, <1>3 DEF verify_chain
  <1>5. TipOf(f) = e.hash
    BY <1>1 DEF TipOf
  <1> QED BY <1>4, <1>5 DEF f

\* What is left of an accepted chain after its tail is cut is accepted.
LEMMA ChainPrefix ==
    ASSUME file \in Seq(Lines), verify_chain(file), NEW n \in 0..Len(file)
    PROVE  verify_chain(SubSeq(file, 1, n))
  <1>1. Len(file) \in Nat
    BY LenProperties
  <1>2. \A i \in 1..n : i \in 1..Len(file) /\ (i # 1 => i - 1 \in 1..n)
    BY <1>1
  <1> QED BY <1>2, PrefixType DEF verify_chain

\* A step that ends the process without cutting a line short keeps
\* SequentialInv if the file it leaves is an accepted chain.
LEMMA StopSequential ==
    ASSUME TypeOK, Stop, ~overlapped => verify_chain(file')
    PROVE  SequentialInv'
  <1>1. status' # "up" /\ (InProgress = {})' /\ overlapped' = overlapped
    BY StopType DEF Stop
  <1>2. ~overlapped' => verify_chain(file)'
    BY <1>1 DEF verify_chain, entry_hash, GENESIS
  <1> QED BY <1>1, <1>2 DEF SequentialInv

\* Every step keeps SequentialInv.
LEMMA NextSequential == IInv /\ [Steps]_logVars => SequentialInv'
  <1> SUFFICES ASSUME TypeOK, SequentialInv, TreeInv, [Steps]_logVars,
                      ~overlapped', ~torn'
               PROVE  SequentialInv'
    BY DEF IInv, SequentialInv
  <1>0. ASSUME ~overlapped, ~torn
        PROVE  /\ verify_chain(file)
               /\ newline
               /\ \A c, d \in InProgress : c = d
               /\ \A c \in InProgress :
                    /\ calls[c].at = "read" =>
                            last = TipOf(file) /\ calls[c].prev = last
                    /\ calls[c].at = "wrote" => TipOf(file) = EntryOf(c).hash
    BY <1>0 DEF SequentialInv, TreeInv
  <1>1. CASE UNCHANGED logVars
    BY <1>1 DEF SequentialInv, logVars, InProgress, EntryOf
  <1>2. CASE Open
    <2>1. ~overlapped /\ ~torn /\ InProgress = {} /\ InProgress' = InProgress
      BY <1>2 DEF Open, TypeOK, InProgress
    <2>2. verify_chain(file') /\ (status' = "up" => last' = TipOf(file'))
      BY <1>0, <1>2, <2>1 DEF Open
    <2> QED BY <2>1, <2>2 DEF SequentialInv
  <1>3. CASE Crash
    <2>1. Stop /\ ~torn /\ file' = file
      BY <1>3 DEF Crash
    <2> QED BY <1>0, <2>1, StopSequential
  <1>4. CASE PowerLoss
    <2>1. Stop
      BY <1>4 DEF PowerLoss
    <2>2. PICK n \in 1..Len(file) : file' = SubSeq(file, 1, n - 1) /\ ~torn
      BY <1>4 DEF PowerLoss
    <2>3. n - 1 \in 0..Len(file) /\ file \in Seq(Lines)
      BY LenProperties DEF TypeOK
    <2>4. ~overlapped => verify_chain(file')
      BY <1>0, <2>2, <2>3, ChainPrefix
    <2> QED BY <2>1, <2>4, StopSequential
  <1>5. ASSUME NEW c \in Callers, NEW b \in Bodies, Begin(c, b)
        PROVE  SequentialInv'
    <2>1. ~overlapped /\ ~torn /\ InProgress = {} /\ status = "up"
      BY <1>5 DEF Begin
    <2>2. last = TipOf(file)
      BY <2>1 DEF SequentialInv
    <2>3. calls'[c] = [at |-> "read", prev |-> last, body |-> b]
      BY <1>5 DEF Begin, TypeOK
    <2>4. InProgress' = {c}
      BY <1>5, <2>1, <2>3 DEF Begin, InProgress, TypeOK
    <2>5. UNCHANGED <<file, last>>
      BY <1>5 DEF Begin
    <2>6. verify_chain(file)'
      BY <1>0, <2>1, <2>5
    <2> QED BY <2>2, <2>3, <2>4, <2>5, <2>6 DEF SequentialInv
  <1>6. ASSUME NEW c \in Callers, WriteOk(c)
        PROVE  SequentialInv'
    <2>1. ~overlapped /\ ~torn /\ calls[c].at = "read" /\ c \in InProgress
      BY <1>6 DEF WriteOk, InProgress
    <2>2. /\ EntryOf(c) \in Lines
          /\ EntryOf(c).parses
          /\ EntryOf(c).prev = TipOf(file)
          /\ EntryOf(c).hash = entry_hash(EntryOf(c).prev, EntryOf(c).body)
      BY <1>0, <2>1, EntryOfType
    <2>3. file' = Append(file, EntryOf(c))
      BY <1>0, <1>6, <2>1 DEF WriteOk, WithLine
    <2>4. verify_chain(file)' /\ TipOf(file') = EntryOf(c).hash
      BY <1>0, <2>1, <2>2, <2>3, ChainExtends DEF TypeOK
    <2>5. calls[c] \in CallRecords
      BY <2>1, EntryOfType
    <2>6. /\ calls'[c].at = "wrote"
          /\ calls'[c].prev = calls[c].prev
          /\ calls'[c].body = calls[c].body
          /\ \A d \in Callers : d # c => calls'[d] = calls[d]
      BY <1>6, <2>5 DEF WriteOk, TypeOK, CallRecords
    <2>7. EntryOf(c)' = EntryOf(c)
      BY <2>6 DEF EntryOf
    <2>8. InProgress' = InProgress /\ InProgress = {c}
      BY <1>0, <2>1, <2>6 DEF InProgress
    <2> QED BY <2>4, <2>6, <2>7, <2>8 DEF SequentialInv
  <1>7. ASSUME NEW c \in Callers, WriteFails(c)
        PROVE  SequentialInv'
    <2>1. ~overlapped /\ ~torn /\ calls[c].at = "read" /\ c \in InProgress
      BY <1>7 DEF WriteFails, InProgress
    <2>2. InProgress' = {}
      BY <1>0, <1>7, <2>1 DEF WriteFails, InProgress, NoCall, TypeOK
    <2>3. verify_chain(file)' /\ last' = TipOf(file')
      BY <1>0, <1>7, <2>1 DEF WriteFails
    <2> QED BY <2>2, <2>3 DEF SequentialInv
  <1>8. ASSUME NEW c \in Callers, WriteTorn(c)
        PROVE  FALSE
    BY <1>8 DEF WriteTorn, TornLine
  <1>9. ASSUME NEW c \in Callers, Publish(c)
        PROVE  SequentialInv'
    <2>1. ~overlapped /\ ~torn /\ calls[c].at = "wrote" /\ c \in InProgress
      BY <1>9 DEF Publish, InProgress
    <2>2. InProgress' = {}
      BY <1>0, <1>9, <2>1 DEF Publish, InProgress, NoCall, TypeOK
    <2>3. verify_chain(file)' /\ last' = TipOf(file')
      BY <1>0, <1>9, <2>1 DEF Publish
    <2> QED BY <2>2, <2>3 DEF SequentialInv
  <1>10. ASSUME NEW c \in Callers, CrashMidWrite(c)
         PROVE  FALSE
    BY <1>10 DEF CrashMidWrite, TornLine
  <1> QED BY <1>1, <1>2, <1>3, <1>4, <1>5, <1>6, <1>7, <1>8, <1>9, <1>10 DEF Steps

-----------------------------------------------------------------------------
(***************************************************************************)
(* The tree.                                                               *)
(***************************************************************************)
\* A hash that stands in the file still does when the file grew.
LEMMA LinkedGrows ==
    ASSUME \A i \in 1..Len(file) : i \in 1..Len(file') /\ file'[i] = file[i],
           NEW h, Linked(h)
    PROVE  h = GENESIS \/ \E i \in 1..Len(file') : file'[i].hash = h
  BY DEF Linked

\* A step that ends the process without cutting a line short keeps TreeInv
\* if the links of the file it leaves do not dangle.
LEMMA StopTree ==
    ASSUME TypeOK, Stop, newline', LinksNeverDangle'
    PROVE  TreeInv'
  <1>1. (InProgress = {})' /\ last' = GENESIS
    BY StopType DEF Stop
  <1>2. Linked(last)'
    BY <1>1 DEF Linked
  <1> QED BY <1>1, <1>2 DEF TreeInv

\* Every step keeps TreeInv.
LEMMA NextTree == IInv /\ [Steps]_logVars => TreeInv'
  <1> SUFFICES ASSUME TypeOK, TreeInv, [Steps]_logVars, ~torn'
               PROVE  TreeInv'
    BY DEF IInv, TreeInv
  <1>1. CASE UNCHANGED logVars
    BY <1>1 DEF TreeInv, logVars, InProgress, EntryOf, Linked, LinksNeverDangle
  <1>2. CASE Open
    <2>1. ~torn /\ UNCHANGED <<file, newline, calls>>
      BY <1>2 DEF Open
    <2>2. InProgress' = {}
      BY <1>2 DEF Open, TypeOK, InProgress
    <2>3. Linked(last)'
      <3>1. CASE file = << >>
        BY <1>2, <3>1 DEF Open, TipOf, Linked
      <3>2. CASE file # << >>
        <4>1. Len(file) \in 1..Len(file)
          BY <3>2, EmptySeq DEF TypeOK
        <4> QED BY <1>2, <3>2, <4>1 DEF Open, TipOf, Linked
      <3> QED BY <3>1, <3>2
    <2>4. LinksNeverDangle' /\ newline'
      BY <2>1 DEF TreeInv, LinksNeverDangle
    <2> QED BY <2>2, <2>3, <2>4 DEF TreeInv
  <1>3. CASE Crash
    <2>1. Stop /\ ~torn /\ UNCHANGED <<file, newline>>
      BY <1>3 DEF Crash
    <2>2. LinksNeverDangle' /\ newline'
      BY <2>1 DEF TreeInv, LinksNeverDangle
    <2> QED BY <2>1, <2>2, StopTree
  <1>4. CASE PowerLoss
    <2>1. Stop
      BY <1>4 DEF PowerLoss
    <2>2. PICK n \in 1..Len(file) :
            file' = SubSeq(file, 1, n - 1) /\ newline' /\ ~torn
      BY <1>4 DEF PowerLoss
    <2>3. n - 1 \in 0..Len(file) /\ file \in Seq(Lines) /\ Len(file) \in Nat
      BY LenProperties DEF TypeOK
    <2>4. /\ Len(file') = n - 1
          /\ \A i \in 1..(n - 1) : file'[i] = file[i]
      BY <2>2, <2>3, PrefixType
    <2>5. ASSUME NEW i \in 1..Len(file')
          PROVE  \/ file'[i].prev = GENESIS
                 \/ \E j \in 1..(i-1) : file'[j].hash = file'[i].prev
      <3>1. /\ i \in 1..Len(file)
            /\ \A j \in 1..(i-1) : j \in 1..(n-1)
        BY <2>3, <2>4
      <3>2. \/ file[i].prev = GENESIS
            \/ \E j \in 1..(i-1) : file[j].hash = file[i].prev
        BY <2>2, <3>1 DEF TreeInv, LinksNeverDangle
      <3> QED BY <2>4, <3>1, <3>2
    <2>6. LinksNeverDangle'
      BY <2>5 DEF LinksNeverDangle
    <2> QED BY <2>1, <2>2, <2>6, StopTree
  <1>5. ASSUME NEW c \in Callers, NEW b \in Bodies, Begin(c, b)
        PROVE  TreeInv'
    <2>1. ~torn /\ UNCHANGED <<file, newline, last>>
      BY <1>5 DEF Begin
    <2>2. /\ calls'[c].prev = last
          /\ calls'[c].at = "read"
          /\ \A d \in Callers : d # c => calls'[d] = calls[d]
      BY <1>5 DEF Begin, TypeOK
    <2>3. ASSUME NEW d \in InProgress'
          PROVE  /\ Linked(calls[d].prev)'
                 /\ calls'[d].at = "wrote" => Linked(EntryOf(d).hash)'
      <3>1. d \in Callers
        BY DEF InProgress
      <3>2. CASE d = c
        BY <2>1, <2>2, <3>2 DEF TreeInv, Linked
      <3>3. CASE d # c
        BY <2>1, <2>2, <3>1, <3>3 DEF TreeInv, Linked, EntryOf, InProgress
      <3> QED BY <3>2, <3>3
    <2>4. LinksNeverDangle' /\ newline' /\ Linked(last)'
      BY <2>1 DEF TreeInv, LinksNeverDangle, Linked
    <2> QED BY <2>3, <2>4 DEF TreeInv
  <1>6. ASSUME NEW c \in Callers, WriteOk(c)
        PROVE  TreeInv'
    <2>1. /\ ~torn /\ newline /\ newline' /\ last' = last
          /\ calls[c].at = "read" /\ c \in InProgress
      BY <1>6 DEF WriteOk, InProgress, TreeInv
    <2>2. calls[c] \in CallRecords /\ EntryOf(c) \in Lines
          /\ EntryOf(c).prev = calls[c].prev
      BY <2>1, EntryOfType
    <2>3. /\ Len(file') = Len(file) + 1
          /\ Len(file) \in Nat
          /\ \A i \in 1..Len(file) : file'[i] = file[i]
          /\ file'[Len(file) + 1] = EntryOf(c)
      <3>1. file \in Seq(Lines) /\ file' = Append(file, EntryOf(c))
        BY <1>6, <2>1 DEF WriteOk, WithLine, TypeOK
      <3> QED BY <2>2, <3>1, AppendProperties, LenProperties
    <2>4. \A i \in 1..Len(file) : i \in 1..Len(file') /\ file'[i] = file[i]
      BY <2>3
    <2>5. ASSUME NEW h, Linked(h)
          PROVE  h = GENESIS \/ \E i \in 1..Len(file') : file'[i].hash = h
      BY <2>4, <2>5, LinkedGrows
    <2>6. /\ calls'[c].prev = calls[c].prev
          /\ calls'[c].body = calls[c].body
          /\ \A d \in Callers : d # c => calls'[d] = calls[d]
      BY <1>6, <2>2 DEF WriteOk, TypeOK, CallRecords
    <2>7. Linked(last)'
      BY <2>1, <2>5 DEF TreeInv, Linked
    <2>8. ASSUME NEW d \in InProgress'
          PROVE  /\ Linked(calls[d].prev)'
                 /\ calls'[d].at = "wrote" => Linked(EntryOf(d).hash)'
      <3>1. d \in Callers /\ d \in InProgress
        BY <2>1, <2>6 DEF InProgress
      <3>2. calls'[d].prev = calls[d].prev /\ EntryOf(d)' = EntryOf(d)
        BY <2>6, <3>1 DEF EntryOf
      <3>3. Linked(calls[d].prev)'
        BY <2>1, <2>5, <3>1, <3>2 DEF TreeInv, Linked
      <3>4. CASE d = c
        <4>1. Len(file) + 1 \in 1..Len(file')
          BY <2>3
        <4> QED BY <2>3, <3>2, <3>3, <3>4, <4>1 DEF Linked
      <3>5. CASE d # c
        BY <2>1, <2>5, <2>6, <3>1, <3>2, <3>3, <3>5 DEF TreeInv, Linked
      <3> QED BY <3>4, <3>5
    <2>9. ASSUME NEW i \in 1..Len(file')
          PROVE  \/ file'[i].prev = GENESIS
                 \/ \E j \in 1..(i-1) : file'[j].hash = file'[i].prev
      <3>1. CASE i \in 1..Len(file)
        <4>1. \/ file[i].prev = GENESIS
              \/ \E j \in 1..(i-1) : file[j].hash = file[i].prev
          BY <2>1, <3>1 DEF TreeInv, LinksNeverDangle
        <4>2. \A j \in 1..(i-1) : j \in 1..Len(file)
          BY <2>3, <3>1
        <4> QED BY <2>3, <3>1, <4>1, <4>2
      <3>2. CASE i = Len(file) + 1
        <4>1. file'[i].prev = calls[c].prev
          BY <2>2, <2>3, <3>2
        <4>2. Linked(calls[c].prev)
          BY <2>1 DEF TreeInv
        <4>3. 1..(i-1) = 1..Len(file)
          BY <2>3, <3>2
        <4> QED BY <2>3, <4>1, <4>2, <4>3 DEF Linked
      <3> QED BY <2>3, <3>1, <3>2
    <2>10. LinksNeverDangle'
      BY <2>9 DEF LinksNeverDangle
    <2> QED BY <2>1, <2>7, <2>8, <2>10 DEF TreeInv
  <1>7. ASSUME NEW c \in Callers, WriteFails(c)
        PROVE  TreeInv'
    <2>1. ~torn /\ UNCHANGED <<file, newline, last>>
      BY <1>7 DEF WriteFails
    <2>2. \A d \in InProgress' : d \in InProgress /\ calls'[d] = calls[d]
      BY <1>7 DEF WriteFails, InProgress, NoCall, TypeOK
    <2> QED BY <2>1, <2>2 DEF TreeInv, Linked, EntryOf, LinksNeverDangle
  <1>8. ASSUME NEW c \in Callers, WriteTorn(c)
        PROVE  FALSE
    BY <1>8 DEF WriteTorn, TornLine
  <1>9. ASSUME NEW c \in Callers, Publish(c)
        PROVE  TreeInv'
    <2>1. /\ ~torn /\ UNCHANGED <<file, newline>>
          /\ calls[c].at = "wrote" /\ c \in InProgress
      BY <1>9 DEF Publish, InProgress
    <2>2. Linked(last)'
      BY <1>9, <2>1 DEF Publish, TreeInv, Linked
    <2>3. \A d \in InProgress' : d \in InProgress /\ calls'[d] = calls[d]
      BY <1>9 DEF Publish, InProgress, NoCall, TypeOK
    <2> QED BY <2>1, <2>2, <2>3 DEF TreeInv, Linked, EntryOf, LinksNeverDangle
  <1>10. ASSUME NEW c \in Callers, CrashMidWrite(c)
         PROVE  FALSE
    BY <1>10 DEF CrashMidWrite, TornLine
  <1> QED BY <1>1, <1>2, <1>3, <1>4, <1>5, <1>6, <1>7, <1>8, <1>9, <1>10 DEF Steps

-----------------------------------------------------------------------------
(***************************************************************************)
(* The results.                                                            *)
(***************************************************************************)
\* The inductive invariant holds in the initial state.
LEMMA InitInductive == Init => IInv
  <1> SUFFICES ASSUME Init PROVE IInv
    OBVIOUS
  <1>1. TypeOK /\ InProgress = {} /\ Len(file) = 0
    BY InitType, EmptySeq DEF Init, InProgress, NoCall
  <1>2. SequentialInv
    BY <1>1 DEF Init, SequentialInv, verify_chain
  <1>3. TreeInv
    BY <1>1 DEF Init, TreeInv, Linked, LinksNeverDangle
  <1> QED BY <1>1, <1>2, <1>3 DEF IInv

\* Every step keeps the inductive invariant.
LEMMA NextInductive == IInv /\ [Steps]_logVars => IInv'
  BY NextType, NextSequential, NextTree DEF IInv

\* The inductive invariant holds in every state of every behaviour.
LEMMA Inductive == Spec => []IInv
  BY InitInductive, NextInductive, BoundedSteps, PTL DEF Spec

\* Without overlapping appends and without a line cut short, verify_chain
\* accepts the log in every state.
THEOREM ChainStaysIntact == Spec => []ChainIntact
  <1>1. IInv => ChainIntact
    BY DEF IInv, SequentialInv, ChainIntact
  <1> QED BY <1>1, Inductive, PTL

\* However appends overlap, prev_hash_b64 never names a hash that is not in
\* the file before it.
THEOREM LogStaysATree == Spec => []LinksNeverDangle
  <1>1. IInv => LinksNeverDangle
    BY DEF IInv, TreeInv, LinksNeverDangle
  <1> QED BY <1>1, Inductive, PTL

\* While the process runs, no append changes a terminated line.
THEOREM LogIsAppendOnly == Spec => TerminatedLinesStay
  <1> DEFINE Kept == (status = "up" /\ status' = "up") =>
                        \A i \in 1..Len(file) :
                            i < Len(file) \/ newline =>
                                i \in 1..Len(file') /\ file'[i] = file[i]
  <1>1. TypeOK /\ [Steps]_logVars => [Kept]_logVars
    <2> SUFFICES ASSUME TypeOK, Steps, status = "up", status' = "up"
                 PROVE  \A i \in 1..Len(file) :
                            i < Len(file) \/ newline =>
                                i \in 1..Len(file') /\ file'[i] = file[i]
      OBVIOUS
    <2>1. CASE file' = file
      BY <2>1
    <2>2. ASSUME NEW c \in Callers, WriteOk(c) \/ WriteTorn(c)
          PROVE  \E line \in Lines : file' = WithLine(line)
      <3>1. calls[c].at # "idle"
        BY <2>2 DEF WriteOk, WriteTorn, TornLine
      <3>2. {Junk, EntryOf(c)} \subseteq Lines
        BY <3>1, EntryOfType DEF Lines
      <3> QED BY <2>2, <3>2 DEF WriteOk, WriteTorn, TornLine
    <2>3. CASE \E line \in Lines : file' = WithLine(line)
      BY <2>3, WithLineType DEF TypeOK
    <2>4. ~Stop
      BY DEF Stop
    <2>5. file' = file \/ \E line \in Lines : file' = WithLine(line)
      BY <2>2, <2>4 DEF Steps, Open, Crash, PowerLoss, Begin, WriteFails, Publish,
                        CrashMidWrite
    <2> QED BY <2>1, <2>3, <2>5
  <1> QED BY <1>1, TypeCorrect, BoundedSteps, PTL DEF Spec, TerminatedLinesStay

\* The safety half of RestartsAfterStop: AuditLog::open has not refused.
OwnLogOpens == ~overlapped /\ ~torn => status # "refused"

\* Only Open ends in "refused", and only for a chain verify_chain rejects.
LEMMA StepOpens == IInv /\ OwnLogOpens /\ [Steps]_logVars => OwnLogOpens'
  <1> SUFFICES ASSUME IInv, OwnLogOpens, [Steps]_logVars PROVE OwnLogOpens'
    OBVIOUS
  <1>1. CASE UNCHANGED logVars
    BY <1>1, Zenon DEF OwnLogOpens, logVars
  <1>2. CASE Open
    <2>1. CASE verify_chain(file)
      <3>1. status' = "up" \/ status' = "down"
        BY <1>2, <2>1, Zenon DEF Open
      <3> QED
        BY <3>1 DEF OwnLogOpens
    <2>2. CASE ~verify_chain(file)
      <3>1. overlapped \/ torn
        BY <2>2, Zenon DEF IInv, SequentialInv
      <3>2. overlapped' = overlapped /\ torn' = torn
        BY <1>2, Zenon DEF Open
      <3> QED
        BY <3>1, <3>2, Zenon DEF OwnLogOpens
    <2> QED
      BY <2>1, <2>2
  <1>3. CASE Crash \/ PowerLoss \/ \E c \in Callers : CrashMidWrite(c)
    <2>1. status' = "down"
      BY <1>3 DEF Crash, PowerLoss, CrashMidWrite, Stop
    <2> QED
      BY <2>1 DEF OwnLogOpens
  <1>4. ASSUME NEW c \in Callers, \/ \E b \in Bodies : Begin(c, b)
                                  \/ WriteOk(c) \/ WriteFails(c) \/ WriteTorn(c) \/ Publish(c)
        PROVE  OwnLogOpens'
    <2>1. calls[c].at # "idle" => status = "up"
      BY DEF IInv, TypeOK, InProgress
    <2>2. status = "up" /\ status' = status
      BY <1>4, <2>1 DEF Begin, WriteOk, WriteFails, WriteTorn, TornLine, Publish
    <2> QED
      BY <2>2 DEF OwnLogOpens
  <1> QED
    BY <1>1, <1>2, <1>3, <1>4 DEF Steps

\* A gateway whose appends never overlapped and whose lines are whole is never
\* refused its own log (AuditLog::open, src/src/audit.rs:74-87), whatever writes
\* failed and wherever it was stopped.
THEOREM OwnLogAlwaysOpens == Spec => []OwnLogOpens
  <1>1. Init => OwnLogOpens
    BY DEF Init, OwnLogOpens
  <1> QED
    BY <1>1, StepOpens, InitInductive, NextInductive, BoundedSteps, PTL DEF Spec
=============================================================================
