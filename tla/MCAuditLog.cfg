\* Two callers, three lines, two faults: an overlap, a fault and a restart
\* with entries before and after it all happen.
CONSTANTS
    Callers = {c1, c2}
    Bodies = {b1, b2}
    MaxLines = 3
    MaxFaults = 2
SPECIFICATION FairSpec
INVARIANTS TypeOK ChainIntact LinksNeverDangle
PROPERTIES TerminatedLinesStay RestartsAfterStop
\* Clients may stop sending requests, and the bounds end every behaviour.
CHECK_DEADLOCK FALSE
