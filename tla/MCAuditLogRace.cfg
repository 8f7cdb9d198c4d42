\* No fault but one crash: what two overlapping appends leave behind.
CONSTANTS
    Callers = {c1, c2}
    Bodies = {b1}
    MaxLines = 3
    MaxFaults = 1
SYMMETRY Symmetry
SPECIFICATION Spec
INVARIANT RefusesOnlyForeignChanges
CHECK_DEADLOCK FALSE
