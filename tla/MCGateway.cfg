\* Two requests at the same time, one of each client or both refused, with a
\* failed or torn write or a crash between any two steps.
CONSTANTS
    k1 = k1
    k2 = k2
    Conns = {k1, k2}
    CnOf <- MCCnOf
    authz <- MCAuthz
    integrity_label = "seal"
    Requests <- TwoLines
    Certs = {"fine"}
    KeyLabels <- MCLabels
    Objects <- MCObjects
    Slots = {s1}
    MaxRequests = 1
    MaxLines = 4
    MaxFaults = 1
SPECIFICATION FairSpec
INVARIANTS TypeOK IntentBeforeHsm LogAgreesWithAnswer RefusedLeavesNoIntent
PROPERTIES AnswersGetReady ImplementsPipeline
\* Clients may stop sending requests, and the bounds end every behaviour.
CHECK_DEADLOCK FALSE
