\* One signing client, one fault.
CONSTANTS
    k1 = k1
    k2 = k2
    Conns = {k2}
    CnOf <- MCCnOf
    authz <- MCAuthz
    integrity_label = "seal"
    Requests <- TwoLines
    Certs = {"fine"}
    KeyLabels <- MCLabels
    Objects <- MCObjects
    Slots = {s1}
    MaxRequests = 2
    MaxLines = 4
    MaxFaults = 1
SPECIFICATION Spec
INVARIANT IntentAlwaysReadable
\* Clients may stop sending requests, and the bounds end every behaviour.
CHECK_DEADLOCK FALSE
