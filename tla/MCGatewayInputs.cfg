\* One client sends one request of any kind on connections with any kind
\* of certificate, while tokens come and go.
CONSTANTS
    k1 = k1
    k2 = k2
    Conns = {k1}
    CnOf <- MCCnOf
    authz <- MCAuthz
    integrity_label = "seal"
    Requests <- AllLines
    Certs = {"fine", "expiring", "too_long"}
    KeyLabels <- MCLabels
    Objects <- MCObjects
    Slots = {s1, s2}
    MaxRequests = 1
    MaxLines = 2
    MaxFaults = 1
SPECIFICATION Spec
INVARIANTS HsmOnlyForAllowed
\* Clients may stop sending requests, and the bounds end every behaviour.
CHECK_DEADLOCK FALSE
