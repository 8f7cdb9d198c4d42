\* A decryption of a sealed ciphertext beside a signature, no audit fault.
CONSTANTS
    k1 = k1
    k2 = k2
    Conns = {k1, k2}
    CnOf <- MCCnOf
    authz <- MCAuthz
    integrity_label = "seal"
    Requests <- TwoLines
    Certs = {"fine"}
    KeyLabels <- MCLabels
    Objects <- MCObjects
    Slots = {s1}
    MaxRequests = 1
    MaxLines = 4
    MaxFaults = 0
SPECIFICATION Spec
INVARIANT DeniedIsFinal
\* Clients may stop sending requests, and the bounds end every behaviour.
CHECK_DEADLOCK FALSE
