\* One connection.
CONSTANTS
    Conns = {k1}
    Cns = {"app"}
    NoCn = "no cn"
    Certs <- MCCerts
    Day = 2
    Envs <- MCEnvs
    Workers = 1
    MaxTime = 3
SPECIFICATION Spec
INVARIANT HardReject
