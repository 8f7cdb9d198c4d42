\* Two connections on one worker thread.
CONSTANTS
    Conns = {k1, k2}
    Cns = {"app"}
    NoCn = "no cn"
    Certs <- MCCerts
    Day = 2
    Envs <- MCEnvs
    Workers = 1
    MaxTime = 3
SPECIFICATION FairSpec
INVARIANTS TypeOK LimitsAreKept RestartEnforces
PROPERTIES WorkersSuffice
