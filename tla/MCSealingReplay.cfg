\* The other client may derive with two peer keys; no failures.
CONSTANTS
    Clients = {"demo", "other"}
    authz <- MCAuthz
    integrity_label <- Key
    INTEGRITY_DOMAIN <- Domain
    Labels <- MCLabels
    Peers = {"p", "q"}
    Ivs <- MCIvs
    Plaintexts <- MCPlaintexts
    Ciphertexts <- MCCiphertexts
    SignedTexts <- MCSignedTexts
    MaxRequests = 2
    MaxFaults = 0
    Demo = "demo"
    sign_key <- Zero
    enc_key <- Zero
    other_key <- Base
    hello <- One
    secret <- One
SPECIFICATION DemoSpec
INVARIANT NoCrossKeyReplay
\* The bounds end every behaviour.
CHECK_DEADLOCK FALSE
