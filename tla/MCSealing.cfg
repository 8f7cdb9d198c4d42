\* The example client beside one other client with two requests of any kind;
\* one failure or replaced key. The second peer key is in MCSealingReplay.cfg.
CONSTANTS
    Clients = {"demo", "other"}
    authz <- MCAuthz
    integrity_label <- Key
    INTEGRITY_DOMAIN <- Domain
    Labels <- MCLabels
    Peers = {"p"}
    Ivs <- MCIvs
    Plaintexts <- MCPlaintexts
    Ciphertexts <- MCCiphertexts
    SignedTexts <- MCSignedTexts
    MaxRequests = 2
    MaxFaults = 1
    Demo = "demo"
    sign_key <- Zero
    enc_key <- Zero
    other_key <- Base
    hello <- One
    secret <- One
SPECIFICATION DemoSpec
INVARIANTS TypeOK OnlyIssuedIsDecrypted IssuedIsAccepted DemoPasses
PROPERTY ProbesHold
\* The example ends, and the bounds end every behaviour.
CHECK_DEADLOCK FALSE
