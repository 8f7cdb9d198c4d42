\* Every file with up to three accepted permission entries of up to two
\* clients; each may be followed by an entry that fails.
CONSTANTS
    Texts <- MCTexts
    Base64Texts <- MCBase64Texts
    Cns <- MCCns
    Perms <- MCPerms
    integrity_key_label <- MCIntegrity
    MaxPerms = 3
SPECIFICATION Spec
INVARIANTS TypeOK DecisionsFollowFile LastAllowlistDecides
INVARIANTS IntegrityKeyNeverGranted DeriveHasAllowlist OneEntryPerClient
\* The loader returns.
CHECK_DEADLOCK FALSE
