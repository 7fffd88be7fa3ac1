SPECIFICATION Spec
CONSTANTS
    pr = pr
    MaxProfiles = 2
    Providers = {pr}
    MaxSecrets = 3
    MaxFaults = 2
    MaxCrashes = 1
CHECK_DEADLOCK FALSE
INVARIANTS SecretsAgree IdentityIsSettled
