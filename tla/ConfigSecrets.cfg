SPECIFICATION Spec
CONSTANTS
    Keys <- MCKeys
    SectionOf <- MCSectionOf
    Secrets <- MCSecrets
    SecretKeywords <- MCSecretKeywords
    Order <- MCOrder
    Words = {"a", "b"}
    MaxWords = 2
    MaxRead = 3
    MaxKeys = 1
    Calls = {"c1", "c2"}
    Tool <- MCTool
    Initials <- MCInitials
    Updates <- MCUpdates
    Waits = {0, 1, 3}
    Timeouts = {2, 4}
    WaitMargin = 2
    MaxWrites = 2
INVARIANTS
    SecretsOfSectionsCounted
CHECK_DEADLOCK FALSE
