SPECIFICATION RetrySpec
CONSTANTS
    n1 = n1
    n2 = n2
    c1 = c1
    c2 = c2
    c3 = c3
    c4 = c4
    c5 = c5
    c6 = c6
    Namespace <- TwoNamespaces
    Listed <- Labelled
    Cred <- Creds
    Proxy = TRUE
    Faults = {"helm", "gitea", "write", "cancel", "crash"}
    MaxFaults = 2
INVARIANTS UpdateTakesEffect RollbackRestores ClientsTrusted FailedUpdateRestores
PROPERTIES RepeatedUpdateRepairs
