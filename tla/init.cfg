SPECIFICATION Spec
CONSTANTS
    big = big
    small = small
    NoPayload = NoPayload
    Payload <- TwoPayloads
    Chunks <- ChunksOf
    NodePort <- Ports
    Attempts = 2
    Flags <- FlagSets
    Namespace = {"n1"}
    MaxInits = 3
    Faults = {"api", "chart", "crash", "age"}
    MaxFaults = 2
CHECK_DEADLOCK FALSE
INVARIANTS InjectorServesPayload InjectorRemoved ServicesMatchState ProxyCertsAgree
PROPERTIES InitEnds
