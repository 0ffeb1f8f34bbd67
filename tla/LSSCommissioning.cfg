SPECIFICATION FairSpec
CONSTANTS
    n1 = n1
    n2 = n2
    Node = {n1, n2}
    Width = 2
    Address <- MCAddress
    Stores = TRUE
    Known = {n2}
    Patient = TRUE
    Spare = 1
    MaxId = 6
    MaxFaults = 2
INVARIANTS
    OnlyFoundIsSelected
    IdsAreUnique
    RateIsKnown
PROPERTIES
    AllGetIds
