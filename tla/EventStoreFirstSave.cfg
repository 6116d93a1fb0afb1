CONSTANTS
    Clients = {c1, c2}
    Aggregates = {a1, a2}
    NoAggregate = none
    Existing = {a1}
    NewVersion = 1
    MaxVersion = 3
    MaxBatch = 2
    MaxFaults = 1
SPECIFICATION Spec
INVARIANT
    FirstSavePasses
