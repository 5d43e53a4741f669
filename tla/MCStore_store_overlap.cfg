SPECIFICATION Spec
CONSTANTS
    worker = worker
    cancel = cancel
    client = client
    canceling = canceling
    succeeded = succeeded
    i1 = i1
    i2 = i2
    i3 = i3
    i4 = i4
    i5 = i5
    None = None
    Unreadable = Unreadable
    Savers = {worker, cancel}
    Readers = {client}
    Values = {canceling, succeeded}
    Length <- RecordLength
    Inodes = {i1, i2, i3, i4, i5}
    MayOverlap = TRUE
    MaxFaults = 0
    MaxCrashes = 0
SYMMETRY Symmetry
INVARIANT
    NeverCorrupt
