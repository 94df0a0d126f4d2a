CONSTANTS
    None = None
    Count = Count
    Ext = Ext
    Malformed = Malformed
    u1 = u1
    u2 = u2
    h1 = h1
    l1 = l1
    poll = poll
    Hosts = {h1}
    JobManagerOf <- MCJobManagerOf
    DirtRoundTrip <- MCDirtRoundTrip
    Dns = {d1}
    Executables = {e1}
    JobTypes = {single}
    StdAttrs <- MCStdAttrs
    StdBitfields <- MCStdBitfields
    ExtAttrLists <- MCExtAttrLists
    StagingFields <- MCStagingFields
    MaxPackets = 2
    MaxBatches = 2
    RollbackOnError = FALSE
    StorageFaults = FALSE
    Restarts = TRUE
SPECIFICATION Spec
INVARIANT UniqueExecutables
