SPECIFICATION MCSpec
CONSTANTS
    w1 = w1
    w2 = w2
    c1 = c1
    c2 = c2
    d1 = d1
    d2 = d2
    Worlds = {w1, w2}
    Coords = {c1, c2}
    Deltas = {d1, d2}
    Snapshots <- MCSnapshots
    ChunkDeltas <- MCChunkDeltas
    BulkEdits <- MCBulkEdits
    PlainRoots <- MCPlainRoots
    MaxGeneration = 3
    LateWriteErrors = FALSE
    Uuids = {u1, u2}
    SharedAddress = {u1, u2}
    MaxRevision = 2
    FilesMayFail = TRUE
    None = None
    Broken = Broken
INVARIANTS
    MCTypeOK
    DestinationsAreFree
    SavedProfileIsKept
    ChangesAreStoredOrDirty
    BansAreOnDisk
PROPERTIES
    ImplementsSaveStore
    MaintenanceReclaims
    CurrentOnlyAdvances
VIEW View
SYMMETRY Symmetry
