SPECIFICATION MCSpec
CONSTANTS
    w1 = w1
    w2 = w2
    c1 = c1
    c2 = c2
    d1 = d1
    d2 = d2
    Worlds = {w1, w2}
    Coords = {c1, c2}
    Deltas = {d1, d2}
    Snapshots <- MCSnapshots
    ChunkDeltas <- MCChunkDeltas
    BulkEdits <- MCBulkEdits
    PlainRoots <- MCPlainRoots
    MaxGeneration = 2
    Uuids = {u1}
    SharedAddress = {u1}
    MaxRevision = 1
    FilesMayFail = TRUE
    LateWriteErrors = TRUE
    None = None
    Broken = Broken
INVARIANT FailuresAreIsolated
VIEW View
