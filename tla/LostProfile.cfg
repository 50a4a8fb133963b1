SPECIFICATION ServerSpec
CONSTANTS
    Uuids = {u1}
    SharedAddress = {}
    MaxRevision = 2
    FilesMayFail = FALSE
    None = None
    Broken = Broken
INVARIANT SavedProfileIsRestored
