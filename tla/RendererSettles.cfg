SPECIFICATION MCSpec
CONSTANTS
  Coords = {0, 1}
  EdgeLength = 1
  Cells = {0, 1}
  InvalidationRadius <- Radii
  Baseline <- Terrain
  ViewerCoords = {0, 1, 3}
  LoadRadius = 0
  RetainRadius = 1
  Air = 0
  DependencyRadius <- Radii
  MaxDependencyRadius = 1
  MeshDistance = 2
  RetainDistance = 3
  VisibleDistance = 1
  MaxJobs = 2
  MeshedPerFrame = 2
  UploadedPerFrame = 2
  DrainedPerFrame = 2
  Cameras <- Places
  SnapshotCellsPerFrame = 4
  BytesUploadedPerFrame = 1
  MaxDisturbances = 1
  TerrainBudget = 2
  Chunks = {0, 1}
  Batches <- UploadBatches
  InitialBlock = 2
  MaxCapacity = 4
  StagingCapacity = 4
  Contexts = 2
  MaxSubmissions = 0
  None = None
PROPERTY RendererSettles
VIEW View
