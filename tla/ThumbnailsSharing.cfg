\* Three calls for two sizes of one image; downloads, resizes, files and the removal of files fail.
CONSTANTS
    r1 = r1  r2 = r2  r3 = r3
    w1 = w1  w2 = w2
    jpg = jpg  gif = gif  raw = raw  txt = txt
    Requests <- ThreeRequests
    Workers = {w1, w2}
    NoWorker = NoWorker
    NoTask = NoTask
    NoInode = 0
    Inodes <- MCInodes
    Files <- JpgOnly
    ImageType <- ImageTypes
    FileSize <- ImageSizes
    Threshold = 3
    Sizes = {"small", ""}
    Cap = 1
    Events = {"io", "remove", "evict"}
    MaxRestarts = 0
SPECIFICATION Spec
SYMMETRY ThreeSymmetric
INVARIANTS
    TypeOK
    TaskOwnership
    ImageLocked
    OneWriterPerFile
    NoTornLeftBehind
PROPERTIES
    WholeOriginalStays
    ImplementsSingleFlight
