\* A resized image, a RAW image, a gif and an unsupported file; the process dies once.
CONSTANTS
    r1 = r1  r2 = r2  r3 = r3
    w1 = w1  w2 = w2
    jpg = jpg  gif = gif  raw = raw  txt = txt
    Requests <- TwoRequests
    Workers = {w1, w2}
    NoWorker = NoWorker
    NoTask = NoTask
    NoInode = 0
    Inodes <- MCInodes
    Files <- AllFiles
    ImageType <- ImageTypes
    FileSize <- ImageSizes
    Threshold = 3
    Sizes = {"medium"}
    Cap = 2
    Events = {"io", "open", "remove", "evict"}
    MaxRestarts = 1
SPECIFICATION Spec
SYMMETRY TwoSymmetric
INVARIANT
    NoDamagedThumbnail
