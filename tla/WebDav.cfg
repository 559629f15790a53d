CONSTANTS
    None = None
    reader = reader
    writer = writer
    Subjects = {"webdav", "rewrite"}
    c1 = c1
    c2 = c2
    Clients = {c1, c2}
    Contents <- MCContents
    Rewrites <- MCRewrites
    Absent = Absent
    NoObject = NoObject
    MaxU64 = 9
    MaxSize = 3
    MaxRequests = 4
SPECIFICATION MCSpec
INVARIANTS  DavWritesAreConditional DownloadsNeverMix
PROPERTY RewritesAreAtomic
CHECK_DEADLOCK FALSE
