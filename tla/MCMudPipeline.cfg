SPECIFICATION FairSpec
CONSTANTS
    h1 = h1
    h2 = h2
    acl_a = acl_a
    acl_b = acl_b
    None = None
    Hosts = {h1, h2}
    AclNames = {acl_a, acl_b}
    MAX_LEN = 5
    BufferSize = 4
    Encodings <- Charsets
    MaxChunk = 3
    MaxBody = 6
    Files <- MCFiles
    Revisions <- MCRevisions
    Overrides <- MCOverrides
INVARIANTS PipelineTypeOK DownloadComplete DownloadBounded DecidedByFirstAce AcceptedIsPermitted
PROPERTY DownloadEnds
