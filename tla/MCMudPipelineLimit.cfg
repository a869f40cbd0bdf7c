SPECIFICATION Spec
CONSTANTS
    h1 = h1
    h2 = h2
    acl_a = acl_a
    acl_b = acl_b
    None = None
    Hosts = {h1, h2}
    AclNames = {acl_a, acl_b}
    MAX_LEN = 6
    BufferSize = 1
    Encodings <- Utf16
    MaxChunk = 1
    MaxBody = 6
    Files <- MCFiles
    Revisions <- MCRevisions
    Overrides <- MCOverrides
INVARIANT BodyLimited
