SPECIFICATION PublishingSpec
CONSTANTS
    u1 = u1
    u2 = u2
    t1 = t1
    p1 = p1
    p2 = p2
    p3 = p3
    x1 = x1
    old = old
    new = new
    Absent = Absent
    None = None
    Uploaders <- MCUploaders
    Targets <- MCTargets
    Paths <- MCPaths
    Escaped <- MCEscaped
    Trees <- MCTrees
    Files <- MCFiles
    MaxFaults = 2
    c1 = c1
    c2 = c2
    u3 = u3
    a = a
    tag = tag
    v1 = v1
    Calls <- MCCalls
    Uploads = {u3}
    Chunks = {a}
    Tags = {tag}
    Versions = {v1}
    MaxBlob = 2
    MaxRepo = 2
    Bodies <- MCBodies
    Artifacts <- MCArtifacts
    Claims <- MCClaims
    MaxFailures = 1
    Jobs <- MCJobs
    PreviewFiles = {"index.html", "page"}
    MaxCommit = 2
    FilesOf <- MCFilesOf
    OutcomeOf <- MCOutcomeOf
    Index = "index.html"
    MaxAsks = 2
    MaxMishaps = 1
INVARIANTS
    PublishingTypeOK
    UploadedStays
    ExactPublish
    RegistryKeepsItsWord
    PreviewsAgree
SYMMETRY Symmetry
CHECK_DEADLOCK FALSE
