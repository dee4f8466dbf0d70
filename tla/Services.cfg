\* Calls: two calls for most clients, three over two event loops for the gateway,
\* with limits of one and two; chains of six for documents.  Each request is tried
\* twice, and there is a new key, id or row for every attempt.  The index may be
\* made anew once, and then not be backed by a bucket.  Four entries in pages of one
\* and two, the second a directory.  The job suspends twice; batches are of two.
\* Four spans, three frames or waiting generators at a time.
\* Three tool calls of five kinds, as many expected; two guardrails of seventeen
\* kinds, two rules.
CONSTANTS
    c1 = c1
    c2 = c2
    nx = nx
    ny = ny
    ei = ei
    ej = ej
    fa = fa
    fb = fb
    ta = ta
    tb = tb
    td = td
    tx = tx
    ka = ka
    kb = kb
    newModel = newModel
    pa = pa
    pb = pb
    bigA = bigA
    smallA = smallA
    smallB = smallB
    smallX = smallX
    lineA = lineA
    lineB = lineB
    lineC = lineC
    bigLine = bigLine
    nameRow = nameRow
    otherRow = otherRow
    blankRow = blankRow
    ga = ga
    gb = gb
    gx = gx
    gi = gi
    go = go
    Callers = {c1, c2}
    GatewayCalls = {c1, c2, c3}
    AttachmentKeys = {k0, k1, k2, k3, k4}
    GivenAttachments = {k0}
    IndexIds = {i1, i2}
    Bucketed = {i1}
    MaxIngestions = 2
    PollingTimeout = 2
    MaxDocumentCalls = 6
    Limits = {1}
    Default = 2
    Configs = {ka, kb}
    Models = {newModel}
    Rejecting <- Shown
    MaxLoops = 2
    Listing = 4
    Directories = {2}
    Takes = {1, 2}
    MaxSkip = 3
    MaxKeys = 2
    WorkIds = {j0, j1, j2, j3, j4}
    GivenJob = j0
    MaxTriggers = 2
    MaxItems = 2
    Rows = {r1, r2, r3, r4, r5, r6, r7, r8, r9, r10}
    GivenRows = {r1, r2}
    BatchSize = 2
    ResourceNames = {nx, ny}
    EntityIds = {ei, ej}
    Folders = {fa, fb}
    Contexts <- UpToTwo
    EntitySets <- OneOrTwo
    MaxSpans = 4
    MaxOpen = 3
    Tools <- SomeTools
    ExpectedCalls <- SomeWanted
    Sanitized <- Spellings
    MaxToolCalls = 3
    MaxWanted = 3
    Guards <- SomeGuards
    MaxGuards = 2
    Signatures <- OneOrTwoParameters
    Excluded = {gx}
    InFields = {gi}
    OutFields = {go}
    Contents <- SomeContents
    MaxRules = 2
    NoKey = NoKey
    NoId = NoId
    None = None
    MaxRetryAttempts = 2
SPECIFICATION MCSpec
SYMMETRY Symmetry
INVARIANTS
    StoresKept
    DocumentsTrue
    GatewayKeepsLimit
    PagesAddUp
    ChangesKept
    WrappersHold
    CallsScored
    VerdictsRight
\* The calls have ended.
CHECK_DEADLOCK FALSE
