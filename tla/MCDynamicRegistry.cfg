CONSTANTS
    f = f
    g = g
    h = h
    t1 = t1
    t2 = t2
    t3 = t3
    stable = stable
    c1 = c1
    c2 = c2
    kInt = kInt
    kAlias = kAlias
    kBad = kBad
    sInt = sInt
    sStr = sStr
    gInt = gInt
    gStr = gStr
    Unsupported = Unsupported
    Unbound = Unbound
    NoEntry = NoEntry
    NoTool = NoTool
    Names = {f, g, h}
    ProtectedNames = {}
    Tools = {t1, t2, t3, stable}
    StableTools = {stable}
    Descriptions <- MCDescriptions
    Callables = {c1, c2}
    Modules = {}
    Tokens = {kInt, kAlias, kBad}
    Globals = {gInt, gStr}
    Derive <- MCDerive
    MaxDynamicTools = 2
    MaxRevision = 3
SPECIFICATION Spec
SYMMETRY Symmetry
INVARIANTS TypeOK IndexConsistent WithinCapacity
PROPERTIES RevisionTracksCatalog RevivalIsFresh
