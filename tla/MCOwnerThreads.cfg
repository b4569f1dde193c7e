CONSTANTS
    f = f
    g = g
    lib = lib
    t1 = t1
    t2 = t2
    c1 = c1
    c2 = c2
    mLib = mLib
    mOther = mOther
    kInt = kInt
    kStr = kStr
    kAlias = kAlias
    kBad = kBad
    sInt = sInt
    sStr = sStr
    gInt = gInt
    gStr = gStr
    Unsupported = Unsupported
    Unbound = Unbound
    NoEntry = NoEntry
    NoTool = NoTool
    NoTarget = NoTarget
    Names = {f, lib}
    ProtectedNames = {lib}
    Tools = {t1, t2}
    StableTools = {}
    Descriptions <- MCDescriptions
    Callables = {c1, c2}
    Modules = {mLib, mOther}
    Tokens = {kAlias, kBad}
    Globals = {gInt, gStr}
    Derive <- MCDerive
    MaxDynamicTools = 2
    MaxRevision = 3
    Binding <- MCBinding
    Home <- MCHome
    ReloadLists <- MCReloadLists
    Background = TRUE
SPECIFICATION OwnerSpec
SYMMETRY Symmetry
INVARIANTS InvokesValidatedObject UnreportedOnlyByCalls
CHECK_DEADLOCK FALSE
