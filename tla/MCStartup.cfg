CONSTANTS
    mode = mode
    user = user
    on = on
    own = own
    lib = lib
    sys = sys
    Unset = Unset
    NoSite = NoSite
    Variables = {mode, user}
    Values = {on}
    Configured <- MCConfigured
    Directories = {own, lib, sys}
    SitePackages = {own, NoSite}
    LibraryLists <- MCLibraryLists
    StartPaths <- MCStartPaths
    MaxTouches = 2
SPECIFICATION Spec
INVARIANTS TypeOK VariablesRestored PathRestoredExactly PrecedenceWhenLive
PROPERTIES ForeignKept
CHECK_DEADLOCK FALSE
