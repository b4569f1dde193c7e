CONSTANTS
    Requests = {r1, r2, r3}
    NoRequest = NoRequest
    Changed = Changed
    MaxVersion = 2
SPECIFICATION FairSpec
INVARIANTS TypeOK BehindOnlyIfSilenced
PROPERTIES EventuallyCurrent DiscoveryNeverWaits
CHECK_DEADLOCK FALSE
