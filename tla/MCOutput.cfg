CONSTANTS
    main = main
    other = other
    Main = main
    Threads = {main, other}
    Lengths = {1, 2}
    Limit = 3
    MaxDisplay = 1
    MaxExecutions = 2
    MaxPrints = 4
    MaxItems = 2
    MaxDepth = 3
    Root = "root"
    Heaps <- MCHeaps
SPECIFICATION Spec
INVARIANTS NothingUnaccounted ExactUnlessOverlapped ResultsExact
PROPERTIES ProtocolKept
CHECK_DEADLOCK FALSE
