CONSTANTS
    p1 = p1
    p2 = p2
    t1 = t1
    t2 = t2
    nostream = nostream
    Peer <- MC_Peer
    Task <- MC_Task
    NoStream = nostream
    MaxStreams = 3
SPECIFICATION Spec
SYMMETRY MC_Symmetry
INVARIANTS
    TableHoldsOpen
PROPERTIES
    ImplementsRegistry
CHECK_DEADLOCK FALSE
