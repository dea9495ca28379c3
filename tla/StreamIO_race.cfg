CONSTANTS
    p1 = p1
    t1 = t1
    u1 = u1
    u2 = u2
    nostream = nostream
    zero = zero
    Peer <- MC_Peer
    Task <- MC_Task
    Sender <- MC_Sender
    NoStream = nostream
    Zero = zero
    MaxStreams = 2
    MaxSends = 1
SPECIFICATION Spec
INVARIANTS
    FramesIntact
CHECK_DEADLOCK FALSE
