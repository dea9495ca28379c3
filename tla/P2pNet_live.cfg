CONSTANTS
    n1 = n1
    n2 = n2
    n3 = n3
    m1 = m1
    m2 = m2
    none = none
    Node <- MC_Node2
    BootstrapPeers <- MC_Boot2
    Msg <- MC_Msg
    Lines <- MC_Lines
    NoMsg = none
    Senders <- MC_Seed
    MaxSends = 1
    MaxFaults = 1
SPECIFICATION Spec
PROPERTIES
    StartupCompletes
    LineDelivered
CHECK_DEADLOCK FALSE
