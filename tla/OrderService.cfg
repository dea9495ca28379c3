CONSTANTS
    r1 = r1
    r2 = r2
    Request <- MC_Request
    MaxTime <- MC_MaxTime
    MaxOps <- MC_MaxOps
SPECIFICATION Spec
INVARIANTS
    TypeOK
    CreateThenGet
