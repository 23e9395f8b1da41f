SPECIFICATION FairSpec
CONSTANTS
    r1 = r1
    r2 = r2
    Request <- MCRequests
    Overlap = FALSE
INVARIANTS StatusIsLatest DisplacedStatusReturns
PROPERTIES StatusConverges ImplementsLayers
