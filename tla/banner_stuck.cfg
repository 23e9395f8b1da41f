SPECIFICATION Spec
CONSTANTS
    r1 = r1
    r2 = r2
    Request <- MCRequests
    Overlap = TRUE
INVARIANTS DisplacedStatusReturns
