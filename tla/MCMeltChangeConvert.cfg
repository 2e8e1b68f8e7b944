CONSTANTS
    r1 = r1
    r2 = r2
    b1 = b1
    b2 = b2
    NoReq = NoReq
    Requests <- MCRequests
    Blinded <- MCBlinded
    AmountBits = 3
    KeyOrder = 2
    MaxInput = 5
    MaxFee = 2
    Overspend = 1
    ConversionMayFail = TRUE
SPECIFICATION Spec
SYMMETRY MCSymmetry
INVARIANTS
    NoChangeInflation
CHECK_DEADLOCK FALSE
