CONSTANTS
    r1 = r1
    r2 = r2
    r3 = r3
    q1 = q1
    q2 = q2
    y1 = y1
    y2 = y2
    NoQuote = NoQuote
    NoReq = NoReq
    Requests <- MCRequests
    Quotes <- MCQuotes
    Ys <- MCYs
    Val <- MCVal
    QuoteAmount <- MCQuoteAmount
    FeeReserve <- MCFeeReserve
    InputFeePpk = 1000
    RemoveChecksQuote = TRUE
    MaxCrashes = 1
SPECIFICATION Spec
SYMMETRY MCSymmetry
CHECK_DEADLOCK FALSE
INVARIANTS
    OneMeltPerQuote
