SPECIFICATION ClientSpec
CONSTANTS
    Requests = {r1, r2}
    Keys = {k1, k2}
    ChainOf <- MCChainOf
    NotEvm = 0
    Registered = {137, 8217}
    Enabled = {137, 8217}
    Token = "JPYC"
    Grace = 1
    Quotes <- MCQuotes
    Agent = "agent"
    Canonical = {TRUE}
    Skews <- MCSkews
    Horizon = 2
SYMMETRY Symmetry
INVARIANTS ClientTypeOK ReportsAreTrue SecondPaymentNeedsDoubt HonestPaymentVerifies SentIsSigned
CHECK_DEADLOCK FALSE
