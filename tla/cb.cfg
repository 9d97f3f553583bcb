SPECIFICATION BusySpec
CONSTANTS
    p1 = p1
    c1 = c1
    c2 = c2
    PlainCallers = {p1}
    CtxCallers = {c1, c2}
    Threshold = 2
    HalfOpenMax = 2
    Admin = {"ForceOpen", "Reset"}
INVARIANTS ClosedBelowThreshold HalfOpenAdmits
PROPERTIES ImplementsMachine CtxCallReturns Recovery HalfOpenResolves
