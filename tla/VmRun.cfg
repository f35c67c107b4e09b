CONSTANTS
    r1 = r1  r2 = r2  p1 = p1
    Run = {r1, r2}
    Ps = {p1}
    ProcId = {1, 2}
    Asked <- MCAsked
    Arch = "x86_64"
    Fw = {"code", "vars"}
SPECIFICATION RunSpec
INVARIANT VmInv
PROPERTY RunsSettle
CHECK_DEADLOCK FALSE
