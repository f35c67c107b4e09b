CONSTANTS
    c1 = c1  c2 = c2  v1 = v1
    NoNet = NoNet  Other = Other
    Ctr = {c1, c2}
    Vm = {v1}
    Pid <- MCPid
    Blocks = 2
    Stale = {0}
SPECIFICATION Spec
INVARIANTS HostInv NothingLeft AloneServes
