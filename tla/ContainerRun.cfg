SPECIFICATION Spec
CONSTANTS
    Request <- MCRequest
    Secret = {"s", "t"}
    Dotted = {"t"}
    Block <- MCBlock
    Call = {"read", "mount", "clone", "chroot", "arch_prctl"}
INVARIANTS IdentityInv HeldWhileRunning LeavesItsResult Confined
PROPERTY Settles
