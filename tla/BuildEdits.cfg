CONSTANTS
    p1 = p1  p2 = p2  c1 = c1  c2 = c2  o1 = o1  o2 = o2
    Torn = Torn
    Proc = {p1, p2}
    Plans <- MCPlans
    Registry <- MCRegistry
    Internal <- MCInternal
    Content = {c1, c2}
    World <- FileWorld
SPECIFICATION FairSpec
INVARIANTS StageInv RunSawLayersBelow
PROPERTY BuildsEnd
