CONSTANTS
    p1 = p1  p2 = p2  t = t
    x = x  m1 = m1  m2 = m2  c = c  l = l
    None = None  Empty = Empty
    Proc = {p1, p2}
    Tag = {t}
    Index = {x}
    Image = {m1, m2}
    Leaf = {c, l}
    Parts <- MCParts
    Tagged = {m1, x}
    MAX_BLOB_ATTEMPTS = 2
    MaxCommands = 2
    MaxRot = 1
SPECIFICATION Spec
INVARIANTS HubInv ReferrerKept
PROPERTY PushesEnd
CHECK_DEADLOCK FALSE
