CONSTANTS
    p1 = p1  p2 = p2  a = a  b = b
    x = x  m1 = m1  m2 = m2  c = c  l = l
    NoRef = NoRef  NoDigest = NoDigest
    Proc = {p1, p2}
    Ref = {b}
    Digest = {x, m1, c}
    Images = {m1}
    Indexes = {x}
    Links   <- MCLinksOne
    Config  <- MCConfig
    Archives <- MCArchives
    Remote = {x}
    Built = {m1}
    Composed = {x}
    MaxAttempts = 2
    MaxRot = 1
SPECIFICATION Spec
SYMMETRY Symmetry
INVARIANTS IndexClosed LayoutInv
PROPERTY PullDelivers
PROPERTY ImplementsStore
