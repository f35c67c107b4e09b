CONSTANTS
    p1 = p1  p2 = p2  a = a  b = b
    x = x  m1 = m1  m2 = m2  c = c  l = l
    NoRef = NoRef  NoDigest = NoDigest
    Proc = {p1, p2}
    Ref = {a}
    Digest = {x, m1, m2, c, l}
    Images = {m1, m2}
    Indexes = {x}
    Links   <- MCLinks
    Config  <- MCConfig
    Archives = {}
    Remote = {m2}
    Built = {}
    Composed = {}
    MaxAttempts = 2
    MaxRot = 0
SPECIFICATION FairSpec
PROPERTY CommandsEnd
