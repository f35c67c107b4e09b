CONSTANTS
    p1 = p1  p2 = p2  i1 = i1  i2 = i2
    base = base  top = top  tar = tar  d1 = d1  d2 = d2
    NoImage = NoImage  NoLayer = NoLayer
    Proc = {p1, p2}
    Image = {i1, i2}
    Layer = {base, top, tar}
    Gzip = {base, top}
    LayersOf <- MCLayersOf
    DiffId <- MCDiffId
SPECIFICATION FairSpec
INVARIANTS ErofsInv StackComplete
PROPERTY StagingEnds
