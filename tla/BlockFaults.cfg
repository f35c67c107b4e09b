CONSTANTS
    p1 = p1  p2 = p2  r1 = r1  r2 = r2  i1 = i1  i2 = i2
    squashfs = squashfs  ext4 = ext4  big = big  small = small
    NoBootable = NoBootable  NoFs = NoFs
    Squashfs = squashfs  Default = big
    Command = {p1, p2}
    Ref = {r1}
    Bootable = {i1, i2}
    Fs = {squashfs, ext4}
    Flags = {NoFs, ext4}
    Label <- MCLabel
    HostMkfs = {}
    Geometry = {big, small}
    Cramped = {small}
    Overlap = TRUE
    GuestWrites = TRUE
SPECIFICATION Spec
INVARIANTS BlockInv BlockVariant
CONSTRAINT FewDisks
SYMMETRY Symmetry
