---------------------------- MODULE MCBlockCache ----------------------------
(* Two bootable images, one of them labelled ext4, and two geometries.     *)
EXTENDS BlockCache, FiniteSets, TLC

CONSTANTS p1, p2, r1, r2, i1, i2, squashfs, ext4, big, small

MCLabel == (i1 :> NoFs) @@ (i2 :> ext4)

(* The bound on the disks that are in the cache at a time.                 *)
MaxDisks == 1
FewDisks == Cardinality(files) <= MaxDisks

Symmetry == Permutations({p1, p2})
============================================================================
