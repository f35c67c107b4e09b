---------------------------- MODULE MCErofsCache ----------------------------
(* Two images that share their base layer, one of them with a layer that   *)
(* is not gzip: a plain tar, whose digest is also its diff_id.             *)
EXTENDS ErofsCache, TLC

CONSTANTS p1, p2, i1, i2, base, top, tar, d1, d2

MCLayersOf == (i1 :> {base, top}) @@ (i2 :> {base, tar})
MCDiffId   == (base :> d1) @@ (top :> d2) @@ (tar :> tar)

Symmetry == Permutations({p1, p2})
============================================================================
