--------------------------- MODULE MCImageLayout ---------------------------
(* Small instances of ImageLayout: two images that share their config, an  *)
(* index over one or both, two processes.                                  *)
EXTENDS ImageLayout, TLC

CONSTANTS p1, p2, a, b, x, m1, m2, c, l

MCLinks  == (x :> {m1, m2}) @@ (m1 :> {c}) @@ (m2 :> {c, l}) @@ (c :> {}) @@ (l :> {})
MCConfig == (m1 :> c) @@ (m2 :> c)

(* A smaller layout: an index over one image, which has a name of its own  *)
(* when it is built or loaded.                                             *)
MCLinksOne == (x :> {m1}) @@ (m1 :> {c}) @@ (c :> {})

(* What `umf save` packs for the name b.                                   *)
MCArchives == {[entries |-> {[ref |-> b, digest |-> m1]}, blobs |-> {m1, c}]}

Symmetry == Permutations({p1, p2})
============================================================================
