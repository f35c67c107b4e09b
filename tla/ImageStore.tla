----------------------------- MODULE ImageStore -----------------------------
(***************************************************************************)
(* What the image layout promises the commands that read it, with the      *)
(* processes, the temp files, the walks and the copies of index.json left   *)
(* out: a set of stored blobs and a catalogue of named images.  A blob may *)
(* be stored at any time, one that no catalogued image needs may go, and   *)
(* the catalogue is replaced as a whole by one that is complete and in     *)
(* which a name stands for one image.  No step does two of these.          *)
(*                                                                         *)
(* ImageLayout implements this specification, with one proviso: what a     *)
(* `--prune` that overlaps another command takes counts as stored.         *)
(***************************************************************************)
CONSTANTS
    Blob,     \* digests
    Name,     \* reference names
    NoName,   \* an image that is stored without one
    Needs     \* every blob an image consists of, its manifest included

VARIABLES
    stored,   \* the blobs that are there
    catalog   \* the images that can be looked up

store == <<stored, catalog>>

Catalogs == SUBSET [ref : Name \cup {NoName}, digest : Blob]

(* Every blob of every image of C is among those in S.                     *)
Complete(C, S) == \A e \in C : Needs[e.digest] \subseteq S

Unambiguous(C) == \A e, f \in C : e.ref = f.ref /\ e.ref \in Name => e = f

write_blob ==
    /\ \E d \in Blob : stored' = stored \cup {d}
    /\ UNCHANGED catalog

prune_blobs ==
    /\ \E d \in Blob : stored' = stored \ {d}
    /\ Complete(catalog, stored')
    /\ UNCHANGED catalog

write_index ==
    /\ catalog' \in Catalogs
    /\ Complete(catalog', stored)
    /\ Unambiguous(catalog')
    /\ UNCHANGED stored

Init == stored = {} /\ catalog = {}

Next == write_blob \/ prune_blobs \/ write_index

Spec == Init /\ [][Next]_store
============================================================================
