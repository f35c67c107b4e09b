----------------------------- MODULE ErofsCache -----------------------------
(***************************************************************************)
(* The erofs sidecar cache of the image layout, cache/erofs/<hex>.erofs,    *)
(* and the bundles that mount it.  Bundle::from_image encodes every layer  *)
(* of an image with mkfs.erofs unless the encoded file is there already,   *)
(* mounts the files as overlay lowers, and unpacks the image instead when  *)
(* anything of that fails.  `umf images --prune` collects the cache after  *)
(* the blobs.                                                              *)
(*                                                                         *)
(* The processes share the directory and nothing locks it: one step is one *)
(* lookup, one run of mkfs.erofs, one rename, one mount or one unlink.  A  *)
(* process may be killed between any two, its mounts then staying behind.  *)
(***************************************************************************)
EXTENDS Naturals, FiniteSets

CONSTANTS
    Proc,      \* umf processes
    Image,     \* images that can be tagged
    NoImage,   \* no image in hand
    Layer,     \* digests of compressed layers
    NoLayer,   \* no layer in hand
    LayersOf,  \* the layers of an image
    DiffId,    \* the digest of a layer's uncompressed tar
    Gzip       \* layers that mkfs.erofs --gzip can decode

ASSUME ErofsAssumption ==
    /\ NoImage \notin Image /\ NoLayer \notin Layer
    /\ LayersOf \in [Image -> SUBSET Layer]
    /\ Gzip \subseteq Layer

VARIABLES
    tagged,  \* images index.json names
    blob,    \* layers whose blob file is there
    erofs,   \* what the file cache/erofs/<layer>.erofs holds
    at,      \* where each process is
    img,     \* the image whose bundle it stages
    todo,    \* layers still to encode, mount, or unlink
    cur,     \* the layer being encoded
    tmp,     \* its temp file
    mnt,     \* layers it has mounted
    live,    \* what prune found reachable
    leaked   \* layers that are mounted and have no owner any more

staging   == <<at, img, todo, cur, tmp, mnt, live>>
erofsVars == <<tagged, blob, erofs, staging, leaked>>

Points == {"idle", "ensure", "encode", "persist", "mount", "unpack", "up",
           "sweepblobs", "diffids", "sweep"}

(* The value returned is dropped, and every guard with it.                  *)
Drop(p) ==
    /\ at'   = [at   EXCEPT ![p] = "idle"]
    /\ img'  = [img  EXCEPT ![p] = NoImage]
    /\ todo' = [todo EXCEPT ![p] = {}]
    /\ cur'  = [cur  EXCEPT ![p] = NoLayer]
    /\ tmp'  = [tmp  EXCEPT ![p] = "none"]
    /\ mnt'  = [mnt  EXCEPT ![p] = {}]
    /\ live' = [live EXCEPT ![p] = {}]

(* Faulty variants of FallBack: the temp file of a failed encode stays, or *)
(* the mounts made before the failure do.                                  *)
FallBackLitter(p) ==
    /\ at'   = [at   EXCEPT ![p] = "unpack"]
    /\ todo' = [todo EXCEPT ![p] = LayersOf[img[p]]]
    /\ mnt'  = [mnt  EXCEPT ![p] = {}]
    /\ UNCHANGED <<img, cur, tmp, live>>

FallBackMounted(p) ==
    /\ at'   = [at   EXCEPT ![p] = "unpack"]
    /\ todo' = [todo EXCEPT ![p] = LayersOf[img[p]]]
    /\ cur'  = [cur  EXCEPT ![p] = NoLayer]
    /\ tmp'  = [tmp  EXCEPT ![p] = "none"]
    /\ UNCHANGED <<img, mnt, live>>
(* "erofs lower setup failed; falling back to unpack": the temp file and   *)
(* the mounts made so far are undone on the way.                           *)
FallBack(p) ==
    /\ at'   = [at   EXCEPT ![p] = "unpack"]
    /\ todo' = [todo EXCEPT ![p] = LayersOf[img[p]]]
    /\ cur'  = [cur  EXCEPT ![p] = NoLayer]
    /\ tmp'  = [tmp  EXCEPT ![p] = "none"]
    /\ mnt'  = [mnt  EXCEPT ![p] = {}]
    /\ UNCHANGED <<img, live>>
----------------------------------------------------------------------------
(* Other commands store an image and its blobs, or drop its name.          *)
Tag ==
    /\ \E i \in Image \ tagged :
         tagged' = tagged \cup {i} /\ blob' = blob \cup LayersOf[i]
    /\ UNCHANGED <<erofs, staging, leaked>>

Untag ==
    /\ \E i \in tagged : tagged' = tagged \ {i}
    /\ UNCHANGED <<blob, erofs, staging, leaked>>

(* from_image: one layer that is not gzip opts the image out of erofs.      *)
from_image(p) ==
    /\ at[p] = "idle"
    /\ \E i \in tagged :
         /\ at' = [at EXCEPT ![p] =
                     IF LayersOf[i] # {} /\ LayersOf[i] \subseteq Gzip THEN "ensure" ELSE "unpack"]
         /\ img'  = [img  EXCEPT ![p] = i]
         /\ todo' = [todo EXCEPT ![p] = LayersOf[i]]
    /\ UNCHANGED <<tagged, blob, erofs, cur, tmp, mnt, live, leaked>>

(* ensure_layer_erofs: any file at the path that is not empty is taken for *)
(* a complete encode; otherwise the blob is encoded into a temp file.      *)
ensure_layer_erofs(p) ==
    /\ at[p] = "ensure"
    /\ \E l \in todo[p] :
         \/ /\ erofs[l] # "absent"
            /\ todo' = [todo EXCEPT ![p] = @ \ {l}]
            /\ UNCHANGED <<at, img, cur, tmp, mnt, live>>
         \/ /\ erofs[l] = "absent" /\ l \in blob
            /\ at'  = [at  EXCEPT ![p] = "encode"]
            /\ cur' = [cur EXCEPT ![p] = l]
            /\ tmp' = [tmp EXCEPT ![p] = "partial"]
            /\ UNCHANGED <<img, todo, mnt, live>>
         \/ erofs[l] = "absent" /\ l \notin blob /\ FallBack(p)
    /\ UNCHANGED <<tagged, blob, erofs, leaked>>

(* A faulty variant: the exit status of mkfs.erofs is not looked at.       *)
mkfs_erofs_unchecked(p) ==
    /\ at[p] = "encode"
    /\ at' = [at EXCEPT ![p] = "persist"]
    /\ tmp' \in {[tmp EXCEPT ![p] = "whole"], tmp}
    /\ UNCHANGED <<tagged, blob, erofs, img, todo, cur, mnt, live, leaked>>

(* mkfs.erofs either encodes the whole blob or exits with an error.        *)
mkfs_erofs(p) ==
    /\ at[p] = "encode"
    /\ \/ /\ cur[p] \in blob
          /\ at'  = [at  EXCEPT ![p] = "persist"]
          /\ tmp' = [tmp EXCEPT ![p] = "whole"]
          /\ UNCHANGED <<img, todo, cur, mnt, live>>
       \/ FallBack(p)
    /\ UNCHANGED <<tagged, blob, erofs, leaked>>

(* The temp file is renamed onto the path, whoever else has done so.  Its  *)
(* name does not end in .erofs, so prune never takes it for a cache file.  *)
Persist(p) ==
    /\ at[p] = "persist"
    /\ erofs' = [erofs EXCEPT ![cur[p]] = tmp[p]]
    /\ at'    = [at   EXCEPT ![p] = "ensure"]
    /\ todo'  = [todo EXCEPT ![p] = @ \ {cur[p]}]
    /\ cur'   = [cur  EXCEPT ![p] = NoLayer]
    /\ tmp'   = [tmp  EXCEPT ![p] = "none"]
    /\ UNCHANGED <<tagged, blob, img, mnt, live, leaked>>

AllEncoded(p) ==
    /\ at[p] = "ensure" /\ todo[p] = {}
    /\ at'   = [at   EXCEPT ![p] = "mount"]
    /\ todo' = [todo EXCEPT ![p] = LayersOf[img[p]]]
    /\ UNCHANGED <<tagged, blob, erofs, img, cur, tmp, mnt, live, leaked>>

(* A faulty variant: a layer that does not mount is left out of the stack. *)
mount_one_lax(p) ==
    /\ at[p] = "mount"
    /\ \/ \E l \in todo[p] :
            /\ todo' = [todo EXCEPT ![p] = @ \ {l}]
            /\ mnt'  = [mnt  EXCEPT ![p] = IF erofs[l] = "absent" THEN @ ELSE @ \cup {l}]
            /\ UNCHANGED at
       \/ /\ todo[p] = {}
          /\ at' = [at EXCEPT ![p] = "up"]
          /\ UNCHANGED <<todo, mnt>>
    /\ UNCHANGED <<tagged, blob, erofs, img, cur, tmp, live, leaked>>

(* Another: a mount that fails starts the encoding over.                   *)
mount_one_retry(p) ==
    /\ at[p] = "mount"
    /\ \/ \E l \in todo[p] :
            /\ erofs[l] # "absent"
            /\ todo' = [todo EXCEPT ![p] = @ \ {l}]
            /\ mnt'  = [mnt  EXCEPT ![p] = @ \cup {l}]
            /\ UNCHANGED <<at, img, cur, tmp, live>>
       \/ /\ \E l \in todo[p] : erofs[l] = "absent"
          /\ at'   = [at   EXCEPT ![p] = "ensure"]
          /\ todo' = [todo EXCEPT ![p] = LayersOf[img[p]]]
          /\ mnt'  = [mnt  EXCEPT ![p] = {}]
          /\ UNCHANGED <<img, cur, tmp, live>>
       \/ /\ todo[p] = {}
          /\ at' = [at EXCEPT ![p] = "up"]
          /\ UNCHANGED <<img, todo, cur, tmp, mnt, live>>
    /\ UNCHANGED <<tagged, blob, erofs, leaked>>

(* MountedErofsLayers::mount: a mount fails when the file is gone by now,  *)
(* or for a reason of the host's, and then the others are undone.          *)
mount_one(p) ==
    /\ at[p] = "mount"
    /\ \/ \E l \in todo[p] :
            /\ erofs[l] # "absent"
            /\ todo' = [todo EXCEPT ![p] = @ \ {l}]
            /\ mnt'  = [mnt  EXCEPT ![p] = @ \cup {l}]
            /\ UNCHANGED <<at, img, cur, tmp, live>>
       \/ todo[p] # {} /\ FallBack(p)
       \/ /\ todo[p] = {}
          /\ at' = [at EXCEPT ![p] = "up"]
          /\ UNCHANGED <<img, todo, cur, tmp, mnt, live>>
    /\ UNCHANGED <<tagged, blob, erofs, leaked>>

(* create_dir_all of a mountpoint fails: the early return passes by        *)
(* unmount_all, and what is mounted so far stays without an owner.         *)
MountpointFails(p) ==
    /\ at[p] = "mount" /\ todo[p] # {}
    /\ FallBack(p)
    /\ leaked' = leaked \cup mnt[p]
    /\ UNCHANGED <<tagged, blob, erofs>>

(* A missing blob is the one error of the unpack path.                     *)
unpack_layers_into(p) ==
    /\ at[p] = "unpack"
    /\ \/ \E l \in todo[p] \cap blob :
            /\ todo' = [todo EXCEPT ![p] = @ \ {l}]
            /\ UNCHANGED <<at, img, cur, tmp, mnt, live>>
       \/ ~ (todo[p] \subseteq blob) /\ Drop(p)
       \/ /\ todo[p] = {}
          /\ at' = [at EXCEPT ![p] = "up"]
          /\ UNCHANGED <<img, todo, cur, tmp, mnt, live>>
    /\ UNCHANGED <<tagged, blob, erofs, leaked>>

(* The bundle has served its purpose: its layers are unmounted.            *)
Done(p) ==
    /\ at[p] = "up"
    /\ Drop(p)
    /\ UNCHANGED <<tagged, blob, erofs, leaked>>
----------------------------------------------------------------------------
(* `umf images --prune`: report_prune collects the blobs, then the erofs   *)
(* files.  Both read index.json for themselves.                            *)
report_prune(p) ==
    /\ at[p] = "idle"
    /\ at'   = [at   EXCEPT ![p] = "sweepblobs"]
    /\ todo' = [todo EXCEPT ![p] = blob \ UNION {LayersOf[i] : i \in tagged}]
    /\ UNCHANGED <<tagged, blob, erofs, img, cur, tmp, mnt, live, leaked>>

prune_blobs(p) ==
    /\ at[p] = "sweepblobs"
    /\ \/ \E l \in todo[p] :
            /\ blob' = blob \ {l}
            /\ todo' = [todo EXCEPT ![p] = @ \ {l}]
            /\ UNCHANGED at
       \/ /\ todo[p] = {}
          /\ at' = [at EXCEPT ![p] = "diffids"]
          /\ UNCHANGED <<blob, todo>>
    /\ UNCHANGED <<tagged, erofs, img, cur, tmp, mnt, live, leaked>>

(* collect_reachable_diff_ids reads them from the configs of what is named. *)
collect_reachable_diff_ids == {DiffId[l] : l \in UNION {LayersOf[i] : i \in tagged}}

prune_erofs_cache(p) ==
    /\ at[p] = "diffids"
    /\ at'   = [at   EXCEPT ![p] = "sweep"]
    /\ live' = [live EXCEPT ![p] = collect_reachable_diff_ids]
    /\ UNCHANGED <<tagged, blob, erofs, img, todo, cur, tmp, mnt, leaked>>

(* prune_dir: the hex of the file name is looked up among the diff_ids.     *)
prune_dir(p) ==
    /\ at[p] = "sweep"
    /\ \/ \E l \in Layer \ live[p] :
            /\ erofs[l] # "absent"
            /\ erofs' = [erofs EXCEPT ![l] = "absent"]
            /\ UNCHANGED staging
       \/ Drop(p) /\ UNCHANGED erofs
    /\ UNCHANGED <<tagged, blob, leaked>>

(* SIGKILL: memory and temp file are lost to it, mounts stay in the kernel. *)
Crash(p) ==
    /\ at[p] # "idle"
    /\ Drop(p)
    /\ leaked' = leaked \cup mnt[p]
    /\ UNCHANGED <<tagged, blob, erofs>>

Stage(p) ==
    \/ ensure_layer_erofs(p) \/ mkfs_erofs(p) \/ Persist(p) \/ AllEncoded(p)
    \/ mount_one(p) \/ MountpointFails(p) \/ unpack_layers_into(p)

Prune(p) == prune_blobs(p) \/ prune_erofs_cache(p) \/ prune_dir(p)

ErofsNext ==
    \/ Tag \/ Untag
    \/ \E p \in Proc :
         from_image(p) \/ Stage(p) \/ Done(p) \/ report_prune(p) \/ Prune(p) \/ Crash(p)

ErofsInit ==
    /\ tagged = {} /\ blob = {} /\ leaked = {}
    /\ erofs = [l \in Layer |-> "absent"]
    /\ at    = [p \in Proc |-> "idle"]
    /\ img   = [p \in Proc |-> NoImage]
    /\ todo  = [p \in Proc |-> {}]
    /\ cur   = [p \in Proc |-> NoLayer]
    /\ tmp   = [p \in Proc |-> "none"]
    /\ mnt   = [p \in Proc |-> {}]
    /\ live  = [p \in Proc |-> {}]

ErofsSpec == ErofsInit /\ [][ErofsNext]_erofsVars

(* A bundle being staged keeps going unless it is killed.                  *)
FairSpec == ErofsSpec /\ \A p \in Proc : WF_erofsVars(Stage(p))
----------------------------------------------------------------------------
(* Type correctness; the temp file of an encode does not outlive it.       *)
ErofsTypeOK ==
    /\ tagged \subseteq Image /\ blob \subseteq Layer /\ leaked \subseteq Layer
    /\ erofs \in [Layer -> {"absent", "partial", "whole"}]
    /\ at    \in [Proc -> Points]
    /\ img   \in [Proc -> Image \cup {NoImage}]
    /\ todo  \in [Proc -> SUBSET Layer]
    /\ cur   \in [Proc -> Layer \cup {NoLayer}]
    /\ tmp   \in [Proc -> {"none", "partial", "whole"}]
    /\ mnt   \in [Proc -> SUBSET Layer]
    /\ live  \in [Proc -> SUBSET {DiffId[l] : l \in Layer}]
    /\ \A p \in Proc : /\ cur[p] # NoLayer <=> at[p] \in {"encode", "persist"}
                       /\ tmp[p] # "none"   <=> at[p] \in {"encode", "persist"}

(* "a crashed or concurrent encode never leaves a partial erofs behind":   *)
(* a file at a cache path is always a complete encode, since the next      *)
(* reader asks nothing but whether it is there.                            *)
ErofsSound == \A l \in Layer : erofs[l] # "partial"

(* A bundle that is up on erofs has every layer of its image mounted, and  *)
(* one that is up on the unpacked rootfs has none: never a stack with a    *)
(* hole, whatever was pruned between the encode and the mount.             *)
StackComplete ==
    \A p \in Proc : at[p] = "up" => mnt[p] \in {{}, LayersOf[img[p]]}

(* A process has mounts only while it mounts them and while its bundle is  *)
(* up: one that falls back to unpacking has undone those it had made, or,  *)
(* where no mountpoint could be created, left them to nobody.              *)
NoPartialMount ==
    \A p \in Proc : mnt[p] # {} => at[p] \in {"mount", "up"}

(* What a process has in hand while it stages: an image; a whole encode    *)
(* when it renames the temp file; and, of the layers, each either mounted  *)
(* or still to be.                                                         *)
StagingInv ==
    \A p \in Proc :
        /\ at[p] \in {"ensure", "encode", "persist", "mount", "unpack", "up"} => img[p] \in Image
        /\ at[p] = "persist" => tmp[p] = "whole"
        /\ at[p] = "mount"   => mnt[p] \cup todo[p] = LayersOf[img[p]]

(* The state of the cache: well typed and sound, with no mount in the      *)
(* hands of a process that unpacks or has ended, and with every stack on   *)
(* its way to being complete.                                              *)
ErofsInv == ErofsTypeOK /\ ErofsSound /\ NoPartialMount /\ StagingInv

(* Staging ends: in a bundle, or in the error of a missing blob.           *)
StagingEnds ==
    \A p \in Proc : at[p] \in {"ensure", "encode", "persist", "mount", "unpack"} ~>
                        at[p] \in {"up", "idle"}
============================================================================
