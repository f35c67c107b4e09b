----------------------------- MODULE BlockCache -----------------------------
(***************************************************************************)
(* The block cache cache/blocks/<image>/<variant>.img: disks projected     *)
(* from bootable images.  `umf compile` and `umf run` project one unless a *)
(* file is already at its path, `umf save --type=block` copies it out,     *)
(* `umf images --prune` removes those of images that are no longer named.  *)
(*                                                                         *)
(* project_disk writes the disk in place, in three passes that each open   *)
(* the file anew: the partition table, the ESP, the root filesystem.  Any  *)
(* of them may fail, and the file stays.  A disk is modelled as the set of *)
(* passes it has been through, each with what it was made from.            *)
(***************************************************************************)
EXTENDS Naturals

CONSTANTS
    Command,    \* umf processes
    Ref,        \* reference names
    Bootable,   \* manifest digests of bootable images
    NoBootable, \* an unused name, or no image
    Fs,         \* root filesystems
    Squashfs,   \* the one that needs no tool of the host, and the default
    NoFs,       \* no --fs flag, or no rootfs.fs label
    Flags,      \* what --fs is asked for, NoFs when it is not given
    Label,      \* the rootfs.fs label of an image
    HostMkfs,   \* filesystems whose mkfs the host has
    Geometry,   \* disk and ESP sizes that --disk-size and --esp-size may ask for
    Default,    \* DiskGeometry::default
    Cramped,    \* geometries that leave too little room for the root filesystem
    Overlap,    \* whether commands overlap
    GuestWrites \* whether a booted guest writes to its disk

Slots  == [image : Bootable, geometry : Geometry, fs : Flags \cup {NoFs}]
Passes == {"gpt", "esp", "root", "guest"}
Parts  == [pass : Passes, image : Bootable, geometry : Geometry, fs : Fs]

ASSUME BlockAssumption ==
    /\ NoBootable \notin Bootable /\ Ref # {}
    /\ Squashfs \in Fs /\ NoFs \notin Fs
    /\ Label \in [Bootable -> Fs \cup {NoFs}]
    /\ Flags \subseteq Fs \cup {NoFs}
    /\ HostMkfs \subseteq Fs
    /\ Default \in Geometry /\ Cramped \subseteq Geometry
    /\ Overlap \in BOOLEAN /\ GuestWrites \in BOOLEAN

VARIABLES
    refs,   \* the image each name stands for
    files,  \* slots whose file exists
    disk,   \* what the file holds
    pc,     \* where each process is
    cmd,    \* its command
    name,   \* the reference it was given
    slot,   \* the cache path it works on
    src     \* the image it projects

local == <<pc, cmd, name, slot, src>>
vars  == <<refs, files, disk, local>>

NoSlot == [image |-> NoBootable, geometry |-> Default, fs |-> NoFs]

(* resolve_rootfs_fs: the flag, else the label, else squashfs.             *)
resolve_rootfs_fs(f, i) ==
    IF f # NoFs THEN f ELSE IF Label[i] # NoFs THEN Label[i] ELSE Squashfs

Return(p) ==
    /\ pc'   = [pc   EXCEPT ![p] = "idle"]
    /\ cmd'  = [cmd  EXCEPT ![p] = "none"]
    /\ name' = [name EXCEPT ![p] = CHOOSE r \in Ref : TRUE]
    /\ slot' = [slot EXCEPT ![p] = NoSlot]
    /\ src'  = [src  EXCEPT ![p] = NoBootable]

MayStart(p) == pc[p] = "idle" /\ (Overlap \/ \A q \in Command : pc[q] = "idle")
----------------------------------------------------------------------------
(* A build, pull or removal changes what a name stands for.                *)
Retag ==
    /\ Overlap \/ \A q \in Command : pc[q] = "idle"
    /\ \E r \in Ref, i \in Bootable \cup {NoBootable} : refs' = [refs EXCEPT ![r] = i]
    /\ UNCHANGED <<files, disk, local>>

(* A faulty variant: the variant does not tell the filesystems apart.      *)
block_cache_path_no_fs(i, g, f) == [image |-> i, geometry |-> g, fs |-> NoFs]

(* block_cache_path with cache_variant: the digest, both sizes, the flag.   *)
block_cache_path(i, g, f) == [image |-> i, geometry |-> g, fs |-> f]

(* compile and run look the name up; a file at the path is a cache hit.     *)
Lookup(p, c, r, g, f) ==
    /\ MayStart(p)
    /\ refs[r] # NoBootable
    /\ LET s == block_cache_path(refs[r], g, f)
       IN  /\ pc'   = [pc   EXCEPT ![p] = IF s \in files THEN "out" ELSE "project"]
           /\ cmd'  = [cmd  EXCEPT ![p] = c]
           /\ name' = [name EXCEPT ![p] = r]
           /\ slot' = [slot EXCEPT ![p] = [image |-> refs[r], geometry |-> g, fs |-> f]]
    /\ UNCHANGED <<refs, files, disk, src>>

run_compile(p) ==
    \E r \in Ref, g \in Geometry, f \in Flags : Lookup(p, "compile", r, g, f)

run_bootable(p) == \E r \in Ref : Lookup(p, "run", r, Default, NoFs)

(* save_block extracts, it does not project.                               *)
save_block(p) ==
    /\ MayStart(p)
    /\ \E r \in Ref :
         /\ refs[r] # NoBootable
         /\ block_cache_path(refs[r], Default, NoFs) \in files
         /\ pc'   = [pc   EXCEPT ![p] = "out"]
         /\ cmd'  = [cmd  EXCEPT ![p] = "save"]
         /\ name' = [name EXCEPT ![p] = r]
         /\ slot' = [slot EXCEPT ![p] = [image |-> refs[r], geometry |-> Default, fs |-> NoFs]]
    /\ UNCHANGED <<refs, files, disk, src>>

Path(p) == block_cache_path(slot[p].image, slot[p].geometry, slot[p].fs)

(* A faulty variant: the name is taken to be there still.                  *)
compile_image_unchecked(p) ==
    /\ pc[p] = "project"
    /\ pc'  = [pc  EXCEPT ![p] = "gpt"]
    /\ src' = [src EXCEPT ![p] = refs[name[p]]]
    /\ UNCHANGED <<refs, files, disk, cmd, name, slot>>

(* compile_image looks the name up once more and projects what it finds.    *)
compile_image(p) ==
    /\ pc[p] = "project"
    /\ \/ /\ refs[name[p]] # NoBootable
          /\ pc'  = [pc  EXCEPT ![p] = "gpt"]
          /\ src' = [src EXCEPT ![p] = refs[name[p]]]
          /\ UNCHANGED <<cmd, name, slot>>
       \/ refs[name[p]] = NoBootable /\ Return(p)
    /\ UNCHANGED <<refs, files, disk>>

Part(p, q) == [pass |-> q, image |-> src[p], geometry |-> slot[p].geometry,
               fs |-> resolve_rootfs_fs(slot[p].fs, src[p])]

(* A pass of project_disk writes over what an earlier one of its kind left. *)
Write(p, q) ==
    disk' = [disk EXCEPT ![Path(p)] = {x \in @ : x.pass # q} \cup {Part(p, q)}]

(* write_gpt creates or truncates the file before it sees that the root    *)
(* filesystem has no room.                                                 *)
write_gpt(p) ==
    /\ pc[p] = "gpt"
    /\ files' = files \cup {Path(p)}
    /\ disk'  = [disk EXCEPT ![Path(p)] = {Part(p, "gpt")}]
    /\ IF slot[p].geometry \in Cramped
       THEN Return(p)
       ELSE pc' = [pc EXCEPT ![p] = "esp"] /\ UNCHANGED <<cmd, name, slot, src>>
    /\ UNCHANGED refs

(* A pass that fails, because its partition is full or a write or the      *)
(* formatting fails, ends the command and leaves the file as it is by then. *)
PassFails(p, q) ==
    /\ Return(p)
    /\ disk' \in {disk, [disk EXCEPT ![Path(p)] = {x \in @ : x.pass # q}]}

(* The next passes open the file without creating it.                      *)
populate_esp(p) ==
    /\ pc[p] = "esp"
    /\ \/ /\ Path(p) \in files /\ Write(p, "esp")
          /\ pc' = [pc EXCEPT ![p] = "root"] /\ UNCHANGED <<cmd, name, slot, src>>
       \/ PassFails(p, "esp")
    /\ UNCHANGED <<refs, files>>

(* write_rootfs_from_dir has a writer of its own for squashfs and runs the  *)
(* host's mkfs for the others.                                             *)
write_rootfs_from_dir(f) == f \in HostMkfs \cup {Squashfs}

write_rootfs_partition(p) ==
    /\ pc[p] = "root"
    /\ \/ /\ Path(p) \in files /\ write_rootfs_from_dir(Part(p, "root").fs)
          /\ Write(p, "root")
          /\ pc' = [pc EXCEPT ![p] = "out"] /\ UNCHANGED <<cmd, name, slot, src>>
       \/ PassFails(p, "root")
    /\ UNCHANGED <<refs, files>>

(* The disk is reported, copied out, or attached to a VM, writable.        *)
HandOut(p) ==
    /\ pc[p] = "out"
    /\ IF cmd[p] = "run"
       THEN pc' = [pc EXCEPT ![p] = "vm"] /\ UNCHANGED <<cmd, name, slot, src>>
       ELSE Return(p)
    /\ UNCHANGED <<refs, files, disk>>

Guest(p) ==
    /\ pc[p] = "vm" /\ GuestWrites /\ Path(p) \in files
    /\ disk' = [disk EXCEPT ![Path(p)] =
                  @ \cup {[x EXCEPT !.pass = "guest"] : x \in @}]
    /\ UNCHANGED <<refs, files, local>>

VmExits(p) ==
    /\ pc[p] = "vm"
    /\ Return(p)
    /\ UNCHANGED <<refs, files, disk>>

(* prune_block_cache: the subtrees of images that no entry names.          *)
prune_block_cache(p) ==
    /\ MayStart(p)
    /\ files' = {s \in files : \E r \in Ref : refs[r] = s.image}
    /\ disk'  = [s \in Slots |-> IF s \in files' THEN disk[s] ELSE {}]
    /\ UNCHANGED <<refs, local>>

Next ==
    \/ Retag
    \/ \E p \in Command :
         \/ run_compile(p) \/ run_bootable(p) \/ save_block(p) \/ prune_block_cache(p)
         \/ compile_image(p) \/ write_gpt(p) \/ populate_esp(p) \/ write_rootfs_partition(p)
         \/ HandOut(p) \/ Guest(p) \/ VmExits(p)

Init ==
    /\ refs  = [r \in Ref |-> NoBootable]
    /\ files = {}
    /\ disk  = [s \in Slots |-> {}]
    /\ pc    = [p \in Command |-> "idle"]
    /\ cmd   = [p \in Command |-> "none"]
    /\ name  = [p \in Command |-> CHOOSE r \in Ref : TRUE]
    /\ slot  = [p \in Command |-> NoSlot]
    /\ src   = [p \in Command |-> NoBootable]

Spec == Init /\ [][Next]_vars
----------------------------------------------------------------------------
(* Type correctness; only a projecting process has a source image.         *)
TypeOK ==
    /\ refs  \in [Ref -> Bootable \cup {NoBootable}]
    /\ files \subseteq Slots
    /\ disk  \in [Slots -> SUBSET Parts]
    /\ pc    \in [Command -> {"idle", "project", "gpt", "esp", "root", "out", "vm"}]
    /\ cmd   \in [Command -> {"none", "compile", "run", "save"}]
    /\ name  \in [Command -> Ref]
    /\ slot  \in [Command -> Slots \cup {NoSlot}]
    /\ src   \in [Command -> Bootable \cup {NoBootable}]
    /\ \A s \in Slots \ files : disk[s] = {}

(* "never a wrong hit": whatever failed, overlapped or was retagged, what   *)
(* is at a path was made with the geometry of the path, and, where it is   *)
(* of the path's image, with the filesystem that the path's flag selects.  *)
BlockVariant ==
    \A s \in files : \A x \in disk[s] :
        /\ x.geometry = s.geometry
        /\ x.image = s.image => x.fs = resolve_rootfs_fs(s.fs, s.image)

(* Inductive: a command at work knows its path, a projecting one the image. *)
BusyInv ==
    \A p \in Command :
        /\ pc[p] # "idle" => slot[p] \in Slots
        /\ pc[p] \in {"gpt", "esp", "root"} => src[p] \in Bootable

BlockInv == TypeOK /\ BusyInv /\ BlockVariant
============================================================================
