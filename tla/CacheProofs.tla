----------------------------- MODULE CacheProofs -----------------------------
(* The two sidecar caches of the image layout.  What is at a path of the   *)
(* block cache was made for that path, for any number of commands, names,  *)
(* images, filesystems and geometries.  The erofs cache holds complete     *)
(* encodes only, and a bundle that is up on it has its whole stack, for    *)
(* any number of processes, images and layers, whatever is pruned,         *)
(* re-encoded or killed in between.                                        *)
(*                                                                         *)
(* Each theorem is about one specification; the caches are not composed.   *)
EXTENDS BlockCache, ErofsCache, TLAPS
----------------------------------------------------------------------------
(* The block cache.                                                        *)

(* The root filesystem that is resolved for a flag and an image is one.    *)
LEMMA ResolvedFs ==
    ASSUME NEW f \in Flags \cup {NoFs}, NEW i \in Bootable
    PROVE  resolve_rootfs_fs(f, i) \in Fs
BY BlockAssumption DEF resolve_rootfs_fs

(* NoSlot is not the path of any disk.                                     *)
LEMMA NoSlotIsNone == NoSlot \notin Slots
BY BlockAssumption DEF NoSlot, Slots

(* The path of a command at work is its slot.                              *)
LEMMA PathIsSlot ==
    ASSUME NEW p \in Command, slot[p] \in Slots
    PROVE  Path(p) = slot[p]
BY DEF Path, block_cache_path, Slots

(* What a pass of p writes is a part, made for the slot of p.              *)
LEMMA PartType ==
    ASSUME NEW p \in Command, NEW q \in Passes, slot[p] \in Slots, src[p] \in Bootable
    PROVE  /\ Part(p, q) \in Parts
           /\ Part(p, q).pass = q
           /\ Part(p, q).geometry = slot[p].geometry
           /\ Part(p, q).image = slot[p].image =>
                 Part(p, q).fs = resolve_rootfs_fs(slot[p].fs, slot[p].image)
<1>1. slot[p].fs \in Flags \cup {NoFs} /\ slot[p].geometry \in Geometry
  BY DEF Slots
<1>2. resolve_rootfs_fs(slot[p].fs, src[p]) \in Fs
  BY <1>1, ResolvedFs
<1>3. QED
  BY <1>1, <1>2 DEF Part, Parts

(* The memory of the processes, the part of the invariant without the disk. *)
LocalOK ==
    /\ pc    \in [Command -> {"idle", "project", "gpt", "esp", "root", "out", "vm"}]
    /\ cmd   \in [Command -> {"none", "compile", "run", "save"}]
    /\ name  \in [Command -> Ref]
    /\ slot  \in [Command -> Slots \cup {NoSlot}]
    /\ src   \in [Command -> Bootable \cup {NoBootable}]
    /\ BusyInv

(* What is on disk, likewise.                                              *)
DiskOK ==
    /\ files \subseteq Slots
    /\ disk  \in [Slots -> SUBSET Parts]
    /\ \A s \in Slots \ files : disk[s] = {}
    /\ BlockVariant

(* The invariant, by memory and by disk.                                    *)
LEMMA InvParts ==
    BlockInv <=> refs \in [Ref -> Bootable \cup {NoBootable}] /\ LocalOK /\ DiskOK
BY DEF BlockInv, TypeOK, LocalOK, DiskOK

(* An arbitrary name is a name.                                            *)
LEMMA SomeRef == (CHOOSE r \in Ref : TRUE) \in Ref
BY BlockAssumption

(* The initial states are sound.                                            *)
LEMMA BlockInit == Init => BlockInv
<1> SUFFICES ASSUME Init PROVE BlockInv
  OBVIOUS
<1>1. refs \in [Ref -> Bootable \cup {NoBootable}]
  BY DEF Init
<1>2. LocalOK
  BY SomeRef DEF Init, LocalOK, BusyInv
<1>3. DiskOK
  BY DEF Init, DiskOK, BlockVariant
<1>4. QED
  BY <1>1, <1>2, <1>3, InvParts

(* A command that ends forgets its path and its image.                     *)
LEMMA ReturnKeeps ==
    ASSUME LocalOK, NEW p \in Command, Return(p)
    PROVE  LocalOK'
<1>1. (CHOOSE r \in Ref : TRUE) \in Ref
  BY SomeRef
<1>2. /\ pc'   \in [Command -> {"idle", "project", "gpt", "esp", "root", "out", "vm"}]
      /\ cmd'  \in [Command -> {"none", "compile", "run", "save"}]
      /\ name' \in [Command -> Ref]
      /\ slot' \in [Command -> Slots \cup {NoSlot}]
      /\ src'  \in [Command -> Bootable \cup {NoBootable}]
  BY <1>1 DEF LocalOK, Return
<1>3. BusyInv'
  BY DEF LocalOK, Return, BusyInv
<1>4. QED
  BY <1>2, <1>3 DEF LocalOK

(* A step that moves on without touching what it remembers.                *)
LEMMA MovesOn ==
    ASSUME LocalOK, NEW p \in Command,
           NEW l \in {"project", "gpt", "esp", "root", "out", "vm"},
           pc[p] # "idle",
           l \in {"gpt", "esp", "root"} => pc[p] \in {"gpt", "esp", "root"},
           pc' = [pc EXCEPT ![p] = l], UNCHANGED <<cmd, name, slot, src>>
    PROVE  LocalOK'
BY DEF LocalOK, BusyInv

(* A pass that p writes keeps the disk that of its path.                   *)
LEMMA WriteKeeps ==
    ASSUME DiskOK, NEW p \in Command, NEW q \in Passes,
           slot[p] \in Slots, src[p] \in Bootable,
           Path(p) \in files, Write(p, q), UNCHANGED files
    PROVE  DiskOK'
<1>1. Path(p) = slot[p]
  BY PathIsSlot
<1>2. disk' = [disk EXCEPT ![slot[p]] = {x \in disk[slot[p]] : x.pass # q} \cup {Part(p, q)}]
  BY <1>1 DEF Write
<1>3. disk' \in [Slots -> SUBSET Parts]
  BY <1>2, PartType DEF DiskOK
<1>4. \A s \in Slots \ files' : disk'[s] = {}
  BY <1>1, <1>2 DEF DiskOK
<1>5. BlockVariant'
  <2> SUFFICES ASSUME NEW s \in files, NEW x \in disk'[s]
               PROVE  /\ x.geometry = s.geometry
                      /\ x.image = s.image => x.fs = resolve_rootfs_fs(s.fs, s.image)
    BY DEF BlockVariant, resolve_rootfs_fs
  <2>1. s \in Slots
    BY DEF DiskOK
  <2>2. x \in disk[s] \/ (s = slot[p] /\ x = Part(p, q))
    BY <1>2, <2>1 DEF DiskOK
  <2>3. QED
    BY <2>2, PartType DEF DiskOK, BlockVariant
<1>6. QED
  BY <1>3, <1>4, <1>5 DEF DiskOK

(* A pass that fails leaves no more than was there.                        *)
LEMMA LossKeeps ==
    ASSUME DiskOK, NEW p \in Command, NEW q \in Passes,
           slot[p] \in Slots, PassFails(p, q), UNCHANGED files
    PROVE  DiskOK'
<1>1. Path(p) = slot[p]
  BY PathIsSlot
<1>2. \/ disk' = disk
      \/ disk' = [disk EXCEPT ![slot[p]] = {x \in disk[slot[p]] : x.pass # q}]
  BY <1>1 DEF PassFails
<1>3. disk' \in [Slots -> SUBSET Parts] /\ \A s \in Slots : disk'[s] \subseteq disk[s]
  BY <1>2 DEF DiskOK
<1>4. BlockVariant'
  BY <1>3 DEF DiskOK, BlockVariant, resolve_rootfs_fs
<1>5. \A s \in Slots \ files' : disk'[s] = {}
  BY <1>3 DEF DiskOK
<1>6. QED
  BY <1>3, <1>4, <1>5 DEF DiskOK

(* compile and run: a hit, or a projection to be made.                     *)
LEMMA LookupKeeps ==
    ASSUME refs \in [Ref -> Bootable \cup {NoBootable}], LocalOK, NEW p \in Command,
           NEW c \in {"compile", "run"}, NEW r \in Ref, NEW g \in Geometry,
           NEW f \in Flags \cup {NoFs}, Lookup(p, c, r, g, f)
    PROVE  LocalOK'
<1>1. [image |-> refs[r], geometry |-> g, fs |-> f] \in Slots
  BY DEF Lookup, Slots
<1>2. PICK l \in {"out", "project"} : pc' = [pc EXCEPT ![p] = l]
  BY DEF Lookup
<1>3. /\ cmd'  = [cmd  EXCEPT ![p] = c]
      /\ name' = [name EXCEPT ![p] = r]
      /\ slot' = [slot EXCEPT ![p] = [image |-> refs[r], geometry |-> g, fs |-> f]]
      /\ src'  = src
  BY DEF Lookup
<1>4. /\ pc'   \in [Command -> {"idle", "project", "gpt", "esp", "root", "out", "vm"}]
      /\ cmd'  \in [Command -> {"none", "compile", "run", "save"}]
      /\ name' \in [Command -> Ref]
      /\ slot' \in [Command -> Slots \cup {NoSlot}]
      /\ src'  \in [Command -> Bootable \cup {NoBootable}]
  BY <1>1, <1>2, <1>3 DEF LocalOK
<1>5. BusyInv'
  BY <1>1, <1>2, <1>3 DEF LocalOK, BusyInv
<1>6. QED
  BY <1>4, <1>5 DEF LocalOK

(* Every action keeps the invariant.                                       *)
LEMMA BlockStep == BlockInv /\ [Next]_vars => BlockInv'
<1> SUFFICES ASSUME BlockInv, [Next]_vars PROVE BlockInv'
  OBVIOUS
<1> USE DEF local
<1>0. refs \in [Ref -> Bootable \cup {NoBootable}] /\ LocalOK /\ DiskOK
  BY InvParts
<1>a. ASSUME refs' \in [Ref -> Bootable \cup {NoBootable}], LocalOK', DiskOK' PROVE BlockInv'
  BY <1>a DEF BlockInv, TypeOK, LocalOK, DiskOK
<1>b. ASSUME UNCHANGED local PROVE LocalOK'
  BY <1>b, <1>0 DEF LocalOK, BusyInv
<1>c. ASSUME UNCHANGED <<files, disk>> PROVE DiskOK'
  BY <1>c, <1>0 DEF DiskOK, BlockVariant, resolve_rootfs_fs
<1>1. CASE UNCHANGED vars
  BY <1>1, <1>0, <1>a, <1>b, <1>c DEF vars
<1>2. CASE Retag
  <2>1. refs' \in [Ref -> Bootable \cup {NoBootable}]
    BY <1>2, <1>0 DEF Retag
  <2>2. QED
    BY <1>2, <2>1, <1>a, <1>b, <1>c DEF Retag
<1>3. ASSUME NEW p \in Command, run_compile(p) \/ run_bootable(p) PROVE BlockInv'
  <2>1. PICK c \in {"compile", "run"}, r \in Ref, g \in Geometry, f \in Flags \cup {NoFs} :
            Lookup(p, c, r, g, f)
    BY <1>3, BlockAssumption DEF run_compile, run_bootable
  <2>2. LocalOK'
    BY <1>0, <2>1, LookupKeeps
  <2>3. refs' = refs /\ UNCHANGED <<files, disk>>
    BY <2>1 DEF Lookup
  <2>4. QED
    BY <1>0, <2>2, <2>3, <1>a, <1>c
<1>4. ASSUME NEW p \in Command, save_block(p) PROVE BlockInv'
  <2>1. PICK r \in Ref :
            /\ refs[r] # NoBootable
            /\ pc'   = [pc   EXCEPT ![p] = "out"]
            /\ cmd'  = [cmd  EXCEPT ![p] = "save"]
            /\ name' = [name EXCEPT ![p] = r]
            /\ slot' = [slot EXCEPT ![p] = [image |-> refs[r], geometry |-> Default, fs |-> NoFs]]
    BY <1>4 DEF save_block
  <2>2. src' = src /\ refs' = refs /\ UNCHANGED <<files, disk>>
    BY <1>4 DEF save_block
  <2>3. [image |-> refs[r], geometry |-> Default, fs |-> NoFs] \in Slots
    BY <1>0, <2>1, BlockAssumption DEF Slots
  <2>4. BusyInv'
    BY <1>0, <2>1, <2>2, <2>3 DEF LocalOK, BusyInv
  <2>5. LocalOK'
    BY <1>0, <2>1, <2>2, <2>3, <2>4 DEF LocalOK
  <2>6. QED
    BY <1>0, <2>2, <2>5, <1>a, <1>c
<1>5. ASSUME NEW p \in Command, prune_block_cache(p) PROVE BlockInv'
  <2>1. files' \subseteq files /\ disk' = [s \in Slots |-> IF s \in files' THEN disk[s] ELSE {}]
    BY <1>5 DEF prune_block_cache
  <2>2. BlockVariant'
    BY <1>0, <2>1 DEF DiskOK, BlockVariant, resolve_rootfs_fs
  <2>3. DiskOK'
    BY <1>0, <2>1, <2>2 DEF DiskOK
  <2>4. QED
    BY <1>5, <1>0, <2>3, <1>a, <1>b DEF prune_block_cache
<1>6. ASSUME NEW p \in Command, compile_image(p) PROVE BlockInv'
  <2>1. refs' = refs /\ UNCHANGED <<files, disk>> /\ pc[p] = "project"
    BY <1>6 DEF compile_image
  <2>2. CASE /\ refs[name[p]] # NoBootable
             /\ pc'  = [pc  EXCEPT ![p] = "gpt"]
             /\ src' = [src EXCEPT ![p] = refs[name[p]]]
             /\ UNCHANGED <<cmd, name, slot>>
    <3>1. refs[name[p]] \in Bootable
      BY <2>2, <1>0 DEF LocalOK
    <3>2. BusyInv'
      BY <2>1, <2>2, <3>1, <1>0 DEF LocalOK, BusyInv
    <3>3. LocalOK'
      BY <2>2, <3>1, <3>2, <1>0 DEF LocalOK
    <3>4. QED
      BY <1>0, <2>1, <3>3, <1>a, <1>c
  <2>3. CASE Return(p)
    BY <1>0, <2>1, <2>3, ReturnKeeps, <1>a, <1>c
  <2>4. QED
    BY <1>6, <2>2, <2>3 DEF compile_image
<1>7. ASSUME NEW p \in Command, pc[p] \in {"gpt", "esp", "root"}
      PROVE  slot[p] \in Slots /\ src[p] \in Bootable /\ Path(p) = slot[p]
  BY <1>7, <1>0, PathIsSlot DEF LocalOK, BusyInv
<1>8. ASSUME NEW p \in Command, write_gpt(p) PROVE BlockInv'
  <2>1. slot[p] \in Slots /\ src[p] \in Bootable /\ Path(p) = slot[p]
    BY <1>8, <1>7 DEF write_gpt
  <2>2. /\ files' = files \cup {slot[p]}
        /\ disk'  = [disk EXCEPT ![slot[p]] = {Part(p, "gpt")}]
        /\ refs'  = refs
    BY <1>8, <2>1 DEF write_gpt
  <2>3. LocalOK'
    <3>1. CASE Return(p)
      BY <1>0, <3>1, ReturnKeeps
    <3>2. CASE pc' = [pc EXCEPT ![p] = "esp"] /\ UNCHANGED <<cmd, name, slot, src>>
      BY <1>0, <1>8, <3>2, MovesOn DEF write_gpt
    <3>3. QED
      BY <1>8, <3>1, <3>2 DEF write_gpt
  <2>4. "gpt" \in Passes
    BY DEF Passes
  <2>5. disk' \in [Slots -> SUBSET Parts] /\ files' \subseteq Slots
    BY <1>0, <2>1, <2>2, <2>4, PartType DEF DiskOK
  <2>6. BlockVariant'
    <3> SUFFICES ASSUME NEW s \in files', NEW x \in disk'[s]
                 PROVE  /\ x.geometry = s.geometry
                        /\ x.image = s.image => x.fs = resolve_rootfs_fs(s.fs, s.image)
      BY DEF BlockVariant, resolve_rootfs_fs
    <3>1. \/ s = slot[p] /\ x = Part(p, "gpt")
          \/ s # slot[p] /\ s \in files /\ x \in disk[s]
      BY <1>0, <2>1, <2>2, <2>5 DEF DiskOK
    <3>2. QED
      BY <1>0, <2>1, <2>4, <3>1, PartType DEF DiskOK, BlockVariant
  <2>7. DiskOK'
    BY <1>0, <2>1, <2>2, <2>5, <2>6 DEF DiskOK
  <2>8. QED
    BY <1>0, <2>2, <2>3, <2>7, <1>a
<1>9. ASSUME NEW p \in Command, NEW q \in {"esp", "root"}, NEW l \in {"root", "out"},
             pc[p] \in {"esp", "root"}, l = "root" => q = "esp",
             \/ /\ Path(p) \in files /\ Write(p, q)
                /\ pc' = [pc EXCEPT ![p] = l] /\ UNCHANGED <<cmd, name, slot, src>>
             \/ PassFails(p, q),
             UNCHANGED <<refs, files>>
      PROVE  BlockInv'
  <2>1. slot[p] \in Slots /\ src[p] \in Bootable /\ q \in Passes
    BY <1>9, <1>7 DEF Passes
  <2>2. CASE PassFails(p, q)
    <3>1. LocalOK'
      BY <1>0, <2>2, ReturnKeeps DEF PassFails
    <3>2. DiskOK'
      BY <1>0, <1>9, <2>1, <2>2, LossKeeps
    <3>3. QED
      BY <1>0, <1>9, <3>1, <3>2, <1>a
  <2>3. CASE /\ Path(p) \in files /\ Write(p, q)
             /\ pc' = [pc EXCEPT ![p] = l] /\ UNCHANGED <<cmd, name, slot, src>>
    <3>1. LocalOK'
      BY <1>0, <1>9, <2>3, MovesOn
    <3>2. DiskOK'
      BY <1>0, <1>9, <2>1, <2>3, WriteKeeps
    <3>3. QED
      BY <1>0, <1>9, <3>1, <3>2, <1>a
  <2>4. QED
    BY <1>9, <2>2, <2>3
<1>10. ASSUME NEW p \in Command, populate_esp(p) PROVE BlockInv'
  <2>1. /\ pc[p] \in {"esp", "root"}
        /\ \/ /\ Path(p) \in files /\ Write(p, "esp")
              /\ pc' = [pc EXCEPT ![p] = "root"] /\ UNCHANGED <<cmd, name, slot, src>>
           \/ PassFails(p, "esp")
        /\ UNCHANGED <<refs, files>>
    BY <1>10 DEF populate_esp
  <2>2. QED
    BY <2>1, <1>9
<1>11. ASSUME NEW p \in Command, write_rootfs_partition(p) PROVE BlockInv'
  <2>1. /\ pc[p] \in {"esp", "root"}
        /\ \/ /\ Path(p) \in files /\ Write(p, "root")
              /\ pc' = [pc EXCEPT ![p] = "out"] /\ UNCHANGED <<cmd, name, slot, src>>
           \/ PassFails(p, "root")
        /\ UNCHANGED <<refs, files>>
    BY <1>11 DEF write_rootfs_partition
  <2>2. QED
    BY <2>1, <1>9
<1>12. ASSUME NEW p \in Command, HandOut(p) PROVE BlockInv'
  <2>1. UNCHANGED <<refs, files, disk>> /\ pc[p] = "out"
    BY <1>12 DEF HandOut
  <2>2. CASE Return(p)
    BY <1>0, <2>1, <2>2, ReturnKeeps, <1>a, <1>c
  <2>3. CASE pc' = [pc EXCEPT ![p] = "vm"] /\ UNCHANGED <<cmd, name, slot, src>>
    <3>1. LocalOK'
      BY <1>0, <2>1, <2>3, MovesOn
    <3>2. QED
      BY <1>0, <2>1, <3>1, <1>a, <1>c
  <2>4. QED
    BY <1>12, <2>2, <2>3 DEF HandOut
<1>13. ASSUME NEW p \in Command, Guest(p) PROVE BlockInv'
  <2>1. slot[p] \in Slots /\ Path(p) = slot[p]
    BY <1>13, <1>0, PathIsSlot DEF Guest, LocalOK, BusyInv
  <2>2. disk' = [disk EXCEPT ![slot[p]] =
                    disk[slot[p]] \cup {[x EXCEPT !.pass = "guest"] : x \in disk[slot[p]]}]
    BY <1>13, <2>1 DEF Guest
  <2>3. refs' = refs /\ files' = files /\ UNCHANGED local /\ slot[p] \in files
    BY <1>13, <2>1 DEF Guest
  <2>4. \A x \in Parts : /\ [x EXCEPT !.pass = "guest"] \in Parts
                         /\ [x EXCEPT !.pass = "guest"].geometry = x.geometry
                         /\ [x EXCEPT !.pass = "guest"].image = x.image
                         /\ [x EXCEPT !.pass = "guest"].fs = x.fs
    BY DEF Parts, Passes
  <2>5. disk' \in [Slots -> SUBSET Parts]
    BY <1>0, <2>1, <2>2, <2>4 DEF DiskOK
  <2>6. BlockVariant'
    <3> SUFFICES ASSUME NEW s \in files, NEW x \in disk'[s]
                 PROVE  /\ x.geometry = s.geometry
                        /\ x.image = s.image => x.fs = resolve_rootfs_fs(s.fs, s.image)
      BY <2>3 DEF BlockVariant, resolve_rootfs_fs
    <3>1. s \in Slots /\ disk[s] \subseteq Parts
      BY <1>0 DEF DiskOK
    <3>2. PICK y \in disk[s] : x = y \/ x = [y EXCEPT !.pass = "guest"]
      BY <1>0, <2>1, <2>2, <3>1 DEF DiskOK
    <3>3. /\ y.geometry = s.geometry
          /\ y.image = s.image => y.fs = resolve_rootfs_fs(s.fs, s.image)
      BY <1>0 DEF DiskOK, BlockVariant
    <3>4. x.geometry = y.geometry /\ x.image = y.image /\ x.fs = y.fs
      BY <2>4, <3>1, <3>2
    <3>5. QED
      BY <3>3, <3>4
  <2>7. DiskOK'
    BY <1>0, <2>1, <2>2, <2>3, <2>5, <2>6 DEF DiskOK
  <2>8. QED
    BY <1>0, <2>3, <2>7, <1>a, <1>b
<1>14. ASSUME NEW p \in Command, VmExits(p) PROVE BlockInv'
  BY <1>14, <1>0, ReturnKeeps, <1>a, <1>c DEF VmExits
<1>15. QED
  BY <1>1, <1>2, <1>3, <1>4, <1>5, <1>6, <1>8, <1>10, <1>11, <1>12, <1>13, <1>14 DEF Next

(* The inductive invariant of the block cache.                             *)
THEOREM BlockInvariant == Spec => []BlockInv
BY BlockInit, BlockStep, PTL DEF Spec

(* Type correctness of the block cache and the commands that use it.       *)
THEOREM BlockTypeCorrect == Spec => []TypeOK
<1>1. BlockInv => TypeOK
  BY DEF BlockInv
<1>2. QED
  BY <1>1, BlockInvariant, PTL

(* What cache_variant promises, "never a wrong hit": whatever fails, is    *)
(* retagged or overlaps, a file of the block cache was made with the       *)
(* geometry of its path, and with its filesystem if it is of its image.    *)
THEOREM NeverAWrongVariant == Spec => []BlockVariant
<1>1. BlockInv => BlockVariant
  BY DEF BlockInv
<1>2. QED
  BY <1>1, BlockInvariant, PTL
----------------------------------------------------------------------------
(* The erofs cache.                                                        *)

(* The type invariant without what it says of the encode under way.        *)
Types ==
    /\ tagged \subseteq Image /\ blob \subseteq Layer /\ leaked \subseteq Layer
    /\ erofs \in [Layer -> {"absent", "partial", "whole"}]
    /\ at    \in [Proc -> Points]
    /\ img   \in [Proc -> Image \cup {NoImage}]
    /\ todo  \in [Proc -> SUBSET Layer]
    /\ cur   \in [Proc -> Layer \cup {NoLayer}]
    /\ tmp   \in [Proc -> {"none", "partial", "whole"}]
    /\ mnt   \in [Proc -> SUBSET Layer]
    /\ live  \in [Proc -> SUBSET {DiffId[l] : l \in Layer}]

(* What the invariants say of one process.                                 *)
ProcOK(p) ==
    /\ cur[p] # NoLayer <=> at[p] \in {"encode", "persist"}
    /\ tmp[p] # "none"  <=> at[p] \in {"encode", "persist"}
    /\ mnt[p] # {} => at[p] \in {"mount", "up"}
    /\ at[p] \in {"ensure", "encode", "persist", "mount", "unpack", "up"} => img[p] \in Image
    /\ at[p] = "persist" => tmp[p] = "whole"
    /\ at[p] = "mount"   => mnt[p] \cup todo[p] = LayersOf[img[p]]
    /\ at[p] = "up"      => mnt[p] \in {{}, LayersOf[img[p]]}

ErofsInductive == ErofsInv /\ StackComplete

(* The invariant, process by process.                                      *)
LEMMA ErofsInvParts ==
    ErofsInductive <=> Types /\ ErofsSound /\ \A p \in Proc : ProcOK(p)
BY DEF ErofsInductive, ErofsInv, ErofsTypeOK, NoPartialMount, StagingInv,
       StackComplete, Types, ProcOK

(* A step of p that leaves the memory of the others alone need only be     *)
(* looked at where p is.                                                   *)
LEMMA OthersKept ==
    ASSUME Types, \A q \in Proc : ProcOK(q), NEW p \in Proc,
           \A q \in Proc \ {p} :
              /\ at'[q] = at[q] /\ img'[q] = img[q] /\ todo'[q] = todo[q]
              /\ cur'[q] = cur[q] /\ tmp'[q] = tmp[q] /\ mnt'[q] = mnt[q],
           ProcOK(p)'
    PROVE  (\A q \in Proc : ProcOK(q))'
BY DEF ProcOK

(* A process that drops everything is idle and holds nothing.              *)
LEMMA DropKeeps ==
    ASSUME Types, \A q \in Proc : ProcOK(q), NEW p \in Proc, Drop(p)
    PROVE  /\ at'   \in [Proc -> Points]
           /\ img'  \in [Proc -> Image \cup {NoImage}]
           /\ todo' \in [Proc -> SUBSET Layer]
           /\ cur'  \in [Proc -> Layer \cup {NoLayer}]
           /\ tmp'  \in [Proc -> {"none", "partial", "whole"}]
           /\ mnt'  \in [Proc -> SUBSET Layer]
           /\ live' \in [Proc -> SUBSET {DiffId[l] : l \in Layer}]
           /\ (\A q \in Proc : ProcOK(q))'
<1>1. ProcOK(p)'
  BY DEF Drop, Types, ProcOK
<1>2. (\A q \in Proc : ProcOK(q))'
  BY <1>1, OthersKept DEF Drop, Types
<1>3. QED
  BY <1>2 DEF Drop, Types, Points

(* A process that falls back to unpacking holds its image and no mount.    *)
LEMMA FallBackKeeps ==
    ASSUME Types, \A q \in Proc : ProcOK(q),
           NEW p \in Proc, FallBack(p),
           at[p] \in {"ensure", "encode", "mount"}
    PROVE  /\ at'   \in [Proc -> Points]
           /\ img'  \in [Proc -> Image \cup {NoImage}]
           /\ todo' \in [Proc -> SUBSET Layer]
           /\ cur'  \in [Proc -> Layer \cup {NoLayer}]
           /\ tmp'  \in [Proc -> {"none", "partial", "whole"}]
           /\ mnt'  \in [Proc -> SUBSET Layer]
           /\ live' \in [Proc -> SUBSET {DiffId[l] : l \in Layer}]
           /\ (\A q \in Proc : ProcOK(q))'
<1>0. img[p] \in Image
  BY DEF ProcOK
<1>1. ProcOK(p)'
  BY <1>0 DEF FallBack, Types, ProcOK
<1>2. (\A q \in Proc : ProcOK(q))'
  BY <1>1, OthersKept DEF FallBack, Types
<1>3. LayersOf[img[p]] \subseteq Layer
  BY ErofsAssumption, <1>0
<1>4. QED
  BY <1>2, <1>3 DEF FallBack, Types, Points

(* The initial states are sound.                                           *)
LEMMA ErofsStart == ErofsInit => ErofsInductive
<1> SUFFICES ASSUME ErofsInit PROVE ErofsInductive
  OBVIOUS
<1>1. Types
  BY DEF ErofsInit, Types, Points
<1>2. ErofsSound /\ \A p \in Proc : ProcOK(p)
  BY DEF ErofsInit, ErofsSound, ProcOK
<1>3. QED
  BY <1>1, <1>2, ErofsInvParts

(* Every action keeps the invariant.                                       *)
LEMMA ErofsStep == ErofsInductive /\ [ErofsNext]_erofsVars => ErofsInductive'
<1> SUFFICES ASSUME ErofsInductive, [ErofsNext]_erofsVars PROVE ErofsInductive'
  OBVIOUS
<1> USE DEF staging
<1>0. Types /\ ErofsSound /\ \A q \in Proc : ProcOK(q)
  BY ErofsInvParts
<1> SUFFICES Types' /\ ErofsSound' /\ (\A q \in Proc : ProcOK(q))'
  <2>1. (ErofsInductive <=> Types /\ ErofsSound /\ \A p \in Proc : ProcOK(p))'
    BY ErofsInvParts, PTL
  <2>2. QED
    BY <2>1
<1>1. CASE Tag
  <2>1. PICK i \in Image : tagged' = tagged \cup {i} /\ blob' = blob \cup LayersOf[i]
    BY <1>1 DEF Tag
  <2>2. LayersOf[i] \subseteq Layer
    BY ErofsAssumption
  <2>3. QED
    BY <1>0, <1>1, <2>1, <2>2 DEF Tag, Types, ErofsSound, ProcOK
<1>2. CASE Untag
  BY <1>0, <1>2 DEF Untag, Types, ErofsSound, ProcOK
<1>3. ASSUME NEW p \in Proc, from_image(p)
      PROVE  Types' /\ ErofsSound' /\ (\A q \in Proc : ProcOK(q))'
  <2>1. PICK i \in tagged :
          /\ at' = [at EXCEPT ![p] =
                      IF LayersOf[i] # {} /\ LayersOf[i] \subseteq Gzip THEN "ensure" ELSE "unpack"]
          /\ img'  = [img  EXCEPT ![p] = i]
          /\ todo' = [todo EXCEPT ![p] = LayersOf[i]]
    BY <1>3 DEF from_image
  <2>2. i \in Image /\ LayersOf[i] \subseteq Layer
    BY ErofsAssumption, <1>0 DEF Types
  <2>3. ProcOK(p)'
    BY <1>0, <1>3, <2>1, <2>2 DEF from_image, Types, ProcOK
  <2>4. (\A q \in Proc : ProcOK(q))'
    BY <1>0, <1>3, <2>1, <2>3, OthersKept DEF from_image, Types
  <2>5. QED
    BY <1>0, <1>3, <2>1, <2>2, <2>4 DEF from_image, Types, Points, ErofsSound
<1>4. ASSUME NEW p \in Proc, ensure_layer_erofs(p)
      PROVE  Types' /\ ErofsSound' /\ (\A q \in Proc : ProcOK(q))'
  <2>1. PICK l \in todo[p] :
         \/ /\ erofs[l] # "absent"
            /\ todo' = [todo EXCEPT ![p] = @ \ {l}]
            /\ UNCHANGED <<at, img, cur, tmp, mnt, live>>
         \/ /\ erofs[l] = "absent" /\ l \in blob
            /\ at'  = [at  EXCEPT ![p] = "encode"]
            /\ cur' = [cur EXCEPT ![p] = l]
            /\ tmp' = [tmp EXCEPT ![p] = "partial"]
            /\ UNCHANGED <<img, todo, mnt, live>>
         \/ FallBack(p)
    BY <1>4 DEF ensure_layer_erofs
  <2>2. l \in Layer /\ l # NoLayer
    BY ErofsAssumption, <1>0 DEF Types
  <2>3. CASE FallBack(p)
    BY <1>0, <1>4, <2>3, FallBackKeeps DEF ensure_layer_erofs, Types, ErofsSound
  <2>4. CASE ~ FallBack(p)
    <3>1. ProcOK(p)'
      BY <1>0, <1>4, <2>1, <2>2, <2>4 DEF ensure_layer_erofs, Types, ProcOK
    <3>2. (\A q \in Proc : ProcOK(q))'
      BY <1>0, <2>1, <2>4, <3>1, OthersKept DEF Types
    <3>3. QED
      BY <1>0, <1>4, <2>1, <2>2, <2>4, <3>2
         DEF ensure_layer_erofs, Types, Points, ErofsSound
  <2>5. QED
    BY <2>3, <2>4
<1>5. ASSUME NEW p \in Proc, mkfs_erofs(p)
      PROVE  Types' /\ ErofsSound' /\ (\A q \in Proc : ProcOK(q))'
  <2>1. CASE FallBack(p)
    BY <1>0, <1>5, <2>1, FallBackKeeps DEF mkfs_erofs, Types, ErofsSound
  <2>2. CASE ~ FallBack(p)
    <3>1. ProcOK(p)'
      BY <1>0, <1>5, <2>2 DEF mkfs_erofs, Types, ProcOK
    <3>2. (\A q \in Proc : ProcOK(q))'
      BY <1>0, <1>5, <2>2, <3>1, OthersKept DEF mkfs_erofs, Types
    <3>3. QED
      BY <1>0, <1>5, <2>2, <3>2 DEF mkfs_erofs, Types, Points, ErofsSound
  <2>3. QED
    BY <2>1, <2>2
<1>6. ASSUME NEW p \in Proc, Persist(p)
      PROVE  Types' /\ ErofsSound' /\ (\A q \in Proc : ProcOK(q))'
  <2>1. cur[p] \in Layer /\ tmp[p] = "whole"
    BY <1>0, <1>6 DEF Persist, Types, ProcOK
  <2>2. ProcOK(p)'
    BY <1>0, <1>6 DEF Persist, Types, ProcOK
  <2>3. (\A q \in Proc : ProcOK(q))'
    BY <1>0, <1>6, <2>2, OthersKept DEF Persist, Types
  <2>4. ErofsSound'
    BY <1>0, <1>6, <2>1 DEF Persist, Types, ErofsSound
  <2>5. QED
    BY <1>0, <1>6, <2>1, <2>3, <2>4 DEF Persist, Types, Points
<1>7. ASSUME NEW p \in Proc, AllEncoded(p)
      PROVE  Types' /\ ErofsSound' /\ (\A q \in Proc : ProcOK(q))'
  <2>1. img[p] \in Image /\ mnt[p] = {}
    BY <1>0, <1>7 DEF AllEncoded, ProcOK
  <2>2. LayersOf[img[p]] \subseteq Layer
    BY ErofsAssumption, <2>1
  <2>3. ProcOK(p)'
    BY <1>0, <1>7, <2>1 DEF AllEncoded, Types, ProcOK
  <2>4. (\A q \in Proc : ProcOK(q))'
    BY <1>0, <1>7, <2>3, OthersKept DEF AllEncoded, Types
  <2>5. QED
    BY <1>0, <1>7, <2>2, <2>4 DEF AllEncoded, Types, Points, ErofsSound
<1>8. ASSUME NEW p \in Proc, mount_one(p)
      PROVE  Types' /\ ErofsSound' /\ (\A q \in Proc : ProcOK(q))'
  <2>1. CASE FallBack(p)
    BY <1>0, <1>8, <2>1, FallBackKeeps DEF mount_one, Types, ErofsSound
  <2>2. CASE \E l \in todo[p] :
               /\ erofs[l] # "absent"
               /\ todo' = [todo EXCEPT ![p] = @ \ {l}]
               /\ mnt'  = [mnt  EXCEPT ![p] = @ \cup {l}]
               /\ UNCHANGED <<at, img, cur, tmp, live>>
    <3>1. PICK l \in todo[p] :
               /\ todo' = [todo EXCEPT ![p] = @ \ {l}]
               /\ mnt'  = [mnt  EXCEPT ![p] = @ \cup {l}]
               /\ UNCHANGED <<at, img, cur, tmp, live>>
      BY <2>2
    <3>2. mnt'[p] \cup todo'[p] = mnt[p] \cup todo[p] /\ l \in Layer
      BY <1>0, <3>1 DEF Types
    <3>3. ProcOK(p)'
      BY <1>0, <1>8, <3>1, <3>2 DEF mount_one, Types, ProcOK
    <3>4. (\A q \in Proc : ProcOK(q))'
      BY <1>0, <3>1, <3>3, OthersKept DEF Types
    <3>5. QED
      BY <1>0, <1>8, <3>1, <3>2, <3>4 DEF mount_one, Types, ErofsSound
  <2>3. CASE /\ todo[p] = {}
             /\ at' = [at EXCEPT ![p] = "up"]
             /\ UNCHANGED <<img, todo, cur, tmp, mnt, live>>
    <3>1. mnt[p] = LayersOf[img[p]]
      BY <1>0, <1>8, <2>3 DEF mount_one, ProcOK
    <3>2. ProcOK(p)'
      BY <1>0, <1>8, <2>3, <3>1 DEF mount_one, Types, ProcOK
    <3>3. (\A q \in Proc : ProcOK(q))'
      BY <1>0, <2>3, <3>2, OthersKept DEF Types
    <3>4. QED
      BY <1>0, <1>8, <2>3, <3>3 DEF mount_one, Types, Points, ErofsSound
  <2>4. QED
    BY <1>8, <2>1, <2>2, <2>3 DEF mount_one
<1>18. ASSUME NEW p \in Proc, MountpointFails(p)
       PROVE  Types' /\ ErofsSound' /\ (\A q \in Proc : ProcOK(q))'
  BY <1>0, <1>18, FallBackKeeps DEF MountpointFails, Types, ErofsSound
<1>9. ASSUME NEW p \in Proc, unpack_layers_into(p)
      PROVE  Types' /\ ErofsSound' /\ (\A q \in Proc : ProcOK(q))'
  <2>1. CASE Drop(p)
    BY <1>0, <1>9, <2>1, DropKeeps DEF unpack_layers_into, Types, ErofsSound
  <2>2. CASE ~ Drop(p)
    <3>1. ProcOK(p)'
      BY <1>0, <1>9, <2>2 DEF unpack_layers_into, Types, ProcOK
    <3>2. (\A q \in Proc : ProcOK(q))'
      BY <1>0, <1>9, <2>2, <3>1, OthersKept DEF unpack_layers_into, Types
    <3>3. QED
      BY <1>0, <1>9, <2>2, <3>2 DEF unpack_layers_into, Types, Points, ErofsSound
  <2>3. QED
    BY <2>1, <2>2
<1>10. ASSUME NEW p \in Proc, Done(p)
       PROVE  Types' /\ ErofsSound' /\ (\A q \in Proc : ProcOK(q))'
  BY <1>0, <1>10, DropKeeps DEF Done, Types, ErofsSound
<1>11. ASSUME NEW p \in Proc, report_prune(p)
       PROVE  Types' /\ ErofsSound' /\ (\A q \in Proc : ProcOK(q))'
  <2>1. ProcOK(p)'
    BY <1>0, <1>11 DEF report_prune, Types, ProcOK
  <2>2. (\A q \in Proc : ProcOK(q))'
    BY <1>0, <1>11, <2>1, OthersKept DEF report_prune, Types
  <2>3. QED
    BY <1>0, <1>11, <2>2 DEF report_prune, Types, Points, ErofsSound
<1>12. ASSUME NEW p \in Proc, prune_blobs(p)
       PROVE  Types' /\ ErofsSound' /\ (\A q \in Proc : ProcOK(q))'
  <2>1. ProcOK(p)'
    BY <1>0, <1>12 DEF prune_blobs, Types, ProcOK
  <2>2. (\A q \in Proc : ProcOK(q))'
    BY <1>0, <1>12, <2>1, OthersKept DEF prune_blobs, Types
  <2>3. QED
    BY <1>0, <1>12, <2>2 DEF prune_blobs, Types, Points, ErofsSound
<1>13. ASSUME NEW p \in Proc, prune_erofs_cache(p)
       PROVE  Types' /\ ErofsSound' /\ (\A q \in Proc : ProcOK(q))'
  <2>1. collect_reachable_diff_ids \subseteq {DiffId[l] : l \in Layer}
    BY ErofsAssumption, <1>0 DEF collect_reachable_diff_ids, Types
  <2>2. ProcOK(p)'
    BY <1>0, <1>13 DEF prune_erofs_cache, Types, ProcOK
  <2>3. (\A q \in Proc : ProcOK(q))'
    BY <1>0, <1>13, <2>2, OthersKept DEF prune_erofs_cache, Types
  <2>4. QED
    BY <1>0, <1>13, <2>1, <2>3 DEF prune_erofs_cache, Types, Points, ErofsSound
<1>14. ASSUME NEW p \in Proc, prune_dir(p)
       PROVE  Types' /\ ErofsSound' /\ (\A q \in Proc : ProcOK(q))'
  <2>1. CASE Drop(p) /\ UNCHANGED erofs
    BY <1>0, <1>14, <2>1, DropKeeps DEF prune_dir, Types, ErofsSound
  <2>2. CASE ~ (Drop(p) /\ UNCHANGED erofs)
    <3>1. (\A q \in Proc : ProcOK(q))'
      BY <1>0, <1>14, <2>2 DEF prune_dir, ProcOK
    <3>2. QED
      BY <1>0, <1>14, <2>2, <3>1 DEF prune_dir, Types, ErofsSound
  <2>3. QED
    BY <2>1, <2>2
<1>15. ASSUME NEW p \in Proc, Crash(p)
       PROVE  Types' /\ ErofsSound' /\ (\A q \in Proc : ProcOK(q))'
  BY <1>0, <1>15, DropKeeps DEF Crash, Types, ErofsSound
<1>16. CASE UNCHANGED erofsVars
  BY <1>0, <1>16 DEF erofsVars, Types, ErofsSound, ProcOK
<1>17. QED
  BY <1>1, <1>2, <1>3, <1>4, <1>5, <1>6, <1>7, <1>8, <1>9, <1>10, <1>11, <1>12,
     <1>13, <1>14, <1>15, <1>16, <1>18 DEF ErofsNext, Stage, Prune

(* ensure_layer_erofs: a file at a cache path is a complete encode, a      *)
(* process that is not staging or up holds no mount of its own (what a     *)
(* kill or an uncreatable mountpoint left behind is nobody's), and every   *)
(* process holds what its next step needs.                                 *)
THEOREM ErofsCacheSound == ErofsSpec => []ErofsInv
<1>1. ErofsInductive => ErofsInv
  BY DEF ErofsInductive
<1>2. QED
  BY ErofsStart, ErofsStep, <1>1, PTL DEF ErofsSpec

(* MountedErofsLayers: the stack of a bundle that is up has no hole, even  *)
(* when --prune unlinks files between the encode and the mount.            *)
THEOREM NoHoleInTheStack == ErofsSpec => []StackComplete
<1>1. ErofsInductive => StackComplete
  BY DEF ErofsInductive
<1>2. QED
  BY ErofsStart, ErofsStep, <1>1, PTL DEF ErofsSpec
==============================================================================
