---------------------------- MODULE ImageLayout ----------------------------
(***************************************************************************)
(* The local OCI image layout of umf: the content-addressed blob store     *)
(* under blobs/sha256/, the mutable index.json that names the images in    *)
(* it, and every command that changes them:                                *)
(*                                                                         *)
(*   pull     RegistryClient::pull           manifest first, then its blobs *)
(*   emit     emit_image, emit_artifact_manifest       blobs first, then it *)
(*   compose  `umf index`: resolve_child, emit_index                       *)
(*   load     archive::load_from_reader                                    *)
(*   save     archive::save_to_writer (reads only)                         *)
(*   remove   `umf images --remove`                                        *)
(*   prune    `umf images [--remove ..] --prune`                           *)
(*                                                                         *)
(* Each command is a process of its own working on the same directory and  *)
(* nothing locks it, so one step here is one file-system operation: a      *)
(* blob read, a temp file created, a rename, an unlink, a read or an       *)
(* atomic replacement of index.json.  A process may be killed between any  *)
(* two of them, and a blob file may rot.  The erofs and block caches that  *)
(* `--prune` collects after the blobs share no state with the layout and   *)
(* are the modules ErofsCache and BlockCache.                              *)
(***************************************************************************)
EXTENDS Naturals, FiniteSets

CONSTANTS
    Proc,         \* umf processes
    Ref,          \* reference names
    NoRef,        \* the missing ref.name annotation of an untagged entry
    Digest,       \* digests of the blobs that can exist
    NoDigest,     \* no blob in hand
    Images,       \* digests whose bytes parse as an image manifest
    Indexes,      \* digests whose bytes parse as an image index
    Links,        \* config and layers of a manifest, children of an index
    Config,       \* the config among the links of an image manifest
    Remote,       \* manifests the registry serves
    Built,        \* image and artifact manifests that are emitted locally
    Composed,     \* indexes that `umf index` composes
    Archives,     \* archives to load: their tagged entries and their blobs
    MaxAttempts,  \* MAX_BLOB_ATTEMPTS
    MaxRot        \* bound: blob files that rot

Manifests == Images \cup Indexes
Leaves    == Digest \ Manifests

(* An entry of index.json: the manifest it names and its ref.name.         *)
Entries == [ref : Ref \cup {NoRef}, digest : Digest]

(* S has the config, layers and children of everything in it.              *)
Closed(S) == \A d \in S : Links[d] \subseteq S

(* Every blob transitively reachable from d, d included: what the walk of  *)
(* collect_reachable enumerates when every blob of it is there.            *)
Reach == [d \in Digest |->
            {x \in Digest : \A S \in SUBSET Digest : d \in S /\ Closed(S) => x \in S}]

ASSUME LayoutAssumption ==
    /\ NoRef \notin Ref
    /\ NoDigest \notin Digest
    /\ Images \subseteq Digest /\ Indexes \subseteq Digest
    /\ Images \cap Indexes = {}
    /\ Links \in [Digest -> SUBSET Digest]
    /\ \A d \in Images : Links[d] \subseteq Leaves /\ Config[d] \in Links[d]
    /\ \A d \in Indexes : Links[d] \subseteq Manifests
    /\ \A d \in Leaves : Links[d] = {}
    /\ Remote \subseteq Manifests
    /\ Built \subseteq Images
    /\ Composed \subseteq {d \in Indexes : Links[d] \subseteq Images /\ Links[d] # {}}
    /\ MaxAttempts \in Nat \ {0}
    /\ MaxRot \in Nat

(* An archive is one `umf save` wrote: the closure of what its index names. *)
ASSUME ArchiveAssumption ==
    \A ar \in Archives :
        /\ ar.entries \subseteq Entries
        /\ ar.blobs \subseteq Digest
        /\ Closed(ar.blobs)
        /\ \A e \in ar.entries : e.ref \in Ref /\ e.digest \in ar.blobs

VARIABLES
    blobs,   \* what the file blobs/sha256/<digest> holds
    index,   \* the manifests of index.json
    rots,    \* blob files that have rotted so far
    pc,      \* where each process is
    kind,    \* the command each process runs
    names,   \* refs still to look up, remove or save
    ents,    \* entries still to be upserted
    todo,    \* digests still to visit
    done,    \* digests visited
    cur,     \* the blob in hand
    tries,   \* attempts at fetching it
    tmp,     \* whether the temp file it is written to is still there
    snap,    \* the index as read before index.json is replaced
    flaw,    \* history: what may have misled the command
    lost     \* history: blobs taken by a prune that was misled

(* A prune is misled when another command runs beside it ("shared"), for   *)
(* nothing locks the layout, and a prune or save when its walk meets a     *)
(* blob that is not there and takes it for a leaf ("missed").              *)
Flaws == {"shared", "missed"}

local == <<kind, names, ents, todo, done, cur, tries, tmp, snap, flaw>>
vars  == <<blobs, lost, index, rots, pc, local>>

Present == {d \in Digest : blobs[d] # "absent"}

(* The blobs that are there or that a misled prune has taken.              *)
Held == Present \cup lost

has_blob(d) == blobs[d] # "absent"
lookup_ref(r) == {e \in index : e.ref = r}

Kinds == {"none", "pull", "emit", "compose", "load", "reload",
          "save", "remove", "prune"}
Points == {"idle", "get", "fetch", "write", "persist", "resolve", "reread",
           "preflight", "read", "commit", "remove", "removing",
           "roots", "walk", "sweep", "stream"}
----------------------------------------------------------------------------
(* Return: the command ends, with or without an error, and its memory is   *)
(* gone.  An error leaves on disk whatever was written before it.          *)
Return(p) ==
    /\ pc'    = [pc    EXCEPT ![p] = "idle"]
    /\ kind'  = [kind  EXCEPT ![p] = "none"]
    /\ names' = [names EXCEPT ![p] = {}]
    /\ ents'  = [ents  EXCEPT ![p] = {}]
    /\ todo'  = [todo  EXCEPT ![p] = {}]
    /\ done'  = [done  EXCEPT ![p] = {}]
    /\ cur'   = [cur   EXCEPT ![p] = NoDigest]
    /\ tries' = [tries EXCEPT ![p] = 1]
    /\ tmp'   = [tmp   EXCEPT ![p] = FALSE]
    /\ snap'  = [snap  EXCEPT ![p] = {}]
    /\ flaw'  = [flaw  EXCEPT ![p] = {}]

Goto(p, l) == pc' = [pc EXCEPT ![p] = l]

(* A command is started on the layout, whatever else runs there.  A prune  *)
(* shares it from then on with those that run already or start later.      *)
Shares(p, k) ==
    [q \in Proc |->
        LET beside == IF q = p THEN k = "prune" /\ \E r \in Proc \ {p} : pc[r] # "idle"
                               ELSE kind[q] = "prune"
        IN  flaw[q] \cup IF beside THEN {"shared"} ELSE {}]

Start(p, k, l, ns, es, ds) ==
    /\ pc[p] = "idle"
    /\ Goto(p, l)
    /\ kind'  = [kind  EXCEPT ![p] = k]
    /\ names' = [names EXCEPT ![p] = ns]
    /\ ents'  = [ents  EXCEPT ![p] = es]
    /\ todo'  = [todo  EXCEPT ![p] = ds]
    /\ flaw'  = Shares(p, k)
    /\ UNCHANGED <<blobs, lost, index, rots, done, cur, tries, tmp, snap>>

pull(p) ==
    \E r \in Ref, d \in Remote :
        Start(p, "pull", "get", {}, {[ref |-> r, digest |-> d]}, {d})

(* emit_image always tags, emit_artifact_manifest need not.                *)
emit(p) ==
    \E r \in Ref \cup {NoRef}, d \in Built :
        Start(p, "emit", "get", {}, {[ref |-> r, digest |-> d]}, Links[d] \cup {d})

run_index(p) ==
    \E r \in Ref, d \in Composed :
        Start(p, "compose", "resolve", {}, {[ref |-> r, digest |-> d]}, Links[d])

(* "reload" is a load with --overwrite: it skips the collision check.      *)
load_from_reader(p) ==
    \E ar \in Archives :
        \/ Start(p, "load", "preflight", {e.ref : e \in ar.entries}, ar.entries, ar.blobs)
        \/ Start(p, "reload", "preflight", {}, ar.entries, ar.blobs)

save_to_writer(p) ==
    \E rs \in SUBSET Ref : rs # {} /\ Start(p, "save", "roots", rs, {}, {})

run_images(p) ==
    \E rs \in SUBSET Ref, prune \in BOOLEAN :
        /\ rs # {} \/ prune
        /\ Start(p, IF prune THEN "prune" ELSE "remove", "remove", rs, {}, {})
----------------------------------------------------------------------------
(* Getting blobs into the store: pull, emit, compose and load.             *)

(* A pull descends into a manifest as soon as it has it and an emit writes *)
(* the manifest last: either way leaves come before the next manifest.  A  *)
(* load writes blobs in archive order, which may be any.                   *)
NextUp(p) ==
    IF kind[p] \notin {"load", "reload"} /\ todo[p] \cap Leaves # {}
    THEN todo[p] \cap Leaves ELSE todo[p]

(* A blob is taken in hand: its bytes are at hand already, or, for a pull, *)
(* they have to be fetched.                                                *)
TakeBlob(p) ==
    \E d \in NextUp(p) :
        /\ pc[p] = "get"
        /\ ~ (kind[p] = "pull" /\ d \in Leaves /\ has_blob(d))
        /\ Goto(p, IF kind[p] = "pull" THEN "fetch" ELSE "write")
        /\ cur'  = [cur  EXCEPT ![p] = d]
        /\ todo' = [todo EXCEPT ![p] = @ \ {d}]
        /\ UNCHANGED <<blobs, lost, index, rots, kind, names, ents, done, tries, tmp, snap, flaw>>

(* pull_blob_to_layout: a config or layer whose file exists is not pulled. *)
SkipCachedBlob(p) ==
    \E d \in NextUp(p) :
        /\ pc[p] = "get"
        /\ kind[p] = "pull" /\ d \in Leaves /\ has_blob(d)
        /\ todo' = [todo EXCEPT ![p] = @ \ {d}]
        /\ done' = [done EXCEPT ![p] = @ \cup {d}]
        /\ UNCHANGED <<blobs, lost, index, rots, pc, kind, names, ents, cur, tries, tmp, snap, flaw>>

(* The registry answers and the bytes hash to the digest asked for.        *)
Fetch(p) ==
    /\ pc[p] = "fetch"
    /\ Goto(p, "write")
    /\ UNCHANGED <<blobs, lost, index, rots, local>>

(* Faulty variants of Retry: the attempts are not capped, or not counted.  *)
RetryUncapped(p) ==
    /\ cur[p] \in Leaves /\ kind[p] = "pull"
    /\ Goto(p, "fetch")
    /\ tries' = [tries EXCEPT ![p] = @ + 1]
    /\ tmp'   = [tmp   EXCEPT ![p] = FALSE]
    /\ UNCHANGED <<kind, names, ents, todo, done, cur, snap, flaw>>

RetryUncounted(p) ==
    /\ cur[p] \in Leaves /\ kind[p] = "pull"
    /\ tries[p] < MaxAttempts
    /\ Goto(p, "fetch")
    /\ tmp' = [tmp EXCEPT ![p] = FALSE]
    /\ UNCHANGED <<kind, names, ents, todo, done, cur, tries, snap, flaw>>

(* A transient error while a config or layer is fetched or stored is       *)
(* retried after a pause; a manifest never is, nor any other error.        *)
Retry(p) ==
    /\ cur[p] \in Leaves /\ kind[p] = "pull"
    /\ tries[p] < MaxAttempts
    /\ Goto(p, "fetch")
    /\ tries' = [tries EXCEPT ![p] = @ + 1]
    /\ tmp'   = [tmp   EXCEPT ![p] = FALSE]
    /\ UNCHANGED <<kind, names, ents, todo, done, cur, snap, flaw>>

FetchFails(p) ==
    /\ pc[p] = "fetch"
    /\ Retry(p) \/ Return(p)
    /\ UNCHANGED <<blobs, lost, index, rots>>

(* A faulty variant of Stored: the children of an index are not pulled.    *)
StoredShallow(p) ==
    /\ Goto(p, "get")
    /\ done'  = [done  EXCEPT ![p] = @ \cup {cur[p]}]
    /\ todo'  = [todo  EXCEPT ![p] =
                  IF kind[p] = "pull" /\ cur[p] \in Images THEN @ \cup Links[cur[p]] ELSE @]
    /\ cur'   = [cur   EXCEPT ![p] = NoDigest]
    /\ tries' = [tries EXCEPT ![p] = 1]
    /\ tmp'   = [tmp   EXCEPT ![p] = FALSE]
    /\ UNCHANGED <<kind, names, ents, snap, flaw>>

(* The blob in hand is in the store.  A pull goes on to what it links to.  *)
Stored(p) ==
    /\ Goto(p, "get")
    /\ done'  = [done  EXCEPT ![p] = @ \cup {cur[p]}]
    /\ todo'  = [todo  EXCEPT ![p] = IF kind[p] = "pull" THEN @ \cup Links[cur[p]] ELSE @]
    /\ cur'   = [cur   EXCEPT ![p] = NoDigest]
    /\ tries' = [tries EXCEPT ![p] = 1]
    /\ tmp'   = [tmp   EXCEPT ![p] = FALSE]
    /\ UNCHANGED <<kind, names, ents, snap, flaw>>

(* write_blob_with_digest: a file that exists is never written again, good *)
(* or rotten; otherwise the bytes go to a temp file in the same directory, *)
write_blob_with_digest(p) ==
    /\ pc[p] = "write"
    /\ \/ has_blob(cur[p]) /\ Stored(p)
       \/ /\ ~ has_blob(cur[p])
          /\ Goto(p, "persist")
          /\ tmp' = [tmp EXCEPT ![p] = TRUE]
          /\ UNCHANGED <<kind, names, ents, todo, done, cur, tries, snap, flaw>>
    /\ UNCHANGED <<blobs, lost, index, rots>>

(* which atomic_write_bytes then renames onto the blob.  The rename fails  *)
(* if the temp file is gone: an I/O error, hence transient for a pull.     *)
Persist(p) ==
    /\ pc[p] = "persist"
    /\ \/ /\ tmp[p]
          /\ blobs' = [blobs EXCEPT ![cur[p]] = "ok"]
          /\ lost'  = lost \ {cur[p]}
          /\ Stored(p)
       \/ /\ ~ tmp[p]
          /\ IF cur[p] \in Leaves /\ kind[p] = "pull" /\ tries[p] < MaxAttempts
             THEN Retry(p) ELSE Return(p)
          /\ UNCHANGED <<blobs, lost>>
    /\ UNCHANGED <<index, rots>>

(* resolve_child: the child's ref must be in the index and name an image   *)
(* manifest that reads back whole; its config must read back too.          *)
resolve_child(p) ==
    /\ pc[p] = "resolve"
    /\ \/ \E d \in todo[p] :
            IF /\ \E e \in index : e.ref \in Ref /\ e.digest = d
               /\ blobs[d] = "ok"
               /\ blobs[Config[d]] = "ok"
            THEN /\ todo' = [todo EXCEPT ![p] = @ \ {d}]
                 /\ done' = [done EXCEPT ![p] = @ \cup {d}]
                 /\ UNCHANGED <<pc, kind, names, ents, cur, tries, tmp, snap, flaw>>
            ELSE Return(p)
       \/ /\ todo[p] = {}
          /\ Goto(p, "reread")
          /\ todo' = [todo EXCEPT ![p] = done[p]]
          /\ UNCHANGED <<kind, names, ents, done, cur, tries, tmp, snap, flaw>>
    /\ UNCHANGED <<blobs, lost, index, rots>>

(* emit_index reads every child manifest again, then writes the index.     *)
emit_index(p) ==
    /\ pc[p] = "reread"
    /\ \/ \E d \in todo[p] :
            IF blobs[d] = "ok"
            THEN /\ todo' = [todo EXCEPT ![p] = @ \ {d}]
                 /\ UNCHANGED <<pc, kind, names, ents, done, cur, tries, tmp, snap, flaw>>
            ELSE Return(p)
       \/ /\ todo[p] = {}
          /\ Goto(p, "get")
          /\ todo' = [todo EXCEPT ![p] = {e.digest : e \in ents[p]}]
          /\ UNCHANGED <<kind, names, ents, done, cur, tries, tmp, snap, flaw>>
    /\ UNCHANGED <<blobs, lost, index, rots>>

(* load: every ref of the archive is looked up before anything is written. *)
preflight(p) ==
    /\ pc[p] = "preflight"
    /\ \/ \E r \in names[p] :
            IF lookup_ref(r) = {}
            THEN /\ names' = [names EXCEPT ![p] = @ \ {r}]
                 /\ UNCHANGED <<pc, kind, ents, todo, done, cur, tries, tmp, snap, flaw>>
            ELSE Return(p)
       \/ /\ names[p] = {}
          /\ Goto(p, "get")
          /\ UNCHANGED local
    /\ UNCHANGED <<blobs, lost, index, rots>>
----------------------------------------------------------------------------
(* index.json is read, changed in memory and replaced: two steps that      *)
(* another process may come between.                                       *)

AllStored(p) ==
    /\ pc[p] = "get" /\ todo[p] = {}
    /\ IF ents[p] = {} THEN Return(p) ELSE Goto(p, "read") /\ UNCHANGED local
    /\ UNCHANGED <<blobs, lost, index, rots>>

read_index(p) ==
    /\ pc[p] = "read"
    /\ Goto(p, "commit")
    /\ snap' = [snap EXCEPT ![p] = index]
    /\ UNCHANGED <<blobs, lost, index, rots, kind, names, ents, todo, done, cur, tries, tmp, flaw>>

(* A faulty variant of upsert_ref: the old entry is not filtered out.      *)
upsert_ref_append(ix, e) == ix \cup {e}

(* What upsert_ref and upsert_untagged make of the index they read.        *)
upsert_ref(ix, e) == {f \in ix : f.ref # e.ref} \cup {e}
upsert_untagged(ix, e) == {f \in ix : ~ (f.ref = NoRef /\ f.digest = e.digest)} \cup {e}

Upsert(ix, e) == IF e.ref = NoRef THEN upsert_untagged(ix, e) ELSE upsert_ref(ix, e)

write_index(p) ==
    /\ pc[p] = "commit"
    /\ \E e \in ents[p] :
         /\ index' = Upsert(snap[p], e)
         /\ IF ents[p] = {e}
            THEN Return(p)
            ELSE /\ Goto(p, "read")
                 /\ ents' = [ents EXCEPT ![p] = @ \ {e}]
                 /\ snap' = [snap EXCEPT ![p] = {}]
                 /\ UNCHANGED <<kind, names, todo, done, cur, tries, tmp, flaw>>
    /\ UNCHANGED <<blobs, lost, rots>>

(* images_remove: one remove_ref per name, each reading the index afresh.  *)
RemoveRead(p) ==
    /\ pc[p] = "remove" /\ names[p] # {}
    /\ Goto(p, "removing")
    /\ snap' = [snap EXCEPT ![p] = index]
    /\ UNCHANGED <<blobs, lost, index, rots, kind, names, ents, todo, done, cur, tries, tmp, flaw>>

remove_ref(ix, r) == {f \in ix : f.ref # r}

(* index.json is only replaced when the name was there.                    *)
RemoveWrite(p) ==
    /\ pc[p] = "removing"
    /\ \E r \in names[p] :
         /\ index' = IF remove_ref(snap[p], r) = snap[p] THEN index
                     ELSE remove_ref(snap[p], r)
         /\ names' = [names EXCEPT ![p] = @ \ {r}]
    /\ Goto(p, "remove")
    /\ snap' = [snap EXCEPT ![p] = {}]
    /\ UNCHANGED <<blobs, lost, rots, kind, ents, todo, done, cur, tries, tmp, flaw>>

RemoveEnd(p) ==
    /\ pc[p] = "remove" /\ names[p] = {}
    /\ IF kind[p] = "prune" THEN Goto(p, "roots") /\ UNCHANGED local ELSE Return(p)
    /\ UNCHANGED <<blobs, lost, index, rots>>
----------------------------------------------------------------------------
(* prune_blobs and save_to_writer: the index is read once, then            *)
(* collect_reachable walks what it names.                                  *)

Roots(p) ==
    IF kind[p] = "prune" THEN index ELSE {e \in index : e.ref \in names[p]}

read_roots(p) ==
    /\ pc[p] = "roots"
    /\ IF kind[p] = "save" /\ names[p] # {e.ref : e \in Roots(p)}
       THEN Return(p)
       ELSE /\ Goto(p, "walk")
            /\ snap' = [snap EXCEPT ![p] = Roots(p)]
            /\ todo' = [todo EXCEPT ![p] = {e.digest : e \in Roots(p)}]
            /\ UNCHANGED <<kind, names, ents, done, cur, tries, tmp, flaw>>
    /\ UNCHANGED <<blobs, lost, index, rots>>

Misses(p, d) ==
    [flaw EXCEPT ![p] = @ \cup IF has_blob(d) THEN {} ELSE {"missed"}]

(* Faulty variants of the walk: the children of an index are not walked,   *)
(* or a rotten blob counts as a leaf like an absent one.                   *)
collect_reachable_flat(p) ==
    /\ pc[p] = "walk"
    /\ \E d \in todo[p] :
         LET marked == {d} \cup (IF blobs[d] = "ok" /\ d \in Images THEN Links[d] ELSE {})
         IN  IF blobs[d] = "bad"
             THEN Return(p)
             ELSE /\ done' = [done EXCEPT ![p] = @ \cup marked]
                  /\ todo' = [todo EXCEPT ![p] = @ \ marked]
                  /\ flaw' = Misses(p, d)
                  /\ UNCHANGED <<pc, kind, names, ents, cur, tries, tmp, snap>>
    /\ UNCHANGED <<blobs, lost, index, rots>>

collect_reachable_lenient(p) ==
    /\ pc[p] = "walk"
    /\ \E d \in todo[p] :
         LET marked == {d} \cup (IF blobs[d] = "ok" /\ d \in Images THEN Links[d] ELSE {})
             child  == IF blobs[d] = "ok" /\ d \in Indexes THEN Links[d] ELSE {}
         IN  /\ done' = [done EXCEPT ![p] = @ \cup marked]
             /\ todo' = [todo EXCEPT ![p] = (@ \cup child) \ (done[p] \cup marked)]
             /\ flaw' = Misses(p, d)
    /\ UNCHANGED <<blobs, lost, index, rots, pc, kind, names, ents, cur, tries, tmp, snap>>

(* One read_blob of the walk: an absent blob is a leaf, a rotten one ends  *)
(* the command, an image's config and layers are marked unread, an index's *)
(* children are walked unless they already were.                           *)
collect_reachable(p) ==
    /\ pc[p] = "walk"
    /\ \E d \in todo[p] :
         LET marked == {d} \cup (IF blobs[d] = "ok" /\ d \in Images THEN Links[d] ELSE {})
             child  == IF blobs[d] = "ok" /\ d \in Indexes THEN Links[d] ELSE {}
         IN  IF blobs[d] = "bad"
             THEN Return(p)
             ELSE /\ done' = [done EXCEPT ![p] = @ \cup marked]
                  /\ todo' = [todo EXCEPT ![p] = (@ \cup child) \ (done[p] \cup marked)]
                  /\ flaw' = Misses(p, d)
                  /\ UNCHANGED <<pc, kind, names, ents, cur, tries, tmp, snap>>
    /\ UNCHANGED <<blobs, lost, index, rots>>

(* prune_dir lists the files that are there; save packs what it walked.    *)
WalkEnd(p) ==
    /\ pc[p] = "walk" /\ todo[p] = {}
    /\ Goto(p, IF kind[p] = "prune" THEN "sweep" ELSE "stream")
    /\ todo' = [todo EXCEPT ![p] = IF kind[p] = "prune" THEN Present \ done[p] ELSE done[p]]
    /\ UNCHANGED <<blobs, lost, index, rots, kind, names, ents, done, cur, tries, tmp, snap, flaw>>

Unlink(p, d) ==
    /\ blobs' = [blobs EXCEPT ![d] = "absent"]
    /\ lost'  = IF flaw[p] # {} /\ has_blob(d) THEN lost \cup {d} ELSE lost

(* A listed file whose digest was not reached is unlinked; one that cannot *)
(* be is skipped.                                                          *)
prune_dir(p) ==
    /\ pc[p] = "sweep"
    /\ \E d \in todo[p] :
         /\ Unlink(p, d) \/ UNCHANGED <<blobs, lost>>
         /\ todo' = [todo EXCEPT ![p] = @ \ {d}]
    /\ UNCHANGED <<index, rots, pc, kind, names, ents, done, cur, tries, tmp, snap, flaw>>

(* A file created while the directory is being read may be listed as well, *)
(* and a temp file is a file like any other.                               *)
PruneLateBlob(p) ==
    /\ pc[p] = "sweep"
    /\ \E d \in Present \ (done[p] \cup todo[p]) : Unlink(p, d)
    /\ UNCHANGED <<index, rots, pc, local>>

PruneTempFile(p) ==
    /\ pc[p] = "sweep"
    /\ \E q \in Proc : tmp[q] /\ tmp' = [tmp EXCEPT ![q] = FALSE]
    /\ UNCHANGED <<blobs, lost, index, rots, pc, kind, names, ents, todo, done, cur, tries, snap, flaw>>

(* write_file_entry opens each blob; a missing one is an error.            *)
write_file_entry(p) ==
    /\ pc[p] = "stream"
    /\ \E d \in todo[p] :
         IF has_blob(d)
         THEN /\ todo' = [todo EXCEPT ![p] = @ \ {d}]
              /\ UNCHANGED <<pc, kind, names, ents, done, cur, tries, tmp, snap, flaw>>
         ELSE Return(p)
    /\ UNCHANGED <<blobs, lost, index, rots>>

Finish(p) ==
    /\ pc[p] \in {"sweep", "stream"} /\ todo[p] = {}
    /\ Return(p)
    /\ UNCHANGED <<blobs, lost, index, rots>>
----------------------------------------------------------------------------
(* The process is killed: its memory is gone, its temp file is litter.     *)
Crash(p) ==
    /\ pc[p] # "idle"
    /\ Return(p)
    /\ UNCHANGED <<blobs, lost, index, rots>>

(* The bytes of a blob file change under it.                               *)
Rot ==
    /\ rots < MaxRot
    /\ \E d \in Digest : blobs[d] = "ok" /\ blobs' = [blobs EXCEPT ![d] = "bad"]
    /\ rots' = rots + 1
    /\ UNCHANGED <<lost, index, pc, local>>

Begin(p) ==
    \/ pull(p) \/ emit(p) \/ run_index(p) \/ load_from_reader(p)
    \/ save_to_writer(p) \/ run_images(p)

Put(p) ==
    \/ TakeBlob(p) \/ SkipCachedBlob(p) \/ Fetch(p) \/ FetchFails(p)
    \/ write_blob_with_digest(p) \/ Persist(p)
    \/ resolve_child(p) \/ emit_index(p) \/ preflight(p)

Record(p) ==
    AllStored(p) \/ read_index(p) \/ write_index(p)

Collect(p) ==
    \/ RemoveRead(p) \/ RemoveWrite(p) \/ RemoveEnd(p)
    \/ read_roots(p) \/ collect_reachable(p) \/ WalkEnd(p)
    \/ prune_dir(p) \/ write_file_entry(p) \/ Finish(p)

(* What the program does once started, left to itself.                     *)
Step(p) == Put(p) \/ Record(p) \/ Collect(p)

Next ==
    \/ \E p \in Proc :
          Begin(p) \/ Step(p) \/ PruneLateBlob(p) \/ PruneTempFile(p) \/ Crash(p)
    \/ Rot

(* ImageLayout::init: no blobs and an empty index.                         *)
Init ==
    /\ blobs = [d \in Digest |-> "absent"]
    /\ index = {}
    /\ rots  = 0
    /\ pc    = [p \in Proc |-> "idle"]
    /\ kind  = [p \in Proc |-> "none"]
    /\ names = [p \in Proc |-> {}]
    /\ ents  = [p \in Proc |-> {}]
    /\ todo  = [p \in Proc |-> {}]
    /\ done  = [p \in Proc |-> {}]
    /\ cur   = [p \in Proc |-> NoDigest]
    /\ tries = [p \in Proc |-> 1]
    /\ tmp   = [p \in Proc |-> FALSE]
    /\ snap  = [p \in Proc |-> {}]
    /\ flaw  = [p \in Proc |-> {}]
    /\ lost  = {}

Spec == Init /\ [][Next]_vars

(* A started command keeps running unless it is killed.                    *)
FairSpec == Spec /\ \A p \in Proc : WF_vars(Step(p))
----------------------------------------------------------------------------
(* Type correctness of the layout and of every process's memory.           *)
TypeOK ==
    /\ blobs \in [Digest -> {"absent", "ok", "bad"}]
    /\ index \subseteq Entries
    /\ rots  \in 0 .. MaxRot
    /\ pc    \in [Proc -> Points]
    /\ kind  \in [Proc -> Kinds]
    /\ names \in [Proc -> SUBSET Ref]
    /\ ents  \in [Proc -> SUBSET Entries]
    /\ todo  \in [Proc -> SUBSET Digest]
    /\ done  \in [Proc -> SUBSET Digest]
    /\ cur   \in [Proc -> Digest \cup {NoDigest}]
    /\ tries \in [Proc -> 1 .. MaxAttempts]
    /\ tmp   \in [Proc -> BOOLEAN]
    /\ snap  \in [Proc -> SUBSET Entries]
    /\ flaw  \in [Proc -> SUBSET Flaws]
    /\ lost  \subseteq Digest
    /\ \A p \in Proc : cur[p] # NoDigest <=> pc[p] \in {"fetch", "write", "persist"}

(* Every image index.json names is whole on disk: each blob reachable from *)
(* an entry has its file, whatever ran concurrently and whoever was killed *)
(* halfway, with one exception: a prune that ran beside another command,   *)
(* or came across what such a prune had done, has taken it.  It is what    *)
(* lets push, save, run and `umf index` work offline.                      *)
IndexClosed == \A e \in index : Reach[e.digest] \subseteq Held

(* At most one entry carries a given ref.name, so lookup_ref's "first      *)
(* match" is the only match, also after a stale index.json is written back.*)
RefsUnique == \A e, f \in index : e.ref = f.ref /\ e.ref \in Ref => e = f

(* A save that has started to pack blobs packs the whole closure of the    *)
(* refs it resolved, unless its walk missed a blob, and every blob of it   *)
(* is there to be opened or was taken by a misled prune.                   *)
SaveWhole ==
    \A p \in Proc : pc[p] = "stream" =>
        /\ "missed" \notin flaw[p] => \A e \in snap[p] : Reach[e.digest] \subseteq done[p]
        /\ done[p] \subseteq Held

(* What pull's comment promises: when it returns successfully the layout   *)
(* holds every blob transitively reachable from the manifest, but for what *)
(* a prune that overlapped it has taken, and the index carries its entry.  *)
PullDelivers ==
    [][\A p \in Proc : kind[p] = "pull" /\ write_index(p) =>
          \A e \in ents[p] : e \in index' /\ Reach[e.digest] \subseteq Held']_vars

(* The whole layout, with its unlocked index.json, its kills and its       *)
(* rotting files, behaves as the store of ImageStore: at no step is an     *)
(* image in the catalogue before its blobs are, after one of them has been *)
(* collected, or in two versions under one name.  Blobs taken by a misled  *)
(* prune count as stored: the loss of them is all that the missing lock    *)
(* adds to what the store may do.                                          *)
Store == INSTANCE ImageStore WITH
    Blob <- Digest, Name <- Ref, NoName <- NoRef, Needs <- Reach,
    stored <- Held, catalog <- index

ImplementsStore == Store!Spec

(* Every command ends: no wait for another process, and retries run out.   *)
CommandsEnd == \A p \in Proc : pc[p] # "idle" ~> pc[p] = "idle"
----------------------------------------------------------------------------
(* The inductive invariant behind IndexClosed and SaveWhole: what each      *)
(* process knows to be on disk at each point.                              *)

Whole(E) == \A e \in E : Reach[e.digest] \subseteq Held

(* What p has stored, has in hand or will still visit.                     *)
Pending(p) == done[p] \cup todo[p] \cup ({cur[p]} \ {NoDigest})

Storing == {"get", "fetch", "write", "persist"}

Idle(p) == /\ pc[p] = "idle" <=> kind[p] = "none"
           /\ pc[p] = "idle" => done[p] = {}

(* pull, emit and load: what is stored is on disk and everything it links  *)
(* to is stored or still to come.                                          *)
WriterInv(p) ==
    kind[p] \in {"pull", "emit", "load", "reload"} =>
        /\ pc[p] \in Storing \cup {"preflight", "read", "commit"}
        /\ done[p] \subseteq Held
        /\ \A e \in ents[p] : e.digest \in Pending(p)
        /\ \A d \in done[p] : Links[d] \subseteq Pending(p)
        /\ kind[p] # "pull" => Closed(Pending(p))
        /\ pc[p] \in {"read", "commit"} => todo[p] = {}

(* compose: the children found so far are whole.                           *)
ComposeInv(p) ==
    kind[p] = "compose" =>
        /\ pc[p] \in Storing \cup {"resolve", "reread", "read", "commit"}
        /\ pc[p] = "resolve" =>
              /\ \A e \in ents[p] : Links[e.digest] \subseteq done[p] \cup todo[p]
              /\ \A d \in done[p] : Reach[d] \subseteq Held
        /\ pc[p] # "resolve" =>
              \A e \in ents[p] : \A d \in Links[e.digest] : Reach[d] \subseteq Held
        /\ pc[p] \in Storing =>
              \A e \in ents[p] : e.digest \in Held \cup todo[p] \cup {cur[p]}
        /\ pc[p] \in {"read", "commit"} => \A e \in ents[p] : e.digest \in Held

(* prune and save: the roots read are whole, and the walk has marked or    *)
(* has still to visit everything they reach.  Even a prune that shares the *)
(* layout takes nothing that the index it read reaches.                    *)
WalkInv(p) ==
    kind[p] \in {"prune", "save", "remove"} =>
        /\ pc[p] \in {"remove", "removing", "roots", "walk", "sweep", "stream"}
        /\ kind[p] = "remove" => pc[p] \in {"remove", "removing"}
        /\ pc[p] \in {"remove", "removing", "roots"} => done[p] = {}
        /\ pc[p] \in {"walk", "stream"} => Whole(snap[p])
        /\ kind[p] = "prune" /\ "shared" \notin flaw[p] /\ pc[p] \in {"walk", "sweep"} =>
              snap[p] = index
        /\ pc[p] = "walk" =>
              /\ \A e \in snap[p] : e.digest \in done[p] \cup todo[p]
              /\ \A d \in todo[p] : Reach[d] \subseteq Held
              /\ \A d \in done[p] : Reach[d] \subseteq Held
              /\ "missed" \notin flaw[p] =>
                    \A d \in done[p] : Links[d] \subseteq done[p] \cup todo[p]
        /\ pc[p] \in {"sweep", "stream"} /\ "missed" \notin flaw[p] =>
              \A e \in snap[p] : Reach[e.digest] \subseteq done[p]
        /\ pc[p] = "sweep" => todo[p] \cap done[p] = {} /\ kind[p] = "prune"
        /\ pc[p] = "stream" => done[p] \subseteq Held /\ kind[p] = "save"

(* An index about to be written back is as whole as the one it was.        *)
SnapInv(p) == pc[p] \in {"commit", "removing"} => Whole(snap[p])

(* A prune that has not shared the layout has it to itself.                *)
Alone ==
    \A p \in Proc : kind[p] = "prune" /\ "shared" \notin flaw[p] =>
                       \A q \in Proc \ {p} : pc[q] = "idle"

ProcInv(p) == Idle(p) /\ WriterInv(p) /\ ComposeInv(p) /\ WalkInv(p) /\ SnapInv(p)

LayoutInv == TypeOK /\ Alone /\ IndexClosed /\ \A p \in Proc : ProcInv(p)
============================================================================
