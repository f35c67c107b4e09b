# A TLA+ model of umf

umf builds, stores, runs and boots OCI images from a Containerfile dialect.  It
is a Rust workspace: a command-line program (`src/cli`) over eight crates.  This
directory models the parts of it that keep state between steps, and the front end
that decides what those steps are; it checks them with TLC on small instances and
proves the central invariants with TLAPS.  Paths below are relative to the
repository; `PROJECT.json` maps every definition to its lines.

## The system

| Part | State it keeps | Operations | What is hard | What makes it correct |
|---|---|---|---|---|
| image layout (`umf-oci/registry/layout`, `archive`, `image`) | `blobs/sha256/`, `index.json` | pull, emit, index, load, save, remove, prune | unlocked read-modify-write of `index.json`, prune racing writers, kills, corrupt blobs | whatever `index.json` names is whole on disk; one entry per name |
| registry client (`umf-oci/registry/client`, `referrers`, `cli/sign`, `attest`, `sbom`) | what the registry has; the index of a subject's referrers | push, sign, attest, attach or generate an SBOM, list referrers | requests that fail after their effect, retries, unlocked read-modify-write of the fallback tag, a layout that changes under a push | no manifest without its parts; what is reported stays listed |
| erofs cache (`umf-oci/erofs`, `umf-engine/erofs`, `bundle`) | `cache/erofs`, mounts | encode, mount, fall back, prune | a file's existence is its "done" marker; a stack of mounts fails half way | only complete encodes; no bundle on a stack with a hole |
| block cache (`umf-compile`, `cli/compile`, `cli/run`) | `cache/blocks` | compile, run, save a block, prune | in-place projection, a name resolved twice, guests that write | a hit is the disk that was asked for |
| build engine (`umf-builder/engine_build`) | step cache, layer chain, overlay lowers, stage refs | FROM, ADD, RUN, ENV..., stages | cache keys versus what a step reads, resuming after cache hits | an adopted layer is the one the step would make |
| bootable build (`umf-builder/bootable`, `vm_runner`, `resolver`, `runtime_config`) | staging tree, ARG scopes, micro-VM, labels | resolve, walk, firewall, RUN in a VM, manifest | guests that hang or lie about their result, chains of extensions, directives that take effect out of order | what is emitted ran; a manifest true of its tree |
| host networking (`umf-networking/lib`, `vmnet`) | veths, nft tables, ip_forward, namespaces, DHCP daemons | set up, roll back, tear down | several processes on one host, failure half way, kernel reaping | nothing left behind; egress while up |
| rootless gateway (`umf-networking/rootless_net`, `owned_netns`, `ssrf`) | TCP/IP stack, listeners, flows, tap, thread | learn, accept, promote, splice, relay, join | six actors around one thread, half-closed streams, limits | only allowed destinations leave; streams end in order; teardown ends |
| container engine (`umf-engine/run`, `overlay`, `backends`) | bundle, overlay, spec, container | build, start, wait, delete, capture | cleanup on every exit; a spec that outlives a step | a container stands on its mounts; nothing stays |
| rootless identity (`umf-engine/rootless`, `subid`, `seccomp`, `lsm`) | user namespace, id maps, two pipes | fork helper, unshare, map, go on | a handshake in which each side may fail or die | nobody maps too early, nobody goes on unmapped |
| VMM (`umf-vmm`, `cli/run`) | child process, control socket, scratch files | create, boot, wait, shutdown | deadlines, errors after the spawn, crashes | no orphan, network around the VM's life |
| process registry (`cli/process`, `cli/ps`) | one JSON record per run | register, finish, list, prune | pid reuse, records of killed runs | a record never says less than is alive |
| front end (`umf-core`, `umf-parser`) | tokens, position, errors within one call | lex, parse, recover, validate | recovery, context of `#`, keywords as names | what is accepted is what is written |

All commands are processes of their own.  They interact through files under one
layout directory, through names of the host's kernel, and nowhere through locks:
what one process has read may be stale by its next step, and every process may be
killed between two of its steps.  That is why one action of a module is one
file-system, kernel or tool operation.

## Modules

| Module | Extends | Contents |
|---|---|---|
| `ImageStore` | nothing | what a layout promises: blobs and a catalogue that is always complete |
| `ImageLayout` | Naturals, FiniteSets; instances `ImageStore` | the layout and every command that changes it |
| `ImageLayoutProofs` | ImageLayout, TLAPS | lemmas about `Reach`, one per action, and seven theorems |
| `ErofsCache` | Naturals, FiniteSets | encoded layers, bundles that mount them, their collection |
| `BlockCache` | Naturals | projected disks and the commands that share them |
| `CacheProofs` | BlockCache, ErofsCache, TLAPS | complete encodes, stacks without holes; the disk at a path is of its variant |
| `BuildStage` | Naturals, Sequences, FiniteSets | a container build: stages, directives, the step cache, resumption |
| `BuildStageProofs` | BuildStage, FiniteSetTheorems, SequenceTheorems, WellFoundedInduction, TLAPS | every layer, adopted or made, is the one its directive asks for |
| `BootableBuild` | Naturals, Sequences | a bootable build, its extensions and its RUN steps in a VM |
| `BootableBuildProofs` | BootableBuild, TLAPS | what is emitted ran, what it says is so, what an extension keeps |
| `HostNet` | Naturals | container and VM networks on one host |
| `HostProofs` | HostNet, VmRun, TLAPS | who owns what on the host; what serves a network that is alone; VMM, network, handle and record |
| `Gateway` | Naturals, Sequences, FiniteSets | the network of one rootless RUN step |
| `GatewayProofs` | Gateway, FiniteSetTheorems, SequenceTheorems, WellFoundedInduction, TLAPS | streams in order, tables within limits, policy, refusals |
| `ContainerRun` | Naturals, Sequences, SequencesExt, FiniteSets | identity, namespaces and the containers of one process |
| `ContainerRunProofs` | ContainerRun, SequenceTheorems, TLAPS | the handshake and the life of a container |
| `VmRun` | Naturals, FiniteSets | `umf run`, the VMM below it and the records beside it |
| `FrontEnd` | Naturals, Sequences, FiniteSets, SequencesExt, FiniteSetsExt | from text to tree, against a reading line by line |
| `RegistryPush` | Naturals, Sequences, FiniteSets, SequencesExt | pushes of images and referrers to one registry |
| `RegistryPushProofs` | RegistryPush, SequenceTheorems, TLAPS | a registry that stays closed; referrers that stay listed |
| `MC...` | the module | the constants of its instances |

Definitions named `xyzSomething` with the comment "A faulty variant" are the
mutants of `PROJECT.json`: plausible bugs of the definition after them, each of
which TLC finds by the property it is listed with.  They are not part of any
specification.

### ImageLayout and ImageStore

`blobs` says of each digest whether its file is absent, intact or rotten; `index`
is the set of entries of `index.json`; the rest is the memory of each process
(`todo` and `done` are the work lists of the tree walks, `cur`/`tmp` a blob in
flight, `snap` the copy of `index.json` that was read and will be written back).

- `pull`, `TakeBlob`, `SkipCachedBlob`, `Fetch`, `Retry`, `FetchFails`, `Stored`:
  `pull_manifest_tree` stores the manifest before its config, layers and children,
  skips a blob whose file exists, and retries a transient error up to
  `MAX_BLOB_ATTEMPTS`.
- `write_blob_with_digest`, `Persist`: temp file, then rename.
- `read_index`, `write_index` with `upsert_ref` / `upsert_untagged`: the two halves
  of every change of `index.json`.
- `run_index` / `resolve_child` / `emit_index`; `load_from_reader` / `preflight`;
  `images_remove` (`RemoveRead`, `RemoveWrite`, `RemoveEnd`).
- `read_roots`, `collect_reachable`, `prune_dir`: prune, and `save`, which shares
  the walk.  `PruneLateBlob` and `PruneTempFile` are what a directory scan meets
  that appeared after the walk.
- `Crash`, `Rot`: a killed process; a blob file that no longer parses.

Nothing keeps a prune from running beside other commands.  `flaw` and `lost` are
history: a process that shared the layout with a prune, a walk that missed a blob,
and the blobs that a prune so misled has taken.  `Held` is what is on disk or lost in
this way, and the properties are stated with it: they say what the code keeps, and
that the missing lock costs exactly those blobs.

Digests are model values with a graph `Links`.  `Reach` is the least closed set
around a digest and is defined without recursion, so that it can be proved about.

`ImageStore` leaves the processes, temp files, walks and copies out: a blob may be
stored, a blob that no catalogued image needs may go, and the catalogue is replaced
as a whole by one that is complete and in which a name stands for one image.
`ImageLayout` implements it (`ImplementsStore`) with the blobs that are held as
`stored` and the entries of `index.json` as `catalog`.

### RegistryPush

`names`, `untagged`, `disk` and `rot` are the layout as far as a push sees it, and
change under it: `Retag`, `remove_ref`, `prune_blobs` and `Rot` are the other
commands, whose own steps are in `ImageLayout`.  `hub`, `tags` and `fallback` are the
registry.  `push` and `push_referrer` start the same walk: `push_manifest_tree` reads
a manifest and puts its parts before it on `work`, `push_blob_attempt` and
`push_blob_fails` upload with retries, `push_manifest_raw` puts the manifest, under
the tag of the command or, for an artifact, its own digest.  Any request may fail
without effect, or with it when the answer is lost.  A referrer then goes through
`probe_referrers` and, where the registry has no API, `pull_fallback_index` and
`push_fallback_index`.  `run_sign`, `run_attest`, `run_attach` and `run_generate`
differ in what they read and in the type of what they attach.  `raced` is history:
referrers whose index was written while another process held a copy.

### ErofsCache

`from_image` walks the layers of an image: `ensure_layer_erofs` (hit, or
`mkfs_erofs` into a temp file and `Persist`), then `mount_one` per layer.  A failing
encode or mount undoes mounts and temp file; a mountpoint that cannot be created
returns without undoing the mounts before it, which are then in `leaked`, as are those
of a killed process.  Both are followed by `FallBack`, which unpacks instead.
`report_prune` and what follows is the collection after a blob prune.

### BlockCache

A path of the cache is a record of what its name is made of (`cache_variant`), a
disk is the set of passes it has been through (`Parts`), each with the image,
geometry and filesystem that it was made from.  `run_compile`, `run_bootable` and
`save_block` look the path up; `compile_image` resolves the name a second time;
`write_gpt`, `populate_esp` and `write_rootfs_partition` write in place and may fail,
before, within or after what they write, a full partition included; `Guest` is a booted VM that writes to the cached file.

### BuildStage

A layer is the record of what made it, hence also its own digest, and a cache key
is the record of what the code hashes: what a key leaves out is what two different
steps may then share.  One process goes through `pull_into_layout`,
`resolve_base_image`, `from_image`, then its steps: `adopt_cached_layer` on a hit;
`Miss`, which for a RUN after an adopted layer is `RebuildWithoutCache` (the adopted
layer has no overlay lower to execute on); the `apply_*` actions; `StoreTruncate`
and `store`, the two halves of an unprotected write of the entry; `emit_image`.
`Fail` is any error or kill, an abort from `umf debug` included, `Edit` the author
between builds, `prune_blobs` removes layers that the cache still names.  `plan`
says who builds what in a behaviour, and how many builds there are.  `late` and
`mixed` are history: the builds under which a ref that they read was moved by another
build, and the layers that such builds made.

### BootableBuild

Builds follow each other and share a layout.  `probe_bootable` decides by the FROM
as written whether a build is bootable; `verify_requirements` and
`validate_ast_for_vm` refuse; `resolve_layers` is the cache-then-pull ladder, with
the check that only a FROM undergoes.  The shape (flavor, PID 1, kernel) comes from
the recipe, else from the labels and entrypoint of a bootable base, else from the
default.  A first walk lays ADDs and then the base's layers into `tree`; the firewall
of EXPOSE is written; a second walk carries each RUN out in a micro-VM that shares
the tree: `stage_helpers` removes an old exit marker and writes the environment file
when there is an environment, `run_create` boots the kernel that was detected, the
guest sources whatever environment file is in the tree, `run_timeout` stands against
the deadline, `run_collect` reads the exit marker.  A guest may finish, fail,
panic, hang or power off, and its command may remove files as well as add them
(`Effect`).  `boot_manifest` joins labels and manifest.  A tree is a
function from paths to contents; a marker, an environment file, a kernel and nft are
paths that matter.  `WORKDIR` is the list of the operands that make the path up
(`resolve_workdir`); `SHELL` is taken as written, where ENV, RUN and the others are
substituted.  The value of an ENV is one word, since the guest sources unquoted
`K=V` lines, and the removal of the helper files after a step is taken to succeed.

### HostNet

`veth`, `nat` and `vmhost` are what is on the host, by the names the code gives
them; `fwd` is `ip_forward`.  `claim` walks the block pool by trying to create the
link, `setup_host_side` ... `add_masquerade` are the setup of a container network,
`create_netns` ... `nft_apply` that of a VM.  `After` is the order of the three
teardowns: the drop of a container network, its rollback, and the VM's.  `Reap` is
the kernel, which removes the links of a dead namespace at a time of its own, often
before the guard is dropped.  `litter` and `shared` are history: networks that were
killed or met an error nobody undoes, and whether two networks ever coexisted.

### Gateway

The owner creates and pins a namespace and starts egress in one of three modes.  In
the native mode a thread takes turns: `fill_rx` reads up to `RX_BURST` frames off the tap,
`learn_ports` opens listeners and relays for ports it sees, `poll_frame` runs the
stack over each frame, `promote` opens a host socket for each established connection
if the policy allows it, `splice_tcp` moves bytes both ways and half-closes,
`pump_udp` relays, and `run_until` looks at the stop channel.  A write to the server
that fails, or of which its socket takes only a part, drops flow and socket
(`splice_fails`); `cut` is history.  The removal of the pin and the signal to pasta are
best effort: what they leave is in `left`.  The stack is external
and is modelled by the socket states the code tells apart.  `LearnUpTo` and `pull` state
in closed form what the loops of `learn_ports` and of the host-to-container copy do;
`MCGateway` compares `pull` with the loop, read by read.  The container's program
(`dial`, `write`, `finish`, `query`), its kernel (`acknowledge`, `read`,
`last_ack`), the servers and the owner act between any two steps of the thread.

### ContainerRun

One process from `main` to its exit.  `enter`: root, the root of a given namespace,
or a user who forks a helper, unshares, signals it and waits for the maps; the two
pipes are modelled with the write ends each side has open, so that end of file is
what it is.  The helper asks for its parent after the byte has come, so that `target`
is umf or, when umf is gone by then, the process that children are given to; the
message of a failing `newuidmap` may be longer than what is read of it, or than the pipe.
Then the bundle, the overlay by backend, the spec, the network, the
container from build to delete, and the guards in the order in which they drop.  In
a build the bundle and its spec serve every RUN of a stage, so what one step writes
the next one finds: a failed set-up may leave its link (`litter`), a mountpoint may not
be removable (`stuck`), and a wait that fails returns without a delete.  `Kill` and
`HelperKilled` may come at any time.

### VmRun

A run is dispatched by its command line and its image (`run_run`, `dispatch_runnable`,
`run_bootable`), sets up what it needs, writes its record, spawns qemu or cloud
hypervisor, connects within a deadline, boots, polls, waits, shuts down.  `Unwind`
is what every error does: it drops handle, network and guard in the order of the
code.  The VMM and the guest are actors (`Listens`, `GuestStarts`, `GuestHalts`, `Wedges`,
`VmmEnds`): a VMM may listen and stop answering, which the calls with a timeout give
up on and the first exchange does not; process ids are given again.  `ps` lists in steps: it reads a record,
tests the process id, writes the record back, and may prune.

### FrontEnd

A recipe is a sequence of lines, a line a sequence of pieces: a piece is a word, a
number, an option or a mark, by what lexer and grammar do with it.  `lex` drops
comments, joins lines, lets a string go on over the ends of lines until a quote closes
it, and rejects a number that is too large; `parse_stage`, `body_step` and one operator per directive
consume tokens, or report and skip (`recover_to_eol`, `recover_to_next_stage`); the
validator looks at the tree.  The reference is a reading that takes each logical
line by itself and has neither a position nor recovery.

## Runs

Distinct states, with two workers; every passing run takes about three minutes or less.

| Run | Instance | States | Properties |
|---|---|---|---|
| `layout_writers` | 2 processes, 1 name, 3 blobs (an index over an image, which can be pulled, built, loaded and composed), 1 archive, 2 attempts, 1 rotting file, prune overlaps anything | 1.8 M | `IndexClosed`, `LayoutInv`, `PullDelivers`, `ImplementsStore` |
| `layout_overlap` | 2 processes, 1 name, one image pulled, removed, saved and pruned, prune overlaps anything | 71 k | `CommandsEnd` |
| `registry_push` | 2 processes, 1 reference, an index over 2 images, 4 kinds of artifacts, registry with and without the API, 2 attempts, 2 commands, 1 damaged file | 394 k | `HubInv`, `ReferrerKept`, `PushesEnd` |
| `erofs_bundles` | 2 processes, 2 images over 3 layers, one not decodable | 590 k | `ErofsInv`, `StackComplete`, `StagingEnds` |
| `block_faults` | 2 commands that overlap, with retags in the middle of them, 1 name, 2 images, 2 filesystems, 2 geometries of which one has no room, no host mkfs, guests that write, 1 disk at a time | 293 k | `BlockInv`, `BlockVariant` |
| `build_edits` | five plans: one author who edits a recipe; stages with a duplicate name, a URL and an image added for two architectures; two directories with one key; two builds at a time that share keys and a base; two that move the ref of each other's stage; 2 or 3 builds, two outcomes of a RUN | 180 k | `StageInv`, `RunSawLayersBelow`, `BuildsEnd` |
| `host_net` | 2 containers whose walks collide on a stale block, 1 VM, pool of 2 | 508 k | `HostInv`, `NothingLeft`, `AloneServes` |
| `vm_run` | a run of 10 shapes, a container run, a ps, 2 process ids | 808 k | `VmInv`, `RunsSettle` |
| `bootable` | 3 builds in a row, 39 recipes, then 48, then 2; 8 published images; commands that add, replace and remove files | 38 k | `BootInv`, `EmittedMeansRan`, `SilenceKeepsBase`, `ImageTrue`, `BuildsEnd` |
| `gateway` | 3 connections on 2 ports, 2 datagrams, one of each denied; every table has room for one, a turn reads one frame of two | 264 k | `GatewayInv`, `Policed`, `RefusedOnlyWhenFull`, `TeardownEnds`, `FlowsReaped` |
| `front_end` | some twelve thousand recipes of up to three lines out of 58, of four lines with a string over some of them, or of six lines out of few; errors capped at 2 | 79 k | `ParserInv`, `Agrees`, `TreeIsText`, `ParseAdvances` |
| `container_run` | 8 commands on 10 hosts as root, given root and user; builds of two stages and four RUN steps | 209 k | `IdentityInv`, `HeldWhileRunning`, `LeavesItsResult`, `Confined`, `Settles` |

An `...Inv` is the conjunction of its module's type invariant with the invariants
that describe the same state; each conjunct has a name and a comment of its own.
Where a proof needs an invariant that is not among them, it is in the module of the
proofs, and was checked on the instance of the run before it was proved.

What they show, in the order of the table:

- Whatever `index.json` names is whole on disk at every step of every command, kills,
  a rotting file and stale copies of the index included, but for the blobs that a prune
  beside another command has taken; so is what a pull delivers and what a save packs;
  and the layout behaves as `ImageStore`, with those blobs counted as stored.  Commands
  end, whatever overlaps.
- The registry never has a manifest without everything it names, and has all that a
  command reported, whatever fails, is lost, killed or changed in the layout; a
  referrer that was reported stays listed unless its index was written while another
  process held a copy of it; every push ends.
- A file of the erofs cache is a complete encode; a bundle that comes up stands on
  all its layers or on none of the cache's; a process that unpacks has no mount in its
  hands; a failing mount leads to unpacking and not to a loop with a pruner.
- What is at a path of the block cache has the path's geometry, and its filesystem
  where it is of the path's image.
- A RUN executes on all the layers below it, and on the base its key names unless the
  ref moved under the build that made the layer, however hits, misses, prunes and
  rebuilds alternate; an adopted ADD layer has the contents that are there now, at the
  place of the directive or of one with the same key, an added image of an architecture
  that is built in the layout; a stage starts over at most once.
- A network that is over has left nothing unless it was killed or failed where the
  property says; networks that come one at a time have egress and restore
  `ip_forward`.
- A finished record means the VMM is gone; the record of a live run is not touched by
  any `ps`; networks span their VMs; every phase but the wait for the guest ends, unless
  a VMM that accepts the first connection does not answer on it.
- A bootable image is emitted only if a guest completed every RUN, in the context that
  the recipe states for it or, for a first RUN that no ENV precedes, with the variables
  that were left in the tree, stale exit markers notwithstanding; silence about flavor or PID 1 keeps the
  base's over a chain of two extensions; the manifest is true of the tree and the
  firewall of a stated ENTRYPOINT is enforced, up to what the recipe's own RUNs remove.
- Denied destinations are never re-originated; the server reads end of stream after
  all bytes, unless a write to it failed; dials are refused only at a limit; tables stay
  bounded; the drop of the network returns; a flow that both ends have closed is reaped
  if the program keeps reading.
- A recipe is accepted exactly when every line is good by itself, with the same tree
  and the same first error, strings over several lines included; no recovery loops.
- The helper maps only a parent that has unshared, or the reaper of one that was killed
  after it did; nothing goes on in an unmapped namespace; only the real root, or one
  whose uid_map cannot be read, touches the host's network; a running container
  stands on overlay, lowers and network; every step of a stage is confined alike; an
  error leaves a container that did not start or could not be waited for, and a link
  that could not be taken down; a layer ships no mountpoint of its own secrets that
  could be removed; the handshake cannot deadlock but for a message that the pipe cannot
  hold.

Bounds.  Two processes are enough for every check-then-act race in this code, as no
step waits for two others.  In `layout_writers` an image under an index makes the walk
recursive, and the archive and the two ways to make the same image let writers share
blobs, which is what makes a prune dangerous; `layout_overlap` has two images with a
shared config.  Three builds are the least that fill the cache,
invalidate part of it and resume, or that extend an extension; two RUN outcomes tell
whether a layer was executed twice.  One disk at a time (`MaxDisks`) is as many as a
path of the block cache has, and two commands meet at it.  The pool of two blocks with
one stale link makes a container walk, and a second one find no block.  Two commands on
a layout that may already have an image are two pushes, together or in turn, or a push
and a change of the layout under it.  Two process ids for two runs make
one be given again.  In the gateway every limit is one, so that two connections
already meet it, and a burst of one frame from a tap that holds two leaves frames for
the next turn; a chunk of two bytes against a buffer of one makes a write partial.
Three lines are a stage, a line that may go wrong, and the line after it that
recovery might swallow; four have a string over any line.  Bounds that are not in the
code are named: `MaxRot`, `MaxCommands`, `MaxDisks`, `plan.builds`, `MaxBytes`,
`MaxFrames`; `MaxAttempts`, `MAX_BLOB_ATTEMPTS`, `Blocks`, the other capitalised
constants of `Gateway` and those of `FrontEnd` are constants of the code, made small.

Deadlock is not checked in `vm_run`, `bootable` and `gateway`, which model
processes that come to an end, and in `registry_push`, whose commands are counted.

Fairness.  `CommandsEnd`, `PushesEnd`, `StagingEnds`, `BuildsEnd`, `RunsSettle`, `Settles`,
`TeardownEnds` and `FlowsReaped` assume weak fairness of each process's own steps: a
process that is not killed is scheduled.  `BootableBuild` adds that the deadline of a
RUN expires, which is a timer of the process; `ContainerRun` that the forked helper,
a process of umf, is scheduled; `Gateway` that the container's kernel completes its
handshakes and answers the last FIN, which no program of the container can stop.  That
a program reads what it is sent is not assumed: `FlowsReaped` has it as a condition.
Nothing is
assumed of other processes, of guests, containers and servers, or of the network
beyond the answer to one request; starting a command, editing, tagging, closing and
crashing are never fair.

## Disagreements observed

Met while modelling and present in the models; no run is spent on them, and each
property above is stated so that it says what does hold.  Lines are in `umf-oci`,
`umf-compile`, `umf-builder`, `umf-networking`, `umf-engine`, `umf-vmm`, `umf-parser`
and `src/cli` as the file names tell.

Where the code and a comment or a document differ:

- A prune that overlaps a pull deletes blobs that are stored and not yet recorded;
  the pull then succeeds with an incomplete image (`client.rs:221`).  The blobs are the
  `lost` of `ImageLayout`.
- `index.json` is replaced from a stale copy and drops another process's tag,
  although "tagged entries are never touched" (`layout.rs:322`).
- The erofs collector compares diff_ids with file names that are made from layer
  digests, so each prune deletes the encoded layers of images that are still tagged,
  although `docs/cli.md:180` says that it collects what is unreachable
  (`layout.rs:425`).
- A mountpoint that cannot be created leaves the layers that are already mounted
  (`umf-engine/src/erofs.rs:139`), although "on any failure, layers mounted so far are
  unmounted before returning" (lines 123-124).
- The manifests of an index are put under the tag of the index; a push of an index
  that stops half way leaves the tag on an image of one platform (`client.rs:645`).
- A failed projection leaves its partial disk at the cache path, where the next
  command takes it for a hit (`partition.rs:281`, `cli/compile.rs:76`).
- `oci_image_add_cache_key` leaves out the architecture of an added multi-arch image
  (`add.rs:465`), which `engine_build/mod.rs:89-94` says is folded into the RUN and ADD
  keys "so a layout reused across arches can't cross-contaminate".
- `umf ps` overwrites the exit of a run that has just ended with failed
  (`cli/process.rs:156`).
- The first exchange with a VMM has no timeout: the ping of cloud hypervisor
  (`cloud_hypervisor/mod.rs:90`; the comment at 76-80 has a timeout per call so that a
  daemon which is connected and stuck "can't hang the caller forever") and the greeting
  of qemu.  A daemon that accepts and does not answer holds the
  run.
- In a bootable extension the base's layers go over what ADD laid down
  (`bootable/mod.rs:643`; `docs/known-limitations.md:168`), and a short FROM reference
  loses the base's flavor and PID 1 (`bootable/mod.rs:493`).
- A `.umf-env` that a base or an ADD brings is sourced by the first RUN, when no
  ENV precedes it, as the file is written only when there is an environment (`vm_runner.rs:310`) and
  not cleared as the exit marker is (line 320; `initrd.rs:741`).
- The kernel is detected before the RUN steps (`bootable/mod.rs:646`, 655): a last RUN
  that removes or replaces it leaves a manifest which names a file that is gone.
- EXPOSE in a recipe that states no ENTRYPOINT is set up for systemd, also over a base
  that boots OpenRC or an appliance (`runtime_config.rs:103`), where
  `docs/known-limitations.md:35` and 38 speak of images that are refused.  The advice
  `RUN apk add nftables` of the error message (`runtime_config.rs:151`) cannot help, as
  nft is looked for before any RUN.
- The keys of the boot manifest "win a collision" with a user's LABEL
  (`bootable/mod.rs:686`), but only those that a build inserts: a LABEL with the key of
  the command line or the initramfs stays where the build has none.
- A connection whose handshake and FIN arrive in one turn keeps its listener
  (`gateway.rs:351`, `gateway.rs:484`).
- A failed or partial write to a server drops its socket (`gateway.rs:548`, 389-393),
  so that the server reads an end of stream after a part of the bytes; and a program
  that stops reading keeps its flow for ever, since the host socket is not read while
  the send buffer is full (line 559) and no timeout is set.
- A directive keyword is not accepted as the second key of a list, or before a
  comment (`grammar.rs:1369`, `lexer.rs:271`; `tests/parse.rs:1367`).
- A recipe without FROM, the empty one included, is accepted with no stages, although
  `grammar.rs:122` has it that "the stage loop will report the missing FROM"; the
  builders refuse it later (`engine_build/mod.rs:408`, `bootable/validate.rs:22`).
- The secret mounts of a RUN stay in the spec of its stage, and the mountpoint that
  the runtime makes for them may be in the layers of later steps (`noop.rs:105`;
  `docs/specification.md:134`); the removal of a step's own mountpoints ignores errors
  (`engine_build/run.rs:213`).
- The helper reads `getppid()` after the byte (`rootless.rs:222`): when umf is killed
  in between, newuidmap and newgidmap run against the process that took its children
  over, which the comment at 216-218 means to exclude.
- `setup_host_side` returns its error before the guard exists (`umf-networking`
  `lib.rs:236`): a veth that was added stays, although lines 22-23 say that a failed
  build leaves no host network state behind.

Further behaviours that a reader of the code may want to know:

- layout and build: `load` overwrites a name that appeared after its collision check;
  a retag between the two lookups of a compile stores one image's disk under
  another's digest; a build that emits the ref another is starting FROM splits that
  build's two lookups; staged builds in one layout share `umf-build/stage-0:internal`;
  the key of an added directory, and of an added URL (`cache.rs:214`), leaves out the name
  that a trailing slash appends (`add.rs:372`);
  an ADD source is hashed and read in two passes (`add.rs:151`); a cached block is
  booted writable (`cli/run.rs:392`).
- registry: two pushes of referrers of one subject that overlap lose one, as the
  comment of `push_referrer` concedes; `build --push` and `index --push` look the name
  up again and push what it stands for by then (`cli/build.rs:377`,
  `cli/index.rs:172`); a damaged blob is uploaded as often as there are attempts before
  it is an error, since every transport error counts as transient (`error.rs:65`).
- networking: overlapping networks restore `ip_forward` under each other; a VM's
  subnet is its process id modulo 8192, without a claim (`vmnet.rs:95`); a pasta daemon
  may survive a failed setup (`rootless_net.rs:189`) or a signal that could not be sent
  (line 199), and a pin an unmount that failed (`owned_netns.rs:76`); a partial send drops
  the rest of its chunk (`gateway.rs:571`); a UDP flow to a silent server is kept
  (`gateway.rs:449`); a connect holds the thread for up to ten seconds
  (`gateway.rs:610`).
- runs: an interrupt drops the wait future, and with it the child, before the
  graceful shutdown can be asked for (`cli/run.rs:355`); a stale namespace path stays
  in the spec when a later step's network set-up fails (`libcontainer.rs:136`); a start
  that fails leaves a parked container, and a wait that fails returns without the delete
  (`libcontainer.rs:258-266`); a failed unshare of the mount namespace is
  ignored (`rootless.rs:150`); a process whose uid_map cannot be read is taken for one of
  the initial namespace (`rootless.rs:343`); a message of newuidmap that is longer than
  the pipe holds both processes, as the reader stops at 8192 bytes and then waits for
  the writer (`rootless.rs:279-285`); a malformed line ends the search for subordinate
  ids.
- parser: recovery from a line cut short swallows the next one; errors in global ARGs
  are not counted against the cap; a directive before FROM is reported twice.

## What is proved

With TLAPS, for every value of the constants that satisfies the modules' `ASSUME`s:
any number of processes, networks, runs, connections and blobs.  Each invariant was
first checked by the run of its module.  A step lemma treats each action by itself; the
last step of a theorem combines them.

`ImageLayoutProofs`.  `IndexClosed` is not inductive: whether `index.json` stays
whole depends on what each process has in memory when it writes it.  `LayoutInv`
adds, per process and point, what is known to be held: a writer's stored blobs
are there and everything they link to is stored, in hand or still to come
(`WriterInv`); a composed index has only resolved children (`ComposeInv`); a walk
has marked or will visit all that its roots reach, and a sweep's victims are disjoint
from what it marked (`WalkInv`); the copy about to be written back is whole
(`SnapInv`); and a prune that has not shared the layout has it to itself (`Alone`),
which is the only prune after which less is held.  Prunes overlap everything else
without any assumption.  The lemmas about `Reach` (least closed set, child, parent,
union) carry the argument from links to closures.  Theorems:

- `TypeCorrect`;
- `LayoutInvariant`, `IndexAlwaysClosed` and `SaveAlwaysWhole`;
- `PullAlwaysDelivers`, an action property: a pull has one
  entry to record (`OneEntry`), so the write that records it is its last step, and the
  index after that write is closed;
- `NamesUnique`, since every copy that is written back has unique names itself;
- `LayoutImplementsStore`: the layout implements `ImageStore`.
  Every step changes at most one blob (`OneBlobAtATime`) or the index; with
  `LayoutInv` before and after it, that is a step of the store or none (`StoreStep`).

`CacheProofs`.  That the stack of a bundle has no hole is decided long before it
is up: `StagingInv` says that while layers are mounted each layer of the image is
mounted or still to be, and that what is about to be renamed into the cache is a whole
encode.  Theorems: `ErofsCacheSound` (a file of the cache is a complete encode, and
mounts are in the hands only of a process that mounts or is up; those that a failed
mkdir or a kill leaves are in nobody's) and `NoHoleInTheStack`, with prunes unlinking
files between the encode and the mount.  Of the block cache, `BlockVariant` needs that a
command at work knows its path and a projecting one its image (`BusyInv`); then each
pass writes a part of the path's geometry and filesystem, and truncation, guests and
prunes only remove or repeat parts.  Theorems: `BlockInvariant`, `BlockTypeCorrect`,
`NeverAWrongVariant`, for any number of overlapping commands and disks.

`BuildStageProofs`.  What a build adopts was made by another one, so the invariant
says of every entry of the step cache what its key alone tells of the layer (`Made`):
a RUN key describes command, environment, architecture, base and layers below; the key
of an ADD describes content and destination, and some directive of the plan the rest;
that of an added image leaves the architecture to some recipe of the plan.
Within a build, by the point of its process: the chain has one layer for each step it
is past (the lemma `Counted` finds the step of a layer by counting), the
environment is that of the step, an overlay without adopted layers is
the chain itself (the reason for `RebuildWithoutCache`), and, as long as no ref that the
build reads was moved by another (`late`), the ref of FROM stays between its two
lookups and the stages that are copied out of are still what their refs name.
A layer that an overtaken build makes is in `mixed`, and stays excused for the builds
that adopt it.  Theorems: `RunsOnWhatIsBelow` and `LayersAsWritten`.
`BuildAssumption` types recipes and images, gives intermediate stages refs of their own,
and has one last part to a path; overlapping builds that tag what others read, stages
that share refs and steps whose keys coincide are all admitted, and the properties name
what they change.

`BootableBuildProofs`.  The walks over directives are positions in a recipe and not
folds, so what is in force at a position is stated outright (`VarAt`, `ContextAt`) and
the walk is shown to carry it (`ScopeAt`, `RunOK`).  `RunOK` also says that the steps
that ran are those before the position, that no exit marker is in the tree while a
guest is staged or up that this guest did not write, hence a code that is read is the
guest's own; and which environment file is in the tree (`FileOK`): the one that was left
there before the first RUN, none between RUNs, the stated one for a guest that has an
environment.  `FromOK` and `ShapeOK` say what base is in hand and what was decided of
flavor and PID 1.  `TreeOK` says that the kernel and the firewall that were decided on
are in the tree that guests run in, but for what the RUNs so far have removed
(`RunsAt`), and that a guest which is up has booted its kernel: so only the latest RUN
can have removed it.  `Promises` says that these hold of the image once it is emitted,
for the builds that extend it.  Assumed are typed recipes, trees whose paths have two
parts, published bootable images whose label and entrypoint agree, as umf emits them,
and that no output is tagged with a short alias.
Theorems: `BuildConfined`, `EmittedOnlyIfRan`, `ExtensionKeepsBase`, `ImageSaysTrue`.

`RegistryPushProofs`.  A manifest is put only when all it consists of is in the
registry.  The work list makes that true step by step: of each manifest that is to be
put, every part is in the registry or ahead of it on the list (`WalkInv`), the command
has in hand what its point says (`EntryInv`), and whoever holds a copy of a fallback
index holds every referrer that was reported and not raced (`CopiesKept`).  The
assumptions say that manifests are neither blobs nor artifacts of another kind, as
digests of different contents are.  Theorems: `RegistryClosed`, and `ReportedIsListed`
for registries with and without the API.

`HostProofs`.  `NothingLeft` speaks of networks that are over; its inductive form
says of everything on the host whose it is and at which points its owner may still
have it (`OwnInv`, `VmHas`), and where each network can be (`PointInv`).  `AloneInv`
does the same for `ip_forward` and for the links and rules of a network that no other
has overlapped.  Theorems: `HostSafe`, `NetworksLeaveNothing`, `AloneIsServed`.  Of the
runs beside them, `LifeInv` places the VMM, the network and the scratch files by the
point of the run; `RecordInv` says what a listing may know: a run that it found dead is
over or killed and stays so, whoever is given its process id.  Theorem: `VmRunSafe`.

`ContainerRunProofs`.  Two halves with different arguments.  Who the process is:
`HandshakeInv` says what each side of the two pipes knows by its point, and the maps
are made after the unshare because the byte is read after it is sent; against whom they
are made is umf, or the reaper of a umf that was killed after it sent the byte.  What it does:
`PointInv` places the container, the network and the steps of a build, and `BundleInv`
says what a bundle is made of while it exists; `MountInv` traces every mount of the
spec to a step of the stage.  Theorems: `RunInvariant` with its
consequences `IdentityHolds`, `RunningIsHeld`, `ResultIsLeft` and `WorkloadConfined`.
The last rests on `ProfileAssumption`, which states what `default.json` contains:
mount only with CAP_SYS_ADMIN, clone without it only restricted by argument, and for
every architecture a block with such a clone.  TLC evaluates it on the blocks of the run.

`GatewayProofs`.  That the server reads end of stream last depends on every frame
that is under way, in the tap or in the device's queue, which are one queue `rx \o fd`.
`StreamInv` describes a connection within it: its SYN is alone, the acknowledgement
comes before everything else and once, the FIN comes last, and what was sent is what
was seen and what is still under way, counted.  So whatever reaches a live socket is
expected by it (`FrameTaken`), and a server whose socket is shut or dropped has had all
of it, unless one of the writes to it failed.  `TableInv` says that while frames are delivered every
learned port has all its listeners, free or taken, and that a SYN whose port is not
learned has met the cap; `LearnUpTo` never passes a port over below it (`Learning`, by
the least and the greatest frame of a set).  `OwnerInv` ties thread, tap and daemon to
the owner's point.  `Conn` and `Dgram` are assumed finite, so that they can be
counted.  Theorems: `GatewaySafe`; `OnlyAllowedLeaves`, inductive because only flows
are serviced and no flow is opened to a denied destination; `RefusedAtLimitOnly`, an
action property from `TableInv`.

Only model-checked:

- liveness (`CommandsEnd`, `PushesEnd`, `StagingEnds`, `BuildsEnd`, `RunsSettle`,
  `Settles`, `TeardownEnds`, `FlowsReaped`), which needs fairness and ENABLED and is
  out of the prover's reach;
- `FrontEnd` (`ParserInv`, `Agrees`, `TreeIsText`, `ParseAdvances`): lexing, lists and
  pairs, and the reading line by line, are folds and recursive functions over the text,
  and that the two agree, or even that a list ends after where it began, is an induction
  over it.

Every other invariant and every action property that a run checks is a theorem.

## Plan

Models that would come next: `DiskPlan` (partition arithmetic); `Unpack` (whiteouts
and opaque directories over a stack of layers); an abstract build without a cache,
which `BuildStage` implements.

## Not modelled

Formatting, progress output and argument parsing; codecs, tar, cpio, GPT and
filesystem bytes; the parsing of single references, URLs and paths; credentials,
search, the bytes of signatures and package lists; probes and metrics; the
unified kernel image, which is one call of an external tool; the contents of static
seccomp and LSM profiles and of network rulesets.  `PROJECT.json` lists every
component with the reason.
