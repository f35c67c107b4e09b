---------------------------- MODULE ContainerRun ----------------------------
(***************************************************************************)
(* One umf process that runs containers: umf run on an image, or the RUN   *)
(* steps of a build.  The process first settles who it is: root, root of a *)
(* user namespace that it was given, or a user who enters a namespace of   *)
(* its own with the ids that a forked helper maps for it.  It then prepares *)
(* a bundle, mounts an overlay, sets the network up, drives the container  *)
(* from build to delete and takes everything down again, in the order in   *)
(* which the guards are dropped.  A bundle and its runtime spec serve      *)
(* every RUN of a stage, so what one step writes into the spec the next    *)
(* one finds there.  Every call may fail; the helper or the process may be *)
(* killed at any time; the container runs for as long as it likes.         *)
(***************************************************************************)
EXTENDS Naturals, Sequences, SequencesExt, FiniteSets

CONSTANTS
    Request,     \* command lines, with the host that each of them meets
    Secret,      \* secrets of RUN --mount=type=secret
    Dotted,      \* those whose target has a .. component
    Block,       \* blocks of the default seccomp profile
    Call         \* system calls that the blocks name

RunStep == [secrets : SUBSET Secret, user : {"none", "number", "name"}]

ASSUME ContainerAssumption ==
    /\ Dotted \subseteq Secret
    /\ \A r \in Request :
          /\ r.ident \in {"root", "given", "user"} /\ r.cmd \in {"run", "build"}
          /\ r.mode \in {"none", "native", "pasta", "unknown"}
          /\ r.keep \in BOOLEAN /\ (r.keep => r.cmd = "run")
          /\ r.uidmap \in BOOLEAN /\ r.stderr \in {"short", "long", "flood"}
          /\ r.stages \in Seq(Seq(RunStep)) /\ r.stages # <<>>
    /\ \A b \in Block : b.calls \subseteq Call

(* default.json: mount is in one block, for who has CAP_SYS_ADMIN; clone   *)
(* is in that one and, restricted by argument, in one for every            *)
(* architecture without it.                                                *)
ASSUME ProfileAssumption ==
    /\ \A b \in Block : "mount" \in b.calls => "SYS_ADMIN" \in b.caps
    /\ \A b \in Block : "clone" \in b.calls => b.args \/ "SYS_ADMIN" \in b.caps
    /\ \A r \in Request : \E b \in Block :
          /\ "clone" \in b.calls /\ b.caps = {} /\ b.not_caps = {"SYS_ADMIN"}
          /\ r.arch \notin b.not_arches /\ (b.arches # {} => r.arch \in b.arches)

VARIABLES
    req,      \* the request being served
    pc,       \* where the process is
    ns,       \* its user namespace: the host's, a given one or a new one
    maps,     \* the id maps that the new namespace has
    ctx,      \* CONTEXT, once it is known
    helper,   \* the forked helper
    target,   \* whose id it runs the setuid helpers with
    go,       \* the byte on the pipe to the helper
    status,   \* the byte on the pipe from it
    ends,     \* the write ends of the two pipes that each process has open
    bundle,   \* the bundle: its lowers and its runtime spec
    overlay,  \* the mounted overlay, by backend
    upper,    \* mountpoints of secrets in the upper directory
    stuck,    \* those of them that could not be removed
    hold,     \* the pinned network namespace that a guard holds, or 0
    seq,      \* PIN_SEQ
    veth,     \* whether the container network of the host is up
    litter,   \* whether one that failed left its link on the host
    init,     \* the container's first process
    at,       \* the stage and the step
    layers,   \* layers of this stage: own secrets, mountpoints left and stuck
    kept,     \* the root of the bundle that --keep-bundle left behind
    out       \* the outcome: an error or an exit code

vars   == <<req, pc, ns, maps, ctx, helper, target, go, status, ends, bundle, overlay,
            upper, stuck, hold, seq, veth, litter, init, at, layers, kept, out>>
net    == <<hold, seq, veth, litter>>
ident  == <<ns, maps, helper, target, go, status, ends>>
work   == <<bundle, overlay, upper, stuck, net, init, at, layers, kept>>

Both      == {"uid", "gid"}
Exits     == {"exit0", "exit1", "signal"}
Ended     == {"over", "killed"}
Handshake == {"fork", "unshare", "reap", "signal", "status", "drain", "waitpid"}
Points    == Handshake \cup Ended \cup
             {"start", "newns", "egress", "bundle", "overlay", "options", "step",
              "apply", "net", "create", "cnet", "launch", "wait", "delete",
              "drop_veth", "keep", "drop_net", "scrub", "persist",
              "drop_overlay", "drop_bundle"}

Goto(l) == pc' = l /\ UNCHANGED req
Fail    == out' = "err" /\ Goto("drop_net")
----------------------------------------------------------------------------
(* Who the process is.                                                     *)

(* The first line of the owner with a count wins; a line that does not     *)
(* parse ends the search, whoever it belongs to.                           *)
parse_subid_range(lines, who) ==
    \E i \in DOMAIN lines : /\ lines[i] = who
                            /\ \A j \in 1..(i - 1) : lines[j] # "malformed"

resolve_ranges(who) == /\ req.helpers
                       /\ parse_subid_range(req.subuid, who)
                       /\ parse_subid_range(req.subgid, who)

IsRoot == req.ident # "user" \/ maps = Both

(* A uid_map that cannot be read is taken for the host's.                  *)
in_initial_user_namespace == ~req.uidmap \/ ns = "host"

derive_passive_context ==
    [known |-> TRUE, entered |-> FALSE,
     host_privileged |-> IsRoot /\ in_initial_user_namespace]

context == IF ctx.known THEN ctx ELSE derive_passive_context

enterByEuid ==
    /\ pc = "start"
    /\ \/ /\ req.ident # "user"
          /\ ctx' = [known |-> TRUE, entered |-> FALSE, host_privileged |-> TRUE]
          /\ Goto("egress")
       \/ /\ req.ident = "user"
          /\ Goto(IF resolve_ranges("user") THEN "fork" ELSE "egress")
          /\ UNCHANGED ctx
    /\ UNCHANGED <<ident, work, out>>

(* Root says where it is; a user without helpers or a grant stays outside  *)
(* and the command goes on without a context.                              *)
enter ==
    /\ pc = "start"
    /\ \/ /\ req.ident # "user"
          /\ ctx' = [known |-> TRUE, entered |-> ~in_initial_user_namespace,
                     host_privileged |-> in_initial_user_namespace]
          /\ Goto("egress")
       \/ /\ req.ident = "user"
          /\ Goto(IF resolve_ranges("user") THEN "fork" ELSE "egress")
          /\ UNCHANGED ctx
    /\ UNCHANGED <<ident, work, out>>

ForkEndsKept == [umf |-> {"go", "res"}, helper |-> {"res"}]

(* Both processes inherit all ends and close those they have no use for.   *)
ForkEnds == [umf |-> {"go"}, helper |-> {"res"}]

Eof(p) == p \notin ends.umf \cup ends.helper

apply_subordinate_maps ==
    /\ pc = "fork"
    /\ \/ /\ helper' = "waiting" /\ ends' = ForkEnds
          /\ Goto("unshare")
       \/ /\ Goto("egress")
          /\ UNCHANGED <<helper, ends>>
    /\ UNCHANGED <<ns, maps, target, go, status, ctx, work, out>>

UnshareUser ==
    /\ pc = "unshare"
    /\ \/ /\ ns' = "new"
          /\ Goto("signal")
          /\ UNCHANGED ends
       \/ /\ ends' = [ends EXCEPT !.umf = {}]
          /\ Goto("reap")
          /\ UNCHANGED ns
    /\ UNCHANGED <<maps, helper, target, go, status, ctx, work, out>>

ReapHelperUnwaited ==
    /\ pc = "reap"
    /\ Goto("egress")
    /\ UNCHANGED <<ident, ctx, work, out>>

ReapHelper ==
    /\ pc = "reap" /\ helper = "exited"
    /\ helper' = "reaped"
    /\ Goto("egress")
    /\ UNCHANGED <<ns, maps, target, go, status, ends, ctx, work, out>>

(* finish_subordinate_maps: write, read whatever came of it, reap.         *)
SignalHelper ==
    /\ pc = "signal"
    /\ go' = IF helper = "exited" THEN "broken" ELSE "sent"
    /\ Goto("status")
    /\ UNCHANGED <<ns, maps, helper, target, status, ends, ctx, work, out>>

ReadStatus ==
    /\ pc = "status"
    /\ status # "none" \/ Eof("res")
    /\ Goto(IF status = "one" THEN "drain" ELSE "waitpid")
    /\ UNCHANGED <<ident, ctx, work, out>>

(* The message is read to its end, or not much beyond 8192 bytes of it.    *)
ReadMessage ==
    /\ pc = "drain"
    /\ Eof("res") \/ req.stderr # "short"
    /\ Goto("waitpid")
    /\ UNCHANGED <<ident, ctx, work, out>>

finish_subordinate_mapsReturns ==
    /\ pc = "waitpid" /\ helper = "exited"
    /\ helper' = "reaped"
    /\ Goto(IF go # "broken" /\ status = "zero" THEN "newns" ELSE "egress")
    /\ UNCHANGED <<ns, maps, target, go, status, ends, ctx, work, out>>

(* There is no way back from the new namespace: without its maps the       *)
(* process ends here.                                                      *)
finish_subordinate_maps ==
    /\ pc = "waitpid" /\ helper = "exited"
    /\ helper' = "reaped"
    /\ IF go # "broken" /\ status = "zero"
       THEN Goto("newns") /\ UNCHANGED out
       ELSE Goto("over") /\ out' = "fatal"
    /\ UNCHANGED <<ns, maps, target, go, status, ends, ctx, work>>

(* A failure here is swallowed like one before the unshare.                *)
UnshareMount ==
    /\ pc = "newns"
    /\ \/ ctx' = [known |-> TRUE, entered |-> TRUE, host_privileged |-> FALSE]
       \/ UNCHANGED ctx
    /\ Goto("egress")
    /\ UNCHANGED <<ident, work, out>>

(* The parent that the helper has: the reaper's, once umf is gone.         *)
getppid == IF pc \in Ended THEN "reaper" ELSE "umf"

HelperReadsUnchecked ==
    /\ helper = "waiting"
    /\ go = "sent" \/ Eof("go")
    /\ helper' = "newuidmap" /\ target' = getppid
    /\ UNCHANGED <<req, pc, ns, maps, go, status, ends, ctx, work, out>>

(* The helper maps only once it has read the byte, and whoever is its      *)
(* parent by then: a byte that umf wrote before it was killed is read too. *)
HelperReads ==
    /\ helper = "waiting"
    /\ \/ /\ go = "sent"
          /\ helper' = "newuidmap" /\ target' = getppid
          /\ UNCHANGED ends
       \/ /\ go # "sent" /\ Eof("go")
          /\ helper' = "exited" /\ ends' = [ends EXCEPT !.helper = {}]
          /\ UNCHANGED target
    /\ UNCHANGED <<req, pc, ns, maps, go, status, ctx, work, out>>

(* newuidmap, then newgidmap.  Either may refuse; where the id is not, or  *)
(* is no longer, that of umf, what it maps is not the namespace of umf.    *)
Mapped(m) == maps' = IF target = "umf" /\ pc \notin Ended THEN maps \cup {m} ELSE maps

run_id_helpers ==
    /\ \/ /\ helper = "newuidmap"
          /\ Mapped("uid") /\ helper' = "newgidmap"
       \/ /\ helper = "newgidmap"
          /\ Mapped("gid") /\ helper' = "mapped"
       \/ /\ helper \in {"newuidmap", "newgidmap"}
          /\ helper' = "refused"
          /\ UNCHANGED maps
    /\ UNCHANGED <<req, pc, ns, target, go, status, ends, ctx, work, out>>

(* What a setuid helper printed goes down the pipe after the byte; more    *)
(* than the pipe holds keeps the writer there.                             *)
HelperReports ==
    /\ helper \in {"mapped", "refused"}
    /\ status' = IF helper = "mapped" THEN "zero" ELSE "one"
    /\ helper' = IF helper = "refused" /\ req.stderr = "flood" THEN "writing" ELSE "leaving"
    /\ UNCHANGED <<req, pc, ns, maps, target, go, ends, ctx, work, out>>

HelperLives == helper \notin {"none", "exited", "reaped"}

HelperGone ==
    /\ helper' = "exited"
    /\ ends' = [ends EXCEPT !.helper = {}]
    /\ UNCHANGED <<req, pc, ns, maps, target, go, status, ctx, work, out>>

(* A writer is let go by a reader who is gone.                             *)
HelperExits  == (helper = "leaving" \/ (helper = "writing" /\ pc \in Ended)) /\ HelperGone
HelperKilled == HelperLives /\ HelperGone

(* --rootless-net is parsed after the namespace and before any command.    *)
set_egress_mode_from_arg ==
    /\ pc = "egress"
    /\ IF req.mode = "unknown" THEN Goto("over") /\ out' = "err"
                               ELSE Goto("bundle") /\ UNCHANGED out
    /\ UNCHANGED <<ident, ctx, work>>
----------------------------------------------------------------------------
(* The bundle and its runtime spec.                                        *)

default_caps == {"CHOWN", "SETUID", "SYS_CHROOT", "MKNOD"}

block_applies(b) == /\ req.arch \notin b.not_arches
                    /\ b.not_caps \cap default_caps = {}
                    /\ b.arches # {} => req.arch \in b.arches
                    /\ b.caps \subseteq default_caps

filtered_profile == {b \in Block : block_applies(b)}

resolve_apparmor ==
    IF req.apparmor \in {"", "unconfined"} \/ req.apparmor \notin req.loaded
    THEN {} ELSE {"apparmor"}

resolve_selinux == IF req.enforcing /\ req.label THEN {"selinux"} ELSE {}

(* The part of the process section that confines the workload.             *)
Confinement == {"capabilities", "no_new_privileges"}
                   \cup resolve_apparmor \cup resolve_selinux

NoBundle == [lowers |-> "none", root |-> "none", mounts |-> {}, net |-> 0,
             userns |-> FALSE, cgroup |-> "fs", confine |-> {}, profile |-> {}]

build_runtime_spec(lowers) ==
    [lowers |-> lowers, root |-> "rootfs", mounts |-> {}, net |-> 0,
     userns |-> ~context.host_privileged /\ ~context.entered,
     cgroup |-> "fs", confine |-> Confinement, profile |-> filtered_profile]

(* A spec that asks youki for a user namespace needs the subordinate ids   *)
(* of whoever asks: of root, when the process is in a namespace already.   *)
rootless_id_mappings ==
    context.host_privileged \/ context.entered \/
    resolve_ranges(IF IsRoot THEN "root" ELSE "user")

LayerStrategyAsSet(keep) == IF req.cache = "unpack" THEN "Merge" ELSE "Erofs"

(* A bundle to be kept has its root filesystem on disk.                    *)
LayerStrategy(keep) == IF keep \/ req.cache = "unpack" THEN "Merge" ELSE "Erofs"

(* erofs is for the privileged, and falls back to unpacking.               *)
Lowers == {"merge"} \cup
          IF LayerStrategy(req.keep) = "Erofs" /\ context.host_privileged
          THEN {"erofs"} ELSE {}

from_image ==
    /\ pc = "bundle"
    /\ ctx' = context
    /\ \/ /\ rootless_id_mappings
          /\ \E l \in Lowers : bundle' = build_runtime_spec(l)
          /\ Goto(IF req.cmd = "run" THEN "overlay" ELSE "step")
          /\ UNCHANGED out
       \/ /\ Fail
          /\ UNCHANGED bundle
    /\ UNCHANGED <<ident, overlay, upper, stuck, net, init, at, layers, kept>>

OverlayBackend == CASE req.overlay \in {"kernel", "fuse"} -> req.overlay
                    [] IsRoot -> "kernel"
                    [] OTHER -> "fuse"

CanMount == OverlayBackend = "fuse" \/ IsRoot

mount_with_backend ==
    /\ CanMount
    /\ overlay' = OverlayBackend /\ upper' = {}
    /\ bundle' = [bundle EXCEPT !.root = "overlay"]

(* umf run needs an overlay over erofs lowers, and unpacks without one.    *)
mount_run_overlay ==
    /\ pc = "overlay"
    /\ \/ /\ bundle.lowers = "erofs"
          /\ mount_with_backend
          /\ Goto("options")
          /\ UNCHANGED out
       \/ /\ bundle.lowers = "erofs"
          /\ bundle' = build_runtime_spec("merge")
          /\ Goto("options")
          /\ UNCHANGED <<overlay, upper, out>>
       \/ /\ bundle.lowers = "erofs"
          /\ Fail
          /\ UNCHANGED <<bundle, overlay, upper>>
       \/ /\ bundle.lowers = "merge"
          /\ Goto("options")
          /\ UNCHANGED <<bundle, overlay, upper, out>>
    /\ UNCHANGED <<ident, ctx, stuck, net, init, at, layers, kept>>

(* An override of the entrypoint drops the command of the image.           *)
compose_argv == CASE req.entrypoint # <<>> -> req.entrypoint \o req.args
                  [] req.args # <<>> -> req.image.entrypoint \o req.args
                  [] OTHER -> req.image.entrypoint \o req.image.cmd

cgroup_scope_path == IF context.host_privileged THEN "fs" ELSE "scope"

apply_options_to_bundle ==
    /\ pc = "options"
    /\ \/ /\ compose_argv = <<>>
          /\ Fail
          /\ UNCHANGED bundle
       \/ /\ compose_argv # <<>>
          /\ bundle' = [bundle EXCEPT !.cgroup = cgroup_scope_path]
          /\ Goto("net")
          /\ UNCHANGED out
    /\ UNCHANGED <<ident, ctx, overlay, upper, stuck, net, init, at, layers, kept>>
----------------------------------------------------------------------------
(* The RUN steps of a stage.                                               *)

Stage == req.stages[at[1]]
Step  == Stage[at[2]]

(* A secret that was not supplied fails the step before its overlay.       *)
apply_run ==
    /\ pc = "step" /\ at[2] <= Len(Stage)
    /\ \/ /\ Step.secrets \subseteq req.supplied
          /\ mount_with_backend
          /\ Goto("apply")
          /\ UNCHANGED out
       \/ /\ Fail
          /\ UNCHANGED <<bundle, overlay, upper>>
    /\ UNCHANGED <<ident, ctx, stuck, net, init, at, layers, kept>>

EndStage ==
    /\ pc = "step" /\ at[2] > Len(Stage)
    /\ Goto("drop_bundle")
    /\ UNCHANGED <<ident, ctx, work, out>>

CopiedProcessPlain(c) == c \ {"apparmor", "selinux"}

(* The process section is built anew, so each field has to be carried.     *)
CopiedProcess(c) == c

(* The mounts of the step join those already in the spec; a user who is    *)
(* not a number is an error.                                               *)
apply_run_spec_to_bundle ==
    /\ pc = "apply"
    /\ \/ /\ Step.user # "name"
          /\ bundle' = [bundle EXCEPT !.mounts = @ \cup Step.secrets,
                                      !.confine = CopiedProcess(@),
                                      !.cgroup = cgroup_scope_path]
          /\ Goto("net")
          /\ UNCHANGED out
       \/ /\ Step.user = "name"
          /\ Fail
          /\ UNCHANGED bundle
    /\ UNCHANGED <<ident, ctx, overlay, upper, stuck, net, init, at, layers, kept>>
----------------------------------------------------------------------------
(* The container.                                                          *)

(* Without host privilege the container joins a namespace that umf pinned; *)
(* only an explicit pasta fails the step, any other failure leaves the     *)
(* network of the spec as it is.                                           *)
setup_rootless_net ==
    /\ pc = "net"
    /\ \/ /\ context.host_privileged
          /\ Goto("create")
          /\ UNCHANGED <<bundle, hold, seq, out>>
       \/ /\ ~context.host_privileged
          /\ hold' = seq + 1 /\ seq' = seq + 1
          /\ bundle' = [bundle EXCEPT !.net = seq + 1]
          /\ Goto("create")
          /\ UNCHANGED out
       \/ /\ ~context.host_privileged /\ req.mode # "pasta"
          /\ Goto("create")
          /\ UNCHANGED <<bundle, hold, seq, out>>
       \/ /\ ~context.host_privileged /\ req.mode = "pasta"
          /\ Fail
          /\ UNCHANGED <<bundle, hold, seq>>
    /\ UNCHANGED <<ident, ctx, overlay, upper, stuck, veth, litter, init, at, layers, kept>>

Below == UNION {layers[i].left : i \in DOMAIN layers}

(* youki opens the root and the network of the spec, and makes a          *)
(* mountpoint in the upper for each target that no layer below has.       *)
BuildContainer ==
    /\ pc = "create"
    /\ \/ /\ bundle.net \in {0, hold}
          /\ bundle.root = "overlay" => overlay # "none"
          /\ init' = "created"
          /\ upper' = upper \cup (bundle.mounts \ Below)
          /\ Goto("cnet")
          /\ UNCHANGED out
       \/ /\ Fail
          /\ UNCHANGED <<init, upper>>
    /\ UNCHANGED <<ident, ctx, bundle, overlay, stuck, net, at, layers, kept>>

(* NAT for the real root, as well as it can be had.  A set-up that fails   *)
(* rolls back, unless it failed on the host's side with the link made.     *)
setup_container_network ==
    /\ pc = "cnet"
    /\ \/ /\ context.host_privileged
          /\ veth' = TRUE
          /\ UNCHANGED litter
       \/ /\ context.host_privileged
          /\ litter' \in {litter, TRUE}
          /\ UNCHANGED veth
       \/ /\ ~context.host_privileged
          /\ UNCHANGED <<veth, litter>>
    /\ Goto("launch")
    /\ UNCHANGED <<ident, ctx, bundle, overlay, upper, stuck, hold, seq, init, at, layers, kept, out>>

StartDetached ==
    /\ pc = "launch"
    /\ init' = "running" /\ out' = "0"
    /\ Goto("drop_veth")
    /\ UNCHANGED <<ident, ctx, bundle, overlay, upper, stuck, net, at, layers, kept>>

(* A container that does not start is left as it was built.                *)
Start ==
    /\ pc = "launch"
    /\ \/ /\ init' = "running"
          /\ Goto("wait")
          /\ UNCHANGED out
       \/ /\ out' = "err"
          /\ Goto("drop_veth")
          /\ UNCHANGED init
    /\ UNCHANGED <<ident, ctx, bundle, overlay, upper, stuck, net, at, layers, kept>>

InitExits ==
    /\ init = "running"
    /\ init' \in Exits
    /\ UNCHANGED <<req, pc, ident, ctx, bundle, overlay, upper, stuck, net, at, layers,
                   kept, out>>

wait_for_container_exitRaw ==
    /\ pc = "wait" /\ init \in Exits
    /\ out' = init /\ init' = "reaped"
    /\ Goto("delete")
    /\ UNCHANGED <<ident, ctx, bundle, overlay, upper, stuck, net, at, layers, kept>>

(* A signal is reported as 128 plus its number.  A wait that fails, since  *)
(* there is no such child any more, skips the deletion; it does not fail   *)
(* before the workload is over, since no signal is handled here.           *)
wait_for_container_exit ==
    /\ pc = "wait" /\ init \in Exits
    /\ \/ /\ out' = CASE init = "exit0" -> "0" [] init = "exit1" -> "1" [] OTHER -> "128+n"
          /\ init' = "reaped"
          /\ Goto("delete")
       \/ /\ out' = "err"
          /\ Goto("drop_veth")
          /\ UNCHANGED init
    /\ UNCHANGED <<ident, ctx, bundle, overlay, upper, stuck, net, at, layers, kept>>

(* Best effort: the state may stay, the exit code is known.                *)
Delete ==
    /\ pc = "delete"
    /\ init' \in {"none", "reaped"}
    /\ Goto("drop_veth")
    /\ UNCHANGED <<ident, ctx, bundle, overlay, upper, stuck, net, at, layers, kept, out>>
----------------------------------------------------------------------------
(* Teardown, in the order in which the guards are dropped.                 *)

(* Best effort: what the kernel does not take away stays.                  *)
DropContainerNet ==
    /\ pc = "drop_veth"
    /\ veth' = FALSE
    /\ litter' \in {litter, litter \/ veth}
    /\ Goto(IF req.keep /\ out # "err" THEN "keep" ELSE "drop_net")
    /\ UNCHANGED <<ident, ctx, bundle, overlay, upper, stuck, hold, seq, init, at, layers, kept, out>>

into_persistent ==
    /\ pc = "keep"
    /\ kept' = bundle.root
    /\ Goto("drop_net")
    /\ UNCHANGED <<ident, ctx, bundle, overlay, upper, stuck, net, init, at, layers, out>>

(* A RUN that exits with anything but zero fails the build.                *)
DropRootlessNet ==
    /\ pc = "drop_net"
    /\ hold' = 0
    /\ \/ /\ req.cmd = "build" /\ out = "0"
          /\ Goto("scrub")
          /\ UNCHANGED out
       \/ /\ req.cmd = "run" \/ out # "0"
          /\ Goto("drop_overlay")
          /\ out' = IF req.cmd = "build" THEN "err" ELSE out
    /\ UNCHANGED <<ident, ctx, bundle, overlay, upper, stuck, seq, veth, litter, init, at, layers, kept>>

scrubNothing(u, targets, failing) == u

(* A target with a .. component is passed over, and so is one that cannot  *)
(* be removed.                                                             *)
scrub(u, targets, failing) == u \ (targets \ (Dotted \cup failing))

scrub_secret_mountpoints ==
    /\ pc = "scrub"
    /\ \E failing \in SUBSET (upper \cap Step.secrets) :
          /\ upper' = scrub(upper, Step.secrets, failing)
          /\ stuck' = failing
    /\ Goto("persist")
    /\ UNCHANGED <<ident, ctx, bundle, overlay, net, init, at, layers, kept, out>>

(* The upper is moved away once it is unmounted, and becomes a layer.      *)
persist_upper ==
    /\ pc = "persist"
    /\ \/ /\ overlay' = "none" /\ upper' = {} /\ stuck' = {}
          /\ layers' = Append(layers, [own |-> Step.secrets, left |-> upper, stuck |-> stuck])
          /\ at' = <<at[1], at[2] + 1>>
          /\ out' = "none" /\ init' = "none"
          /\ Goto("step")
       \/ /\ out' = "err"
          /\ overlay' \in {overlay, "none"}
          /\ Goto("drop_overlay")
          /\ UNCHANGED <<upper, stuck, layers, at, init>>
    /\ UNCHANGED <<ident, ctx, bundle, net, kept>>

DropOverlay ==
    /\ pc = "drop_overlay"
    /\ overlay' \in {overlay, "none"}
    /\ Goto("drop_bundle")
    /\ UNCHANGED <<ident, ctx, bundle, upper, stuck, net, init, at, layers, kept, out>>

(* The bundle goes last; the next stage has one of its own.                *)
DropBundle ==
    /\ pc = "drop_bundle"
    /\ bundle' = NoBundle
    /\ \/ /\ out = "none" /\ at[1] < Len(req.stages)
          /\ at' = <<at[1] + 1, 1>> /\ layers' = <<>>
          /\ Goto("bundle")
          /\ UNCHANGED out
       \/ /\ out # "none" \/ at[1] = Len(req.stages)
          /\ out' = IF out = "none" THEN "0" ELSE out
          /\ Goto("over")
          /\ UNCHANGED <<at, layers>>
    /\ UNCHANGED <<ident, ctx, overlay, upper, stuck, net, init, kept>>

(* A killed process drops nothing; the kernel closes its pipes.            *)
Kill ==
    /\ pc \notin Ended
    /\ Goto("killed")
    /\ ends' = [ends EXCEPT !.umf = {}]
    /\ UNCHANGED <<ns, maps, helper, target, go, status, ctx, work, out>>

Over == pc \in Ended /\ UNCHANGED vars
----------------------------------------------------------------------------
Init ==
    /\ req \in Request
    /\ pc = "start"
    /\ ns = IF req.ident = "given" THEN "given" ELSE "host"
    /\ maps = {}
    /\ ctx = [known |-> FALSE, entered |-> FALSE, host_privileged |-> FALSE]
    /\ helper = "none" /\ target = "none" /\ go = "none" /\ status = "none"
    /\ ends = [umf |-> {}, helper |-> {}]
    /\ bundle = NoBundle /\ overlay = "none" /\ upper = {} /\ stuck = {}
    /\ hold = 0 /\ seq = 0 /\ veth = FALSE /\ litter = FALSE /\ init = "none"
    /\ at = <<1, 1>> /\ layers = <<>> /\ kept = "none" /\ out = "none"

Identity == \/ enter \/ apply_subordinate_maps \/ UnshareUser \/ ReapHelper
            \/ SignalHelper \/ ReadStatus \/ ReadMessage
            \/ finish_subordinate_maps \/ UnshareMount
            \/ set_egress_mode_from_arg

Prepare == \/ from_image \/ mount_run_overlay \/ apply_options_to_bundle
           \/ apply_run \/ EndStage \/ apply_run_spec_to_bundle

Drive == \/ setup_rootless_net \/ BuildContainer \/ setup_container_network
         \/ Start \/ wait_for_container_exit \/ Delete

Teardown == \/ DropContainerNet \/ into_persistent \/ DropRootlessNet
            \/ scrub_secret_mountpoints \/ persist_upper \/ DropOverlay
            \/ DropBundle

Umf    == Identity \/ Prepare \/ Drive \/ Teardown
Helper == HelperReads \/ run_id_helpers \/ HelperReports \/ HelperExits

Next == Umf \/ Helper \/ HelperKilled \/ InitExits \/ Kill \/ Over

(* The kernel schedules both processes; the workload owes nothing.         *)
Spec == Init /\ [][Next]_vars /\ WF_vars(Umf) /\ WF_vars(Helper)
----------------------------------------------------------------------------
(* Types.                                                                  *)
TypeOK ==
    /\ req \in Request /\ pc \in Points /\ ns \in {"host", "given", "new"}
    /\ maps \subseteq Both
    /\ ctx \in [known : BOOLEAN, entered : BOOLEAN, host_privileged : BOOLEAN]
    /\ helper \in {"none", "waiting", "newuidmap", "newgidmap", "mapped",
                   "refused", "writing", "leaving", "exited", "reaped"}
    /\ target \in {"none", "umf", "reaper"}
    /\ go \in {"none", "sent", "broken"} /\ status \in {"none", "zero", "one"}
    /\ ends \in [umf : SUBSET {"go", "res"}, helper : SUBSET {"go", "res"}]
    /\ bundle \in [lowers : {"none", "merge", "erofs"}, root : {"none", "rootfs", "overlay"},
                   mounts : SUBSET Secret, net : 0..seq, userns : BOOLEAN,
                   cgroup : {"fs", "scope"}, profile : SUBSET Block,
                   confine : SUBSET {"capabilities", "no_new_privileges", "apparmor", "selinux"}]
    /\ overlay \in {"none", "kernel", "fuse"} /\ upper \subseteq Secret /\ stuck \subseteq Secret
    /\ hold \in {0, seq} /\ seq \in Nat /\ veth \in BOOLEAN /\ litter \in BOOLEAN
    /\ init \in Exits \cup {"none", "created", "running", "reaped"}
    /\ at \in Nat \X Nat
    /\ layers \in Seq([own : SUBSET Secret, left : SUBSET Secret, stuck : SUBSET Secret])
    /\ kept \in {"none", "rootfs", "overlay"}
    /\ out \in {"none", "err", "fatal", "0", "1", "128+n"}

(* The helper runs newuidmap and newgidmap against umf only once it has    *)
(* unshared its user namespace, however the unshare, the byte and a death  *)
(* of either process interleave.  It runs them against another process,    *)
(* which nobody knows to have unshared, in one case: umf sent the byte and *)
(* was killed before the helper asked who its parent is.                   *)
MapsOnlyUnshared ==
    helper \in {"newuidmap", "newgidmap", "mapped"} =>
        /\ ns = "new" /\ go = "sent"
        /\ target # "umf" => target = "reaper" /\ pc = "killed"

(* Past the handshake no step runs in a namespace without both of its maps:*)
(* the process is mapped, or outside, or it has ended.                     *)
NeverUnmapped ==
    ns = "new" /\ pc \notin Handshake \cup Ended => maps = Both

(* What only the host's root may do (erofs mounts, links and NAT on the    *)
(* host, the file system manager of cgroups) is done only by a process     *)
(* that started as root in the initial namespace, whatever its uid is now, *)
(* or by one whose uid_map could not be read: that one is taken for it.    *)
Privileged == req.ident = "root" \/ ~req.uidmap
PrivilegeIsReal ==
    bundle.lowers = "erofs" \/ veth \/ litter \/ (init = "running" /\ bundle.cgroup = "fs")
        => Privileged

(* The handshake: what each side knows by its point.  Only a user goes     *)
(* through it; the byte is sent after the unshare, the maps are made after *)
(* the byte is read, and their success is reported after both are made.    *)
HandshakeInv ==
    /\ ns = "given" <=> req.ident = "given"
    /\ pc \in Handshake \/ ns = "new" => req.ident = "user"
    /\ pc \in {"start", "fork", "unshare", "reap"} => ns # "new"
    /\ maps # {} \/ go # "none" \/ pc \in {"signal", "status", "drain", "waitpid", "newns"}
          => ns = "new"
    /\ pc \in {"start", "fork"} => helper = "none"
    /\ pc \notin Handshake \cup {"killed"} => helper \in {"none", "reaped"}
    /\ helper \in {"newuidmap", "newgidmap", "mapped"} =>
          go = "sent" /\ (target = "umf" \/ (target = "reaper" /\ pc = "killed"))
    /\ helper = "newgidmap" /\ pc # "killed" => "uid" \in maps
    /\ (helper = "mapped" \/ status = "zero") /\ pc # "killed" => maps = Both
    /\ ctx.host_privileged => Privileged

(* Who the process is: well typed, mapped before it acts, and privileged   *)
(* only where it really is.                                                *)
IdentityInv == TypeOK /\ MapsOnlyUnshared /\ NeverUnmapped /\ PrivilegeIsReal /\ HandshakeInv

(* While a container runs, all it stands on is there: its overlay, its     *)
(* lowers and the namespace that it joined.                                *)
Stands == /\ bundle.lowers # "none"
          /\ bundle.root = "overlay" => overlay # "none"
          /\ bundle.net # 0 => hold = bundle.net
HeldWhileRunning == init = "running" => Stands

(* A process that ends by itself leaves no helper and no workload running, *)
(* and no network held; a container that was built and did not start, or   *)
(* one that could not be waited for, is left behind with an error only.    *)
(* (A link that could not be taken down again is litter, not a network.)   *)
Undone == {"created"} \cup Exits
NothingRunsOn ==
    pc = "over" => /\ helper \in {"none", "reaped"}
                   /\ init \in {"none", "reaped"} \/ (init \in Undone /\ out = "err")
                   /\ hold = 0 /\ ~veth /\ bundle = NoBundle

(* The bundle that --keep-bundle leaves has its root on disk, and does not *)
(* name an overlay that the end of the run unmounts.                       *)
KeptIsOnDisk == kept # "none" => kept = "rootfs"

(* No layer ships the mountpoint of a secret that its own RUN asked for,   *)
(* except under a target with a .. component or where the removal failed;  *)
(* every other mountpoint that it ships is that of a secret of an earlier  *)
(* RUN of the stage, whose mount the runtime spec still has.               *)
OwnMountpointsScrubbed ==
    \A i \in DOMAIN layers :
        /\ layers[i].left \cap layers[i].own \subseteq Dotted \cup layers[i].stuck
        /\ \A x \in layers[i].left \ layers[i].own :
              \E j \in 1..(i - 1) : x \in layers[j].own

(* What there is at each point: the workload, the networks, the bundle,    *)
(* and the step of a build that is being run.                              *)
Before == Handshake \cup {"start", "newns", "egress", "bundle", "over"}
Ready  == {"overlay", "options", "step", "apply", "net", "create"}
After  == {"drop_veth", "keep", "drop_net", "scrub", "persist", "drop_overlay", "drop_bundle"}
PointInv ==
    /\ hold # 0 => pc \in {"create", "cnet", "launch", "wait", "delete", "drop_veth", "keep",
                           "drop_net", "killed"}
    /\ veth => pc \in {"launch", "wait", "delete", "drop_veth", "killed"}
    /\ pc \in Before => bundle = NoBundle
    /\ pc \in (Before \ {"over"}) \cup Ready => init = "none"
    /\ pc \in {"cnet", "launch"} => init = "created"
    /\ pc = "wait" => init \in Exits \cup {"running"}
    /\ pc = "delete" => init = "reaped"
    /\ pc \in After \cup {"over"} => init \in {"none", "reaped"} \/ (init \in Undone /\ out = "err")
    /\ init = "running" => pc \in {"wait", "killed"}
    /\ pc \in After \cup {"delete"} =>
          out # "none" \/ (pc = "drop_bundle" /\ req.cmd = "build" /\ init = "none")
    /\ pc = "keep" => req.keep
    /\ pc \in {"overlay", "options"} => req.cmd = "run"
    /\ pc \in {"step", "apply", "scrub", "persist"} => req.cmd = "build"
    /\ at[1] \in 1..Len(req.stages) /\ at[2] # 0
    /\ req.cmd = "build" /\ pc \in {"apply", "net", "create", "cnet", "launch", "wait", "delete",
                                   "drop_veth", "scrub", "persist"}
          => at[2] <= Len(Stage)
    /\ req.cmd = "build" /\ pc = "drop_net" /\ out = "0" => at[2] <= Len(Stage)

(* What a bundle is made of, from the time it exists until it is dropped.  *)
BundleInv ==
    /\ bundle.lowers # "none" => bundle.confine = Confinement /\ bundle.profile = filtered_profile
    /\ bundle.lowers = "erofs" => ~req.keep
    /\ req.cmd = "run" /\ bundle.root = "overlay" => bundle.lowers = "erofs"
    /\ pc \in Ready \cup {"cnet", "launch", "wait", "delete", "drop_veth", "keep", "scrub", "persist"}
          \/ (pc = "drop_net" /\ out = "0") => bundle.lowers # "none"
    /\ pc \in {"cnet", "launch", "wait"} => Stands
    /\ pc \in {"net", "create", "cnet", "launch", "wait"} /\ bundle.cgroup = "fs"
          => Privileged
    /\ pc = "persist" => upper \cap Step.secrets \subseteq Dotted \cup stuck

(* The mounts of the spec are of steps of this stage, and nothing else is  *)
(* in the upper.                                                           *)
Asked(x) == \E j \in DOMAIN layers : x \in layers[j].own
MountInv ==
    /\ req.cmd = "build" /\ pc \in {"step", "apply"} => \A x \in bundle.mounts : Asked(x)
    /\ req.cmd = "build" /\ pc = "apply" => upper = {}
    /\ req.cmd = "build" /\ (pc \in {"net", "create", "cnet", "launch", "wait", "delete", "drop_veth",
                                     "scrub", "persist"}
                              \/ (pc = "drop_net" /\ out = "0"))
          => /\ \A x \in bundle.mounts \ Step.secrets : Asked(x)
             /\ upper \subseteq bundle.mounts

(* What a process leaves behind: its layers and what it was told to keep;  *)
(* and, on its way there, what it has at each point.                       *)
LeavesItsResult ==
    NothingRunsOn /\ KeptIsOnDisk /\ OwnMountpointsScrubbed /\ PointInv /\ BundleInv /\ MountInv

(* Whatever step of a stage it is, the workload runs with the confinement  *)
(* that the host's configuration selects, and with a filter that has no    *)
(* mount, and clone only in the form that the profile restricts by         *)
(* argument (but does have it).                                            *)
Confined ==
    init = "running" =>
        /\ bundle.confine = Confinement
        /\ \A b \in bundle.profile : "mount" \notin b.calls
        /\ \A b \in bundle.profile : "clone" \in b.calls => b.args
        /\ \E b \in bundle.profile : "clone" \in b.calls

(* A process that is not waiting for its workload gets to its end: neither *)
(* pipe of the handshake holds it, whoever dies, and no teardown does.     *)
(* One thing does: a message of a setuid helper that the pipe cannot hold, *)
(* of which the reader leaves all but the first 8192 bytes.                *)
Settles == []<>(pc \in Ended \/ init = "running" \/ helper = "writing")
============================================================================
