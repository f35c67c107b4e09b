---------------------------- MODULE BootableBuild ----------------------------
(***************************************************************************)
(* umf build of bootable images, one build after the other, each possibly  *)
(* extending what an earlier one emitted.  A build decides by its FROM     *)
(* whether it is bootable, resolves the kernel or the bootable base, lays  *)
(* the userland and then the kernel into a staging tree, writes the EXPOSE *)
(* firewall, carries out each RUN in a micro virtual machine that shares   *)
(* the tree, generates the initramfs and emits an image with its boot      *)
(* manifest.  Registries fail, guests panic, hang or power off when they   *)
(* like, and a RUN may add, replace or remove whatever it likes.           *)
(***************************************************************************)
EXTENDS Naturals, Sequences

CONSTANTS
    Recipes,    \* Recipes[i]: the recipes that build i may have
    Tags,       \* Tags[i]: the reference that build i emits
    Published,  \* what the registries hold: a function from references
    Alias,      \* short references and what they canonicalise to
    Source,     \* what ADD can reach besides images: name -> [kind, tree]
    Effect,     \* what a RUN command does to the tree: name -> [adds, gone]
    Absolute,   \* the paths that begin with a slash
    Globals,    \* the value that an ARG before FROM gives to V, or ""
    BuildArgs,  \* --build-arg: a function from names
    Qemus       \* the possible answers to: is qemu installed

InitSys   == {"systemd", "openrc"}
IsTree(t) == \A q \in DOMAIN t : q = <<q[1], q[2]>>   \* from a directory and a name
AnyDirective == [d : STRING, k : STRING, v : STRING]
AnyRecipe    == [from : STRING, dirs : Seq(AnyDirective)]

(* A bootable image is one that umf has emitted: its label and its OCI     *)
(* entrypoint name PID 1 together.                                         *)
IsImage(img) ==
    /\ img.kind \in {"kernel", "bootable", "container"} /\ IsTree(img.tree)
    /\ img.kind = "bootable" /\ "entrypoint" \in DOMAIN img.labels =>
          IF img.labels["entrypoint"] \in InitSys \cup {"none"} THEN img.argv = "none"
          ELSE img.labels["entrypoint"] = "appliance" /\ img.argv \notin InitSys \cup {"nothing"}

ASSUME BootableAssumption ==
    /\ Recipes \in Seq(SUBSET AnyRecipe) /\ Recipes # <<>> /\ Len(Recipes) = Len(Tags)
    /\ \A i \in DOMAIN Tags : Tags[i] \notin DOMAIN Alias
    /\ \A r \in DOMAIN Published : IsImage(Published[r])
    /\ \A n \in DOMAIN Source : IsTree(Source[n].tree)
    /\ \A c \in DOMAIN Effect : IsTree(Effect[c].adds)
    /\ Qemus \subseteq BOOLEAN /\ Qemus # {}

VARIABLES
    layout,  \* the local image layout: a function from references
    cur,     \* the build in progress
    qemu,    \* whether the host has qemu
    recipe,  \* its recipe
    pc,      \* where it is
    pos,     \* the directive that the current walk is at
    scope,   \* the ARG scope of the current walk
    from,    \* the resolved base
    shape,   \* flavor, entrypoint and kernel that have been decided, and the
             \* environment file that lay in the tree before the first RUN
    meta,    \* labels and environment for the image
    tree,    \* the staging tree: a function from paths
    ctx,     \* ENV, SHELL, USER and WORKDIR in force for RUN
    vm,      \* the micro-VM of the current RUN
    net,     \* whether its namespace and tap are held
    ran      \* <<directive, context>> of each RUN that a guest completed: the
             \* environment in it is the one that the guest has sourced

vars  == <<layout, cur, qemu, recipe, pc, pos, scope, from, shape, meta, tree, ctx, vm, net, ran>>
done  == <<layout, cur, qemu, recipe>>
guest == <<vm, net>>

Void     == [x \in {} |-> ""]
Over(f, g) ==   \* unpacking g onto f
    [x \in DOMAIN f \cup DOMAIN g |-> IF x \in DOMAIN g THEN g[x] ELSE f[x]]
With(f, k, v) == [x \in DOMAIN f \cup {k} |-> IF x = k THEN v ELSE f[x]]
Without(f, S) == [x \in DOMAIN f \ S |-> f[x]]
NoCtx    == [env |-> Void, shell |-> "sh", user |-> "none", workdir |-> Void]
Is(d)    == {i \in DOMAIN recipe.dirs : recipe.dirs[i].d = d}
Now      == recipe.dirs[pos]

Goto(l) == pc' = l
(* Any error drops the staging directory and the micro-VM's guards; the    *)
(* layout keeps what was pulled into it.                                   *)
Fail    == /\ pc' = "failed" /\ tree' = Void /\ vm' = "none" /\ net' = FALSE
----------------------------------------------------------------------------
(* ARG substitution.                                                       *)

subst_with(sc, t) == IF t = "$V" /\ "V" \in DOMAIN sc THEN sc["V"] ELSE t

(* --build-arg, then the declared default, then what is in scope.          *)
apply_arg_to_scope(sc, d) ==
    IF d.k \in DOMAIN BuildArgs THEN With(sc, d.k, BuildArgs[d.k])
    ELSE IF d.v # "" THEN With(sc, d.k, d.v)
    ELSE sc

resolve_global_args ==
    IF Globals = "" THEN Void ELSE apply_arg_to_scope(Void, [k |-> "V", v |-> Globals])
----------------------------------------------------------------------------
(* Images and their resolution.                                            *)

canonical(r) == IF r \in DOMAIN Alias THEN Alias[r] ELSE r

(* introspect_for_platform descends into an index; introspect, which the   *)
(* check of a resolved FROM uses, refuses one.                             *)
introspect_for_platform(l, r) == IF r \in DOMAIN l THEN l[r].kind ELSE "error"

post_pull_check(img) == ~img.index /\ img.kind \in {"kernel", "bootable"}

(* A FROM is resolved with the check, an ADD and the probe without.        *)
Passes(checked, img) == checked => post_pull_check(img)

(* Override and search registries aside, the ladder is cache, then pull; a *)
(* cached image that does not pass the check is pulled again.  The pull may *)
(* fail for any reason, and then what was cached stays.                    *)
Cached(checked, r) == canonical(r) \in DOMAIN layout /\ Passes(checked, layout[canonical(r)])
Pulled(r)  == With(layout, canonical(r), Published[canonical(r)])
CanPull(r) == canonical(r) \in DOMAIN Published

(* The layout after a resolution and whether the resolution succeeded.     *)
resolve_layers(checked, r) ==
    IF Cached(checked, r) THEN {<<layout, TRUE>>}
    ELSE {<<layout, FALSE>>}
         \cup (IF CanPull(r) THEN {<<Pulled(r), Passes(checked, Published[canonical(r)])>>} ELSE {})
----------------------------------------------------------------------------
(* umf build: what kind of build is this, and can the host do it.          *)

Start(r) ==
    /\ pc = "start" /\ r \in Recipes[cur]
    /\ recipe' = r /\ Goto("probe")
    /\ \E q \in Qemus : qemu' = q
    /\ UNCHANGED <<layout, cur, pos, scope, from, shape, meta, tree, ctx, vm, net, ran>>

(* The FROM as written, before any substitution, decides; failing to       *)
(* resolve or to introspect it makes the build a container build.          *)
probe_bootable ==
    /\ pc = "probe"
    /\ IF recipe.from = "scratch"
       THEN Goto("container") /\ UNCHANGED layout
       ELSE \E o \in resolve_layers(FALSE, recipe.from) :
               /\ layout' = o[1]
               /\ Goto(IF introspect_for_platform(layout', canonical(recipe.from))
                             \in {"kernel", "bootable"}
                       THEN "preflight" ELSE "container")
    /\ UNCHANGED <<cur, qemu, recipe, pos, scope, from, shape, meta, tree, ctx, vm, net, ran>>

compute_requirements == Is("run") # {}

verify_requirements ==
    /\ pc = "preflight"
    /\ IF compute_requirements => qemu
       THEN Goto("validate") /\ UNCHANGED <<tree, vm, net>>
       ELSE Fail
    /\ UNCHANGED <<layout, cur, qemu, recipe, pos, scope, from, shape, meta, ctx, ran>>

(* CMD, VOLUME and STOPSIGNAL have no meaning for a bootable image.        *)
validate_ast_for_vm ==
    /\ pc = "validate"
    /\ IF Is("cmd") = {}
       THEN /\ Goto("resolve") /\ scope' = resolve_global_args /\ UNCHANGED <<tree, vm, net>>
       ELSE Fail /\ UNCHANGED scope
    /\ UNCHANGED <<layout, cur, qemu, recipe, pos, from, shape, meta, ctx, ran>>

FromRef == subst_with(resolve_global_args, recipe.from)

resolve_from_kernel ==
    /\ pc = "resolve"
    /\ \E o \in resolve_layers(TRUE, FromRef) :
          /\ layout' = o[1]
          /\ IF o[2] THEN /\ Goto("decide") /\ from' = layout'[canonical(FromRef)]
                          /\ UNCHANGED <<tree, vm, net>>
                     ELSE Fail /\ UNCHANGED from
    /\ UNCHANGED <<cur, qemu, recipe, pos, scope, shape, meta, ctx, ran>>
----------------------------------------------------------------------------
(* The shape: what the recipe says, else what a bootable base says, else   *)
(* the default.                                                            *)

FlavorLabels == {i \in Is("label") : recipe.dirs[i].k = "flavor"}
pick_flavor == IF FlavorLabels = {} THEN "defaulted"
               ELSE recipe.dirs[CHOOSE i \in FlavorLabels : \A j \in FlavorLabels : j <= i].v

pick_entrypoint == IF Is("entrypoint") = {} THEN "unset"
                   ELSE recipe.dirs[CHOOSE i \in Is("entrypoint") : TRUE].v

(* An appliance's program is in the OCI entrypoint; its label says only    *)
(* that it is one.                                                         *)
inherited_entrypointLabelOnly(img) ==
    IF "entrypoint" \in DOMAIN img.labels THEN img.labels["entrypoint"] ELSE "error"

inherited_entrypoint(img) ==
    IF "entrypoint" \notin DOMAIN img.labels THEN "error"
    ELSE IF img.labels["entrypoint"] \in InitSys THEN img.labels["entrypoint"]
    ELSE IF img.labels["entrypoint"] = "none" THEN "nothing"
    ELSE IF img.argv = "none" THEN "error" ELSE img.argv

(* An image may also have no PID 1 of its own: the label says none.        *)
entrypoint_label(e) == CASE e \in InitSys -> e
                         [] e = "nothing" -> "none"
                         [] OTHER -> "appliance"
appliance_argv(e)   == IF e \in InitSys \cup {"nothing"} THEN "none" ELSE e

(* The base is looked up under the reference as written.                   *)
Base == IF introspect_for_platform(layout, FromRef) = "bootable" THEN {layout[FromRef]} ELSE {}

DecidedFlavor ==
    IF pick_flavor # "defaulted" THEN pick_flavor
    ELSE IF \E b \in Base : "flavor" \in DOMAIN b.labels
    THEN (CHOOSE b \in Base : TRUE).labels["flavor"]
    ELSE "systemd-boot"

DecidedEntrypoint ==
    IF pick_entrypoint # "unset" THEN pick_entrypoint
    ELSE IF Base # {} THEN inherited_entrypoint(CHOOSE b \in Base : TRUE)
    ELSE "systemd"

decide_shape ==
    /\ pc = "decide"
    /\ IF DecidedEntrypoint = "error"
       THEN Fail /\ UNCHANGED shape
       ELSE /\ shape' = [shape EXCEPT !.flavor = DecidedFlavor, !.entry = DecidedEntrypoint]
            /\ Goto("walk") /\ UNCHANGED <<tree, vm, net>>
    /\ UNCHANGED <<layout, cur, qemu, recipe, pos, scope, from, meta, ctx, ran>>
----------------------------------------------------------------------------
(* The first walk: ARG, LABEL, ENV and ADD in source order, then the       *)
(* layers of the base over what ADD has laid down.                         *)

Walking(d) == pc = "walk" /\ pos <= Len(recipe.dirs) /\ Now.d \in d

walk_metadata ==
    /\ Walking({"arg", "label", "env", "run", "shell", "user", "workdir", "entrypoint", "expose"})
    /\ pos' = pos + 1
    /\ scope' = IF Now.d = "arg" THEN apply_arg_to_scope(scope, Now) ELSE scope
    /\ meta' = CASE Now.d = "label" -> [meta EXCEPT !.labels = With(@, Now.k, subst_with(scope, Now.v))]
                 [] Now.d = "env" -> [meta EXCEPT !.env = With(@, Now.k, subst_with(scope, Now.v))]
                 [] OTHER -> meta
    /\ UNCHANGED <<layout, cur, qemu, recipe, pc, from, shape, tree, ctx, vm, net, ran>>

(* ADD of an image resolves it like a base, of any kind.                   *)
add_image ==
    /\ Walking({"add"}) /\ Now.k = "oci"
    /\ LET r == subst_with(scope, Now.v) IN
       \E o \in resolve_layers(FALSE, r) :
          /\ layout' = o[1]
          /\ IF o[2] THEN /\ tree' = Over(tree, layout'[canonical(r)].tree) /\ pos' = pos + 1
                          /\ UNCHANGED <<pc, vm, net>>
                     ELSE Fail /\ UNCHANGED pos
    /\ UNCHANGED <<cur, qemu, recipe, scope, from, shape, meta, ctx, ran>>

(* A path of the context or of an earlier stage's image; an escaping path, *)
(* a missing one and an unknown stage are refused.                         *)
Reachable(n, k) == n \in DOMAIN Source /\ Source[n].kind = k
Laid(n) == tree' = Over(tree, Source[n].tree) /\ pos' = pos + 1 /\ UNCHANGED <<pc, vm, net>>

add_into_staging ==
    /\ Walking({"add"}) /\ Now.k \in {"path", "stage"}
    /\ LET n == subst_with(scope, Now.v)
       IN  IF Reachable(n, Now.k) THEN Laid(n) ELSE Fail /\ UNCHANGED pos
    /\ UNCHANGED <<layout, cur, qemu, recipe, scope, from, shape, meta, ctx, ran>>

(* What a URL leads to is fetched, then unpacked if it is an archive and   *)
(* laid down as a file otherwise; a filesystem image is refused, and the   *)
(* fetch may fail.                                                         *)
add_url_into_staging(fetched) ==
    /\ Walking({"add"}) /\ Now.k = "url"
    /\ LET n == subst_with(scope, Now.v)
       IN  IF fetched /\ Reachable(n, "url") THEN Laid(n) ELSE Fail /\ UNCHANGED pos
    /\ UNCHANGED <<layout, cur, qemu, recipe, scope, from, shape, meta, ctx, ran>>

(* The releases that have modules, the kernels, and the pair that is       *)
(* taken: a kernel named after a release that has modules, else the first  *)
(* of each.                                                                *)
Rels(t, what) == {p[2] : p \in {q \in DOMAIN t : q[1] = what}}
First(S)      == IF "A" \in S THEN "A" ELSE CHOOSE x \in S : TRUE
detect_kernel_layout(t) ==
    LET m == Rels(t, "modules")
        z == Rels(t, "vmlinuz")
    IN  IF m = {} \/ z = {} THEN {}
        ELSE LET both == m \cap z
             IN  {IF both # {} THEN [release |-> First(both), vmlinuz |-> First(both)]
                  ELSE [release |-> First(m), vmlinuz |-> First(z)]}

(* The recipe alone says which init system loads the firewall.             *)
pick_init_system == CASE pick_entrypoint = "unset" -> "systemd"
                      [] pick_entrypoint \in InitSys -> pick_entrypoint
                      [] OTHER -> "binary"
EntrypointNone == pick_entrypoint = "nothing"
nft_binary_presentAssumed(t) == TRUE
nft_binary_present(t) == <<"bin", "nft">> \in DOMAIN t
Unenforceable(t) == Is("expose") # {} /\ (pick_init_system \notin InitSys \/ ~nft_binary_present(t))
write_nftables(t) == With(t, <<"etc", "nftables">>, "rules")
enable_service(t, i) == With(t, <<"enabled", i>>, "nftables")
apply_runtime_config(t) ==
    IF Is("expose") = {} THEN t ELSE enable_service(write_nftables(t), pick_init_system)

(* What a guest would source from a tree.                                  *)
Sourced(t) == IF <<"umf", "env">> \in DOMAIN t THEN t[<<"umf", "env">>] ELSE Void

unpack_kernel ==
    /\ pc = "walk" /\ pos > Len(recipe.dirs)
    /\ LET t == Over(tree, from.tree)
       IN  IF detect_kernel_layout(t) = {} \/ EntrypointNone \/ Unenforceable(t)
           THEN Fail /\ UNCHANGED <<pos, scope, shape, ctx>>
           ELSE /\ tree' = apply_runtime_config(t)
                /\ \E k \in detect_kernel_layout(t) :
                      shape' = [shape EXCEPT !.kernel = k, !.left = Sourced(t)]
                /\ pos' = 1 /\ scope' = resolve_global_args /\ ctx' = NoCtx
                /\ Goto("run") /\ UNCHANGED <<vm, net>>
    /\ UNCHANGED <<layout, cur, qemu, recipe, from, meta, ran>>
----------------------------------------------------------------------------
(* The second walk: RUN and what it runs under, in source order.           *)

Running(d) == pc = "run" /\ pos <= Len(recipe.dirs) /\ Now.d \in d

(* A directory is kept as the operands that it is made of, by the place of *)
(* the WORKDIR that each comes from: an absolute one starts anew, one that *)
(* is relative is appended.                                                *)
resolve_workdir(current, requested, at) ==
    With(IF requested \in Absolute THEN Void ELSE current, at, requested)

(* SHELL is taken as written, and none is the default shell; w is the      *)
(* operand of the others, substituted.                                     *)
run_context(c, d, w, at) ==
    CASE d.d = "env" -> [c EXCEPT !.env = With(@, d.k, w)]
      [] d.d = "shell" -> [c EXCEPT !.shell = IF d.v = "none" THEN "sh" ELSE d.v]
      [] d.d = "user" -> [c EXCEPT !.user = w]
      [] d.d = "workdir" -> [c EXCEPT !.workdir = resolve_workdir(@, w, at)]
      [] OTHER -> c

walk_context ==
    /\ Running({"arg", "env", "shell", "user", "workdir", "add", "label", "entrypoint", "expose"})
    /\ pos' = pos + 1
    /\ scope' = IF Now.d = "arg" THEN apply_arg_to_scope(scope, Now) ELSE scope
    /\ ctx' = run_context(ctx, Now, subst_with(scope, Now.v), pos)
    /\ tree' = IF Now.d = "workdir" THEN With(tree, <<"dir", ctx'.workdir>>, "made") ELSE tree
    /\ UNCHANGED <<layout, cur, qemu, recipe, pc, from, shape, meta, vm, net, ran>>

(* run_step_vm: stage the helper files (an environment only if there is    *)
(* one, so that a file which is there already stays), drop an old exit     *)
(* marker, generate the run initramfs (which needs busybox).               *)
Helper == {<<"umf", "cmd">>, <<"umf", "env">>, <<"umf", "exit">>}
stage_helpersNoClear(t, c) ==
    LET u == With(t, <<"umf", "cmd">>, "cmd")
    IN  IF c.env = Void THEN u ELSE With(u, <<"umf", "env">>, c.env)
stage_helpers(t, c) ==
    LET u == With(t, <<"umf", "cmd">>, "cmd")
        e == IF c.env = Void THEN u ELSE With(u, <<"umf", "env">>, c.env)
    IN  Without(e, {<<"umf", "exit">>})
generate_initramfs(t) == <<"bin", "busybox">> \in DOMAIN t

run_stage ==
    /\ Running({"run"}) /\ vm = "none"
    /\ IF generate_initramfs(tree)
       THEN tree' = stage_helpers(tree, ctx) /\ vm' = "staged" /\ UNCHANGED <<pc, net>>
       ELSE Fail
    /\ UNCHANGED <<layout, cur, qemu, recipe, pos, scope, from, shape, meta, ctx, ran>>

(* The policed egress, then the address file, then the VM, which ends at   *)
(* once when an earlier RUN has removed the kernel it is to boot.          *)
KernelThere == <<"vmlinuz", shape.kernel.vmlinuz>> \in DOMAIN tree
run_createUnpoliced(ok) ==
    /\ Running({"run"}) /\ vm = "staged" /\ vm' = "up"
    /\ IF ok THEN net' = TRUE /\ tree' = With(tree, <<"umf", "net">>, "net")
             ELSE UNCHANGED <<net, tree>>
    /\ UNCHANGED <<done, pc, pos, scope, from, shape, meta, ctx, ran>>
run_create(ok) ==
    /\ Running({"run"}) /\ vm = "staged"
    /\ IF ok THEN /\ net' = TRUE /\ vm' = (IF KernelThere THEN "up" ELSE "faulted") /\ UNCHANGED pc
                  /\ tree' = With(tree, <<"umf", "net">>, "net")
             ELSE Fail
    /\ UNCHANGED <<layout, cur, qemu, recipe, pos, scope, from, shape, meta, ctx, ran>>

(* The guest sources the environment file if there is one, runs the        *)
(* command, writes its exit code and powers off.  It may panic half way,   *)
(* which ends qemu with 0 too (and leaves a tree that is then dropped);    *)
(* qemu itself may fail.                                                   *)
Gone(c) == IF c \in DOMAIN Effect THEN Effect[c].gone ELSE {}
EffectOf(c, t) == IF c \in DOMAIN Effect THEN Over(Without(t, Gone(c)), Effect[c].adds) ELSE t
guest_finishes(code) ==
    /\ vm = "up" /\ vm' = "off"
    /\ tree' = With(EffectOf(subst_with(scope, Now.v), tree), <<"umf", "exit">>, code)
    /\ ran' = IF code = "0" THEN ran \cup {<<pos, [ctx EXCEPT !.env = Sourced(tree)]>>} ELSE ran
    /\ UNCHANGED <<done, pc, pos, scope, from, shape, meta, ctx, net>>
guest_panics ==
    /\ vm = "up" /\ vm' = "off"
    /\ UNCHANGED <<done, pc, pos, scope, from, shape, meta, tree, ctx, net, ran>>
qemu_fails ==
    /\ vm = "up" /\ vm' = "faulted"
    /\ UNCHANGED <<done, pc, pos, scope, from, shape, meta, tree, ctx, net, ran>>

(* Dropping the handle kills qemu.                                         *)
run_timeoutNever == FALSE
run_timeout ==
    /\ Running({"run"}) /\ vm = "up" /\ Fail
    /\ UNCHANGED <<done, pos, scope, from, shape, meta, ctx, ran>>

(* The marker decides: absent or not zero is an error.                     *)
ExitCode == IF <<"umf", "exit">> \in DOMAIN tree THEN tree[<<"umf", "exit">>] ELSE "absent"
run_collectSkips ==
    /\ Running({"run"}) /\ vm \in {"off", "faulted"}
    /\ IF vm = "off" /\ ExitCode = "0"
       THEN /\ tree' = Without(tree, Helper) /\ vm' = "none" /\ net' = FALSE
            /\ pos' = pos + 2 /\ UNCHANGED pc
       ELSE Fail /\ UNCHANGED pos
    /\ UNCHANGED <<layout, cur, qemu, recipe, scope, from, shape, meta, ctx, ran>>
run_collect ==
    /\ Running({"run"}) /\ vm \in {"off", "faulted"}
    /\ IF vm = "off" /\ ExitCode = "0"
       THEN /\ tree' = Without(tree, Helper) /\ vm' = "none" /\ net' = FALSE
            /\ pos' = pos + 1 /\ UNCHANGED pc
       ELSE Fail /\ UNCHANGED pos
    /\ UNCHANGED <<layout, cur, qemu, recipe, scope, from, shape, meta, ctx, ran>>
----------------------------------------------------------------------------
(* The image.                                                              *)

(* The keys of the boot manifest are inserted after the recipe's labels;   *)
(* initramfs and cmdline only where there is one.                          *)
boot_manifestUserWins(t) ==
    Over([x \in {"entrypoint", "release", "vmlinuz", "flavor", "cmdline", "initramfs"} |->
             CASE x = "entrypoint" -> entrypoint_label(shape.entry)
               [] x \in {"release", "initramfs"} -> shape.kernel.release
               [] x = "vmlinuz" -> shape.kernel.vmlinuz
               [] x = "cmdline" -> shape.entry
               [] OTHER -> shape.flavor],
         meta.labels)
boot_manifest(t) ==
    LET always == [x \in {"entrypoint", "release", "vmlinuz", "flavor"} |->
                      CASE x = "entrypoint" -> entrypoint_label(shape.entry)
                        [] x = "release" -> shape.kernel.release
                        [] x = "vmlinuz" -> shape.kernel.vmlinuz
                        [] OTHER -> shape.flavor]
    IN  Over(meta.labels,
             CASE shape.entry \in InitSys -> With(always, "initramfs", shape.kernel.release)
               [] shape.entry = "nothing" -> always
               [] OTHER -> With(always, "cmdline", shape.entry))

emit_image ==
    /\ pc = "run" /\ pos > Len(recipe.dirs)
    /\ LET sys == shape.entry \in InitSys
           t   == IF sys THEN With(tree, <<"initramfs", shape.kernel.release>>, "made") ELSE tree
       IN  IF sys /\ ~generate_initramfs(tree)
           THEN Fail /\ UNCHANGED layout
           ELSE /\ layout' = With(layout, Tags[cur],
                      [kind |-> "bootable", index |-> FALSE, labels |-> boot_manifest(t),
                       argv |-> appliance_argv(shape.entry), tree |-> t])
                /\ Goto("built") /\ UNCHANGED <<tree, vm, net>>
    /\ UNCHANGED <<cur, qemu, recipe, pos, scope, from, shape, meta, ctx, ran>>

(* The next build starts from nothing but the layout.                      *)
Fresh == [recipe |-> [from |-> "scratch", dirs |-> <<>>],
          shape  |-> [flavor |-> "none", entry |-> "none",
                      kernel |-> [release |-> "none", vmlinuz |-> "none"], left |-> Void],
          meta   |-> [labels |-> Void, env |-> Void],
          from   |-> [kind |-> "none", index |-> FALSE, labels |-> Void, argv |-> "none",
                      tree |-> Void]]

Ended == pc \in {"built", "failed", "container"}
next_build ==
    /\ Ended /\ cur < Len(Recipes)
    /\ cur' = cur + 1 /\ Goto("start") /\ pos' = 1
    /\ recipe' = Fresh.recipe /\ shape' = Fresh.shape /\ meta' = Fresh.meta /\ from' = Fresh.from
    /\ scope' = Void /\ tree' = Void /\ ctx' = NoCtx /\ ran' = {}
    /\ UNCHANGED <<layout, qemu, vm, net>>
----------------------------------------------------------------------------
Init ==
    /\ layout = Void /\ cur = 1 /\ qemu = TRUE /\ pc = "start" /\ pos = 1
    /\ recipe = Fresh.recipe /\ shape = Fresh.shape /\ meta = Fresh.meta /\ from = Fresh.from
    /\ scope = Void /\ tree = Void /\ ctx = NoCtx
    /\ vm = "none" /\ net = FALSE /\ ran = {}

Builder ==
    \/ \E r \in Recipes[cur] : Start(r)
    \/ probe_bootable \/ verify_requirements \/ validate_ast_for_vm
    \/ resolve_from_kernel \/ decide_shape
    \/ walk_metadata \/ add_image \/ add_into_staging \/ (\E f \in BOOLEAN : add_url_into_staging(f))
    \/ unpack_kernel \/ walk_context
    \/ run_stage \/ (\E ok \in BOOLEAN : run_create(ok)) \/ run_collect
    \/ emit_image \/ next_build

Guest == guest_panics \/ qemu_fails \/ \E c \in {"0", "1"} : guest_finishes(c)

Next == Builder \/ Guest \/ run_timeout

(* The builder is one task that runs on; its timer fires.  The guest is    *)
(* under no obligation.                                                    *)
Spec == Init /\ [][Next]_vars /\ WF_vars(Builder) /\ WF_vars(run_timeout)
----------------------------------------------------------------------------
(* Properties.                                                             *)

Emitted == pc = "built"
Image   == layout[Tags[cur]]
Last(S) == CHOOSE i \in S : \A j \in S : j <= i

(* Every variable has a value of its kind.                                 *)
TypeOK ==
    /\ cur \in DOMAIN Recipes /\ recipe \in Recipes[cur] \cup {Fresh.recipe}
    /\ pc \in {"start", "probe", "preflight", "validate", "resolve", "decide", "walk",
               "run", "built", "failed", "container"}
    /\ pos \in 1..(Len(recipe.dirs) + 1)
    /\ \A r \in DOMAIN layout : IsImage(layout[r])
    /\ vm \in {"none", "staged", "up", "off", "faulted"} /\ net \in BOOLEAN /\ qemu \in BOOLEAN
    /\ IsTree(tree)
    /\ \A r \in ran : r[1] \in Is("run") /\ DOMAIN r[2] = DOMAIN NoCtx

(* What ENV, SHELL, USER and WORKDIR say last before directive p, with the *)
(* ARGs that are declared before each of them.                             *)
Declared(p) == {i \in Is("arg") : /\ i < p /\ recipe.dirs[i].k = "V"
                                  /\ recipe.dirs[i].v # "" \/ "V" \in DOMAIN BuildArgs}
VarAt(p) == IF "V" \in DOMAIN BuildArgs THEN BuildArgs["V"]
            ELSE IF Declared(p) # {} THEN recipe.dirs[Last(Declared(p))].v
            ELSE Globals
ValueAt(p) ==
    IF recipe.dirs[p].v = "$V" /\ (Declared(p) # {} \/ Globals # "") THEN VarAt(p) ELSE recipe.dirs[p].v

(* ENV, name by name; SHELL as written; USER; the last absolute WORKDIR    *)
(* and the relative ones after it.                                         *)
Said(d, p) == {i \in Is(d) : i < p}
EnvAt(p) == [k \in {recipe.dirs[i].k : i \in Said("env", p)} |->
                ValueAt(Last({i \in Said("env", p) : recipe.dirs[i].k = k}))]
ShellAt(p) == IF Said("shell", p) = {} \/ recipe.dirs[Last(Said("shell", p))].v = "none"
              THEN "sh" ELSE recipe.dirs[Last(Said("shell", p))].v
UserAt(p)  == IF Said("user", p) = {} THEN "none" ELSE ValueAt(Last(Said("user", p)))
WorkdirAt(p) ==
    [i \in {i \in Said("workdir", p) :
               \A j \in Said("workdir", p) : ValueAt(j) \in Absolute => j <= i} |-> ValueAt(i)]
ContextAt(p) ==
    [env |-> EnvAt(p), shell |-> ShellAt(p), user |-> UserAt(p), workdir |-> WorkdirAt(p)]

(* What the guest of a RUN is given: the context of its place, except that *)
(* with no ENV before it the first RUN of a build gets the environment     *)
(* file, if any, that a base or an ADD has left in the tree.               *)
GivenAt(p) ==
    [ContextAt(p) EXCEPT !.env = IF @ = Void /\ Said("run", p) = {} THEN shape.left ELSE @]

(* An image is emitted only after every RUN of its recipe has been carried *)
(* out to exit code 0 by a guest of its own, under the ENV, SHELL, USER and *)
(* WORKDIR in force at its place: no panic, no stale marker in the tree    *)
(* that a base or an ADD brought, and no failure passes for success; and a *)
(* stale environment file reaches no RUN but a first one without ENV.      *)
EmittedMeansRan == Emitted => ran = {<<p, GivenAt(p)>> : p \in Is("run")}

(* Extending a bootable image with a recipe that says nothing of flavor or *)
(* ENTRYPOINT keeps both, down to the program that an appliance runs as    *)
(* PID 1, along any number of extensions (for a FROM written in full).     *)
SilenceKeepsBase ==
    Emitted /\ from.kind = "bootable" /\ FromRef \notin DOMAIN Alias
        => /\ pick_flavor = "defaulted" /\ "flavor" \in DOMAIN from.labels =>
                 Image.labels["flavor"] = from.labels["flavor"]
           /\ pick_entrypoint = "unset" =>
                 /\ Image.labels["entrypoint"] = from.labels["entrypoint"]
                 /\ Image.argv = from.argv

Paired(t) == Rels(t, "modules") \cap Rels(t, "vmlinuz") # {}

(* The paths that the RUNs at the places P remove.                         *)
RemovedBy(P) == UNION {Gone(ValueAt(p)) : p \in P}
Latest(P)    == {p \in P : \A q \in P : q <= p}

(* The manifest of an emitted image names a kernel, modules and an         *)
(* initramfs that are in its tree, of one release when the base has such a *)
(* pair or, with no RUN to bring another kernel, the tree has.  Only its   *)
(* own RUNs can make it untrue, by removing what was found before them:    *)
(* the modules any of them, the kernel none but the last.  It has an       *)
(* initramfs or a command line according to what PID 1 is, and no label of *)
(* the recipe changes what it says of the kernel, the flavor or the        *)
(* entrypoint.                                                             *)
ManifestTrue ==
    Emitted =>
        LET l == Image.labels
            t == Image.tree
            sys == l["entrypoint"] \in InitSys
        IN  /\ <<"vmlinuz", l["vmlinuz"]>> \in DOMAIN t \cup RemovedBy(Latest(Is("run")))
            /\ <<"modules", l["release"]>> \in DOMAIN t \cup RemovedBy(Is("run"))
            /\ Paired(from.tree) \/ (Is("run") = {} /\ Paired(t)) => l["vmlinuz"] = l["release"]
            /\ sys => "initramfs" \in DOMAIN l /\ <<"initramfs", l["initramfs"]>> \in DOMAIN t
            /\ l["entrypoint"] = "appliance" => l["cmdline"] = Image.argv
            /\ l["flavor"] = shape.flavor /\ l["entrypoint"] = entrypoint_label(shape.entry)

(* An image whose recipe says EXPOSE loads its firewall: nft, the ruleset  *)
(* and the service of the init system that the image boots, up to what its *)
(* own RUNs remove.                                                        *)
ExposeEnforced ==
    Emitted /\ Is("expose") # {} =>
        /\ Image.labels["entrypoint"] \in InitSys
        /\ {<<"bin", "nft">>, <<"etc", "nftables">>, <<"enabled", Image.labels["entrypoint"]>>}
              \subseteq DOMAIN Image.tree \cup RemovedBy(Is("run"))

(* The same for a recipe that states its ENTRYPOINT only: EXPOSE over an   *)
(* inherited OpenRC or appliance PID 1 enables a service of systemd.       *)
ExposeEnforcedIfStated == pick_entrypoint # "unset" => ExposeEnforced

(* What an emitted image says of itself is so, up to what its own RUNs     *)
(* remove after it was written down: its manifest describes its tree, and  *)
(* the firewall of a recipe that states its ENTRYPOINT is one that the     *)
(* image loads.                                                            *)
ImageTrue == ManifestTrue /\ ExposeEnforcedIfStated

(* A micro-VM runs only in its own policed namespace, and nothing of it    *)
(* outlives the step: neither the VM nor the namespace are there between   *)
(* steps or once the build is over.                                        *)
GuestConfined ==
    /\ vm \in {"up", "off", "faulted"} => net
    /\ net \/ vm # "none" => pc = "run" /\ pos \in Is("run")

(* The state of a build: well typed, its guest inside its own step.        *)
BootInv == TypeOK /\ GuestConfined

(* Every build ends, whatever its guests do.                               *)
BuildsEnd == \A i \in DOMAIN Recipes : cur = i ~> cur = i /\ Ended
==============================================================================
