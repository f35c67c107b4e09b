----------------------------- MODULE BuildStage -----------------------------
(***************************************************************************)
(* The engine-backed build of a container image: the stages of a recipe in *)
(* order, the directives of a stage in order, each RUN, ADD or WORKDIR     *)
(* giving one layer, and the step cache umf-engine-cache/<key>.json that   *)
(* lets a later build adopt a layer instead of making it again.            *)
(*                                                                         *)
(* Builds share the layout (blobs, refs, step cache) and lock none of it.  *)
(* One step here is one lookup, one execution of a directive, one half of  *)
(* a cache write, or the emission of a stage image, which ImageLayout      *)
(* takes apart.  Any step may fail or the process be killed.               *)
(*                                                                         *)
(* A layer is what made it: its command and the layers it ran on, or the   *)
(* content copied and where to.  Two layers are equal exactly when their   *)
(* bytes are, so a layer is also its own digest, and a key, which hashes   *)
(* digests, is the record of what it hashes.  One compression codec.       *)
(***************************************************************************)
EXTENDS Naturals, Sequences, FiniteSets

CONSTANTS
    Proc,      \* umf build processes
    Plans,     \* who builds which recipes in one layout, which sources are
               \* edited, what one RUN may write, given the same inputs, and
               \* the bound on builds started
    Registry,  \* refs that can be pulled, and their images
    Internal,  \* Internal[i]: the ref of a stage that is not the last
    Content,   \* what a file, directory or URL may hold
    World,     \* what each source holds at first
    Torn       \* a cache entry that does not parse

VARIABLES
    tags,     \* index.json: ref -> image
    blobs,    \* layers whose blob is in the layout
    cache,    \* umf-engine-cache: key -> layer
    world,    \* what the context and the remotes hold
    plan,     \* who builds what in this layout
    started,  \* number of builds started
    b,        \* what each process holds
    late,     \* history: builds under which a ref of their recipe has moved
    mixed     \* history: the layers that such builds made

vars    == <<tags, blobs, cache, world, plan, started, b, late, mixed>>
history == <<late, mixed>>

Put(f, k, v) == [x \in DOMAIN f \cup {k} |-> IF x = k THEN v ELSE f[x]]

(* Recipes and images as the parser and the registry give them.  Recipes   *)
(* without a stage are refused; intermediate stages get names of their     *)
(* own, which no recipe is to be tagged with.                              *)
IsIndex(image) == "of" \in DOMAIN image
IsSeq(s)       == s \in Seq({s[i] : i \in DOMAIN s})
IsConfig(cfg)  == DOMAIN cfg = {"env", "cwd"}
HasConfig(image) ==
    IF IsIndex(image) THEN \A a \in DOMAIN image.of : IsConfig(image.of[a].cfg)
                      ELSE IsConfig(image.cfg)
WellFormed(r) ==
    /\ IsSeq(r.stages) /\ Len(r.stages) >= 1
    /\ \A i \in 1..Len(r.stages) : IsSeq(r.stages[i].steps)
    /\ \A i, j \in 1..(Len(r.stages) - 1) :
          /\ Internal[i] # r.final
          /\ Internal[i] = Internal[j] => i = j

(* The steps of a plan; a path has one last part.                          *)
StepsOf(pl) ==
    UNION {UNION {{r.stages[i].steps[j] : j \in 1..Len(r.stages[i].steps)} :
                      i \in 1..Len(r.stages)} : r \in pl.recipes}
OneLeaf(pl) ==
    \A s, t \in StepsOf(pl) :
        s.op = "ADD-FROM" /\ t.op = "ADD-FROM" /\ s.src.id = t.src.id =>
            s.src.leaf = t.src.leaf

ASSUME BuildAssumption ==
    /\ World \in [DOMAIN World -> Content]
    /\ \A r \in DOMAIN Registry : HasConfig(Registry[r])
    /\ \A pl \in Plans : pl.builds \in Nat /\ OneLeaf(pl) /\ \A r \in pl.recipes : WellFormed(r)

Points == {"idle", "pull", "resolve", "mount", "step", "make", "truncate",
           "write"}

(* A process between builds.                                               *)
Idle ==
    [pc |-> "idle", recipe |-> <<>>, stage |-> 0, step |-> 0,
     lookup |-> TRUE, adopted |-> FALSE,
     base |-> <<>>, bundle |-> <<>>, new |-> <<>>, upper |-> <<>>,
     cfg0 |-> <<>>, cfg |-> <<>>, fetched |-> <<>>, produced |-> <<>>,
     key |-> <<>>]

Stage(p) == b[p].recipe.stages[b[p].stage]
Steps(p) == Stage(p).steps
Step(p)  == Steps(p)[b[p].step]

StageRef(p) ==
    IF b[p].stage = Len(b[p].recipe.stages)
    THEN b[p].recipe.final ELSE Internal[b[p].stage]

At(p, point) == b[p].pc = point
Goto(p, f)   == b' = [b EXCEPT ![p] = f]

-----------------------------------------------------------------------------
(* Images.  A manifest is for one architecture; an index has one image for *)
(* each of several.                                                        *)

Matches(image, arch) ==
    IF IsIndex(image) THEN arch \in DOMAIN image.of ELSE image.arch = arch

(* Bundle::from_image selects by platform in an index only: the merged     *)
(* tree of a single-platform image is unpacked whatever it is for.         *)
Unpackable(image, arch) == IsIndex(image) => arch \in DOMAIN image.of
Select(image, arch) == IF IsIndex(image) THEN image.of[arch] ELSE image

LayersOf(image) ==
    IF IsIndex(image)
    THEN UNION {{image.of[a].layers[i] : i \in 1..Len(image.of[a].layers)} :
                    a \in DOMAIN image.of}
    ELSE {image.layers[i] : i \in 1..Len(image.layers)}

(* The image a stage name stands for: the last stage built under it.       *)
Producer(p, name) ==
    LET named == {i \in 1..Len(b[p].produced) : b[p].produced[i].name = name}
    IN  b[p].produced[CHOOSE i \in named : \A j \in named : j <= i]

-----------------------------------------------------------------------------
(* Cache keys.                                                             *)

parent_state(p) == [base |-> b[p].base, new |-> b[p].new]

(* A file's digest takes in its name; a directory's the paths below it.    *)
add_source_digest(src) ==
    IF src.dir THEN [tree |-> world[src.id]]
               ELSE [leaf |-> src.leaf, bytes |-> world[src.id]]

(* Faulty variants: the layers of the base left out of a RUN's key, the    *)
(* content left out of an ADD's.                                           *)
run_cache_keyNoBase(p) ==
    [op |-> "RUN", arch |-> b[p].recipe.arch,
     parent |-> [base |-> <<>>, new |-> b[p].new],
     cmd |-> Step(p).cmd, cfg |-> b[p].cfg]

(* Architecture, parent chain, command, and the config's environment,      *)
(* working directory and user.  A referenced secret's id is one more part  *)
(* of the command; its bytes are not hashed.                               *)
run_cache_key(p) ==
    [op |-> "RUN", arch |-> b[p].recipe.arch, parent |-> parent_state(p),
     cmd |-> Step(p).cmd, cfg |-> b[p].cfg]

add_cache_keyByName(p) ==
    [op |-> "ADD", arch |-> b[p].recipe.arch, parent |-> parent_state(p),
     src |-> Step(p).src.id, dst |-> Step(p).dst]

add_cache_key(p) ==
    [op |-> "ADD", arch |-> b[p].recipe.arch, parent |-> parent_state(p),
     src |-> add_source_digest(Step(p).src), dst |-> Step(p).dst]

url_add_cache_key(p) ==
    [op |-> "ADD-URL", parent |-> parent_state(p),
     payload |-> b[p].fetched[Step(p).src.id], dst |-> Step(p).dst]

(* The digest the ref names: of the whole index when it names an index.    *)
oci_image_add_cache_key(p) ==
    [op |-> "ADD-OCI", parent |-> parent_state(p),
     manifest |-> tags[Step(p).ref], dst |-> Step(p).dst]

cross_stage_add_cache_key(p) ==
    [op |-> "ADD-FROM", parent |-> parent_state(p),
     producer |-> tags[Producer(p, Step(p).from).ref],
     src |-> Step(p).src.id, dst |-> Step(p).dst]

Cached == {"RUN", "ADD", "ADD-URL", "ADD-OCI", "ADD-FROM"}

(* What must be in the layout before the key can be computed.              *)
HasKey(p) ==
    CASE Step(p).op = "ADD-OCI"  -> Step(p).ref \in DOMAIN tags
      [] Step(p).op = "ADD-FROM" ->
            Producer(p, Step(p).from).ref \in DOMAIN tags
      [] OTHER -> TRUE

Key(p) ==
    CASE Step(p).op = "RUN"      -> run_cache_key(p)
      [] Step(p).op = "ADD"      -> add_cache_key(p)
      [] Step(p).op = "ADD-URL"  -> url_add_cache_key(p)
      [] Step(p).op = "ADD-OCI"  -> oci_image_add_cache_key(p)
      [] Step(p).op = "ADD-FROM" -> cross_stage_add_cache_key(p)

(* StepCache::lookup and layer_from_cache: an entry that does not parse or *)
(* whose blob is gone is a miss.                                           *)
Hit(p) ==
    /\ b[p].lookup
    /\ Key(p) \in DOMAIN cache
    /\ cache[Key(p)] # Torn
    /\ cache[Key(p)] \in blobs

-----------------------------------------------------------------------------
(* Layers.                                                                 *)

compute_add_destination(dst, src) ==
    IF dst.slash THEN <<dst.path, src.leaf>> ELSE <<dst.path>>

(* The tree of a RUN's overlay: the uppers of this stage over the lowers   *)
(* of the bundle.                                                          *)
Ran(p, outcome) ==
    [op |-> "RUN", arch |-> b[p].recipe.arch, cmd |-> Step(p).cmd,
     cfg |-> b[p].cfg, base |-> b[p].bundle, new |-> b[p].upper,
     out |-> outcome]

Copied(content, at) == [op |-> "ADD", content |-> content, at |-> at]

Unpacked(image, path, at) ==
    [op |-> "TREE", layers |-> image.layers, path |-> path, at |-> at]

Dir(path) == [op |-> "WORKDIR", dir |-> path]

-----------------------------------------------------------------------------
(* build and build_one_stage.                                              *)

(* Every ADD --from names a stage declared before it.                      *)
check_cross_stage_refs(r) ==
    \A i \in 1..Len(r.stages) : \A j \in 1..Len(r.stages[i].steps) :
        r.stages[i].steps[j].op = "ADD-FROM" =>
            \E k \in 1..(i - 1) :
                r.stages[k].name = r.stages[i].steps[j].from

(* prepare_staged_build: the URLs are fetched before any stage.            *)
build(p) ==
    /\ At(p, "idle")
    /\ started < plan.builds
    /\ p \in plan.procs
    /\ \E r \in plan.recipes :
          /\ check_cross_stage_refs(r)
          /\ Goto(p, [Idle EXCEPT !.pc = "pull", !.recipe = r, !.stage = 1,
                                  !.fetched = world])
    /\ started' = started + 1
    /\ UNCHANGED <<tags, blobs, cache, world, plan, history>>

(* The refs a stage reads: its FROM and its ADDs of images.                *)
Needs(p) ==
    ({Stage(p).from} \ {"scratch"})
        \cup {Steps(p)[i].ref :
                i \in {j \in 1..Len(Steps(p)) : Steps(p)[j].op = "ADD-OCI"}}

(* A ref that is in the layout is not pulled again.                        *)
pull_into_layout(p) ==
    LET absent == Needs(p) \ DOMAIN tags IN
    /\ At(p, "pull")
    /\ absent \subseteq DOMAIN Registry
    /\ tags' = [r \in DOMAIN tags \cup absent |->
                    IF r \in absent THEN Registry[r] ELSE tags[r]]
    /\ blobs' = blobs \cup UNION {LayersOf(Registry[r]) : r \in absent}
    /\ Goto(p, [b[p] EXCEPT !.pc = "resolve"])
    /\ UNCHANGED <<cache, world, plan, started, history>>

(* The attempt starts: an empty BuildState on the base as the ref is now.  *)
resolve_base_image(p) ==
    /\ At(p, "resolve")
    /\ \/ /\ Stage(p).from = "scratch"
          /\ Goto(p, [b[p] EXCEPT !.pc = "mount", !.base = <<>>,
                !.cfg0 = [env |-> "none", cwd |-> "none"],
                !.cfg  = [env |-> "none", cwd |-> "none"],
                !.new = <<>>, !.upper = <<>>, !.adopted = FALSE, !.step = 1])
       \/ /\ Stage(p).from # "scratch" /\ Stage(p).from \in DOMAIN tags
          /\ LET image == tags[Stage(p).from]
                 base  == Select(image, b[p].recipe.arch) IN
             /\ Matches(image, b[p].recipe.arch)
             /\ Goto(p, [b[p] EXCEPT !.pc = "mount", !.base = base.layers,
                   !.cfg0 = base.cfg, !.cfg = base.cfg,
                   !.new = <<>>, !.upper = <<>>, !.adopted = FALSE,
                   !.step = 1])
    /\ UNCHANGED <<tags, blobs, cache, world, plan, started, history>>

(* Bundle::from_image looks the ref up again.                              *)
from_image(p) ==
    /\ At(p, "mount")
    /\ \/ /\ Stage(p).from = "scratch"
          /\ Goto(p, [b[p] EXCEPT !.pc = "step", !.bundle = <<>>])
       \/ /\ Stage(p).from # "scratch" /\ Stage(p).from \in DOMAIN tags
          /\ Unpackable(tags[Stage(p).from], b[p].recipe.arch)
          /\ Goto(p, [b[p] EXCEPT !.pc = "step",
                !.bundle = Select(tags[Stage(p).from],
                                  b[p].recipe.arch).layers])
    /\ UNCHANGED <<tags, blobs, cache, world, plan, started, history>>

AtStep(p)   == At(p, "step") /\ b[p].step <= Len(Steps(p))
AtCached(p) == AtStep(p) /\ Step(p).op \in Cached /\ HasKey(p)

(* The layer goes into the chain and, having no upper, into no overlay.    *)
adopt_cached_layer(p) ==
    /\ AtCached(p)
    /\ Hit(p)
    /\ Goto(p, [b[p] EXCEPT !.new = Append(@, cache[Key(p)]),
                            !.adopted = TRUE, !.step = @ + 1])
    /\ UNCHANGED <<tags, blobs, cache, world, plan, started, history>>

(* A RUN that misses after an adoption: start the stage again without      *)
(* lookups.                                                                *)
RebuildKeepsLookup(p) ==
    /\ AtCached(p) /\ ~Hit(p)
    /\ Step(p).op = "RUN" /\ b[p].adopted
    /\ Goto(p, [b[p] EXCEPT !.pc = "resolve"])
    /\ UNCHANGED <<tags, blobs, cache, world, plan, started, history>>

RebuildWithoutCache(p) ==
    /\ AtCached(p) /\ ~Hit(p)
    /\ Step(p).op = "RUN" /\ b[p].adopted
    /\ Goto(p, [b[p] EXCEPT !.pc = "resolve", !.lookup = FALSE])
    /\ UNCHANGED <<tags, blobs, cache, world, plan, started, history>>

MissAlways(p) ==
    /\ AtCached(p) /\ ~Hit(p)
    /\ Goto(p, [b[p] EXCEPT !.pc = "make", !.key = Key(p)])
    /\ UNCHANGED <<tags, blobs, cache, world, plan, started, history>>

Miss(p) ==
    /\ AtCached(p) /\ ~Hit(p)
    /\ ~(Step(p).op = "RUN" /\ b[p].adopted)
    /\ Goto(p, [b[p] EXCEPT !.pc = "make", !.key = Key(p)])
    /\ UNCHANGED <<tags, blobs, cache, world, plan, started, history>>

(* The layer is packaged from its upper, which later overlays stack.  A    *)
(* faulty variant moves on to the next step as well.                       *)
push_new_layerSkips(p, layer) ==
    /\ Goto(p, [b[p] EXCEPT !.pc = "truncate", !.new = Append(@, layer),
                            !.upper = Append(@, layer), !.step = @ + 1])
    /\ mixed' = IF p \in late THEN mixed \cup {layer} ELSE mixed

push_new_layer(p, layer) ==
    /\ Goto(p, [b[p] EXCEPT !.pc = "truncate", !.new = Append(@, layer),
                            !.upper = Append(@, layer)])
    /\ mixed' = IF p \in late THEN mixed \cup {layer} ELSE mixed

Making(p, op) ==
    /\ At(p, "make")
    /\ Step(p).op = op
    /\ UNCHANGED <<tags, blobs, cache, world, plan, started, late>>

apply_run(p) ==
    /\ Making(p, "RUN")
    /\ \E outcome \in plan.outcomes : push_new_layer(p, Ran(p, outcome))

(* The source is read a second time, after the digest of the key.          *)
apply_add(p) ==
    /\ Making(p, "ADD")
    /\ push_new_layer(p, Copied(world[Step(p).src.id],
                       compute_add_destination(Step(p).dst, Step(p).src)))

(* The payload staged before the stages ran.                               *)
apply_add_url(p) ==
    /\ Making(p, "ADD-URL")
    /\ push_new_layer(p, Copied(b[p].fetched[Step(p).src.id],
                       compute_add_destination(Step(p).dst, Step(p).src)))

(* Bundle::from_image looks the ref up again and takes this architecture's *)
(* image; it is laid at dst itself.                                        *)
apply_add_oci_image(p) ==
    /\ Making(p, "ADD-OCI")
    /\ Step(p).ref \in DOMAIN tags
    /\ Unpackable(tags[Step(p).ref], b[p].recipe.arch)
    /\ push_new_layer(p, Unpacked(Select(tags[Step(p).ref], b[p].recipe.arch),
                                  "root", <<Step(p).dst.path>>))

apply_add_from_stageFirst(p) ==
    LET ref == b[p].produced[1].ref IN
    /\ Making(p, "ADD-FROM")
    /\ ref \in DOMAIN tags
    /\ Unpackable(tags[ref], b[p].recipe.arch)
    /\ push_new_layer(p, Unpacked(Select(tags[ref], b[p].recipe.arch),
                                  Step(p).src.id,
                       compute_add_destination(Step(p).dst, Step(p).src)))

apply_add_from_stage(p) ==
    LET ref == Producer(p, Step(p).from).ref IN
    /\ Making(p, "ADD-FROM")
    /\ ref \in DOMAIN tags
    /\ Unpackable(tags[ref], b[p].recipe.arch)
    /\ push_new_layer(p, Unpacked(Select(tags[ref], b[p].recipe.arch),
                                  Step(p).src.id,
                       compute_add_destination(Step(p).dst, Step(p).src)))

(* StepCache::store is fs::write: open and truncate, then write.           *)
StoreTruncate(p) ==
    /\ At(p, "truncate")
    /\ cache' = Put(cache, b[p].key, Torn)
    /\ Goto(p, [b[p] EXCEPT !.pc = "write"])
    /\ UNCHANGED <<tags, blobs, world, plan, started, history>>

store(p) ==
    /\ At(p, "write")
    /\ cache' = Put(cache, b[p].key, b[p].new[Len(b[p].new)])
    /\ Goto(p, [b[p] EXCEPT !.pc = "step", !.step = @ + 1, !.key = <<>>])
    /\ UNCHANGED <<tags, blobs, world, plan, started, history>>

(* WORKDIR makes its layer every time and keeps it out of the cache.       *)
apply_workdir(p) ==
    /\ AtStep(p) /\ Step(p).op = "WORKDIR"
    /\ Goto(p, [b[p] EXCEPT !.new = Append(@, Dir(Step(p).path)),
                            !.upper = Append(@, Dir(Step(p).path)),
                            !.cfg.cwd = Step(p).path, !.step = @ + 1])
    /\ UNCHANGED <<tags, blobs, cache, world, plan, started, history>>

(* ENV, and the other directives that only change the image config.        *)
apply_env(p) ==
    /\ AtStep(p) /\ Step(p).op = "ENV"
    /\ Goto(p, [b[p] EXCEPT !.cfg.env = Step(p).val, !.step = @ + 1])
    /\ UNCHANGED <<tags, blobs, cache, world, plan, started, history>>

(* The refs a recipe reads: where its stages start, the images it adds and *)
(* the stages it copies out of.                                            *)
Copies(r, k) ==
    \E i \in 1..Len(r.stages) : \E j \in 1..Len(r.stages[i].steps) :
        /\ r.stages[i].steps[j].op = "ADD-FROM"
        /\ r.stages[i].steps[j].from = r.stages[k].name
Adds(r, ref) ==
    \E i \in 1..Len(r.stages) : \E j \in 1..Len(r.stages[i].steps) :
        /\ r.stages[i].steps[j].op = "ADD-OCI"
        /\ r.stages[i].steps[j].ref = ref
ReadsRef(r, ref) ==
    \/ \E i \in 1..Len(r.stages) : r.stages[i].from = ref
    \/ \E k \in 1..Len(r.stages) : Copies(r, k) /\ Internal[k] = ref
    \/ Adds(r, ref)

(* The builds under which a ref moves when it is made to name an image.    *)
Overtaken(p, ref, image) ==
    {q \in Proc \ {p} : /\ ~At(q, "idle") /\ ReadsRef(b[q].recipe, ref)
                        /\ ref \in DOMAIN tags /\ tags[ref] # image}

(* assemble_layer_chain and emit_image; the build goes on with the next    *)
(* stage or ends.                                                          *)
emit_image(p) ==
    LET image == [arch |-> b[p].recipe.arch, cfg |-> b[p].cfg,
                  layers |-> b[p].base \o b[p].new] IN
    /\ At(p, "step") /\ b[p].step > Len(Steps(p))
    /\ blobs' = blobs \cup LayersOf(image)
    /\ tags' = Put(tags, StageRef(p), image)
    /\ late' = (late \cup Overtaken(p, StageRef(p), image))
                  \ (IF b[p].stage = Len(b[p].recipe.stages) THEN {p} ELSE {})
    /\ IF b[p].stage = Len(b[p].recipe.stages)
       THEN Goto(p, Idle)
       ELSE Goto(p, [Idle EXCEPT
                !.pc = "pull", !.recipe = b[p].recipe,
                !.stage = b[p].stage + 1, !.fetched = b[p].fetched,
                !.produced = Append(b[p].produced,
                    [name |-> Stage(p).name, ref |-> StageRef(p),
                     image |-> image])])
    /\ UNCHANGED <<cache, world, plan, started, mixed>>

(* An error of any step, an Abort of the debugger's before_step hook, a    *)
(* RUN that exits non-zero, or a kill.  What was stored stays stored.      *)
Fail(p) ==
    /\ ~At(p, "idle")
    /\ Goto(p, Idle)
    /\ late' = late \ {p}
    /\ UNCHANGED <<tags, blobs, cache, world, plan, started, mixed>>

-----------------------------------------------------------------------------
(* What happens around the builds.                                         *)

(* The author edits a source, or a remote changes, between builds.         *)
Edit ==
    /\ \A p \in Proc : At(p, "idle")
    /\ \E s \in DOMAIN world \cap plan.sources, c \in Content :
          c # world[s] /\ world' = [world EXCEPT ![s] = c]
    /\ UNCHANGED <<tags, blobs, cache, plan, started, b, history>>

(* umf images --prune: blobs no ref reaches.  The step cache stays.        *)
prune_blobs ==
    LET kept == UNION {LayersOf(tags[r]) : r \in DOMAIN tags} IN
    /\ ~(blobs \subseteq kept)
    /\ blobs' = blobs \cap kept
    /\ UNCHANGED <<tags, cache, world, plan, started, b, history>>

Init ==
    /\ tags = <<>> /\ blobs = {} /\ cache = <<>>
    /\ world = World /\ started = 0 /\ plan \in Plans
    /\ b = [p \in Proc |-> Idle]
    /\ late = {} /\ mixed = {}

Advance(p) ==
    \/ pull_into_layout(p) \/ resolve_base_image(p) \/ from_image(p)
    \/ adopt_cached_layer(p) \/ RebuildWithoutCache(p) \/ Miss(p)
    \/ apply_run(p) \/ apply_add(p) \/ apply_add_url(p)
    \/ apply_add_oci_image(p) \/ apply_add_from_stage(p)
    \/ StoreTruncate(p) \/ store(p)
    \/ apply_workdir(p) \/ apply_env(p) \/ emit_image(p)

(* Every build that was to be started is over.                             *)
Rest == started = plan.builds /\ (\A p \in Proc : At(p, "idle")) /\ UNCHANGED vars

Next ==
    \/ \E p \in Proc : build(p) \/ Advance(p) \/ Fail(p)
    \/ Edit \/ prune_blobs \/ Rest

Spec == Init /\ [][Next]_vars

(* A running build takes its next step; a RUN that never returns is not    *)
(* one the builder could end.                                              *)
FairSpec == Spec /\ \A p \in Proc : WF_vars(Advance(p) \/ Fail(p))

-----------------------------------------------------------------------------
(* Type correctness; a layer is being made only for a step that the stage  *)
(* has.                                                                    *)
TypeOK ==
    /\ started \in 0..plan.builds
    /\ world \in [DOMAIN World -> Content]
    /\ \A p \in Proc :
          /\ b[p].pc \in Points
          /\ b[p].lookup \in BOOLEAN /\ b[p].adopted \in BOOLEAN
          /\ ~At(p, "idle") => b[p].recipe \in plan.recipes
          /\ b[p].pc \in {"make", "truncate", "write"} =>
                b[p].step \in 1..Len(Steps(p))

(* The step that gave the j-th new layer, and its place in the stage.      *)
LayerSteps(p) ==
    {i \in 1..Len(Steps(p)) : Steps(p)[i].op # "ENV"}
StepOf(p, j) ==
    CHOOSE i \in LayerSteps(p) :
        Cardinality({k \in LayerSteps(p) : k <= i}) = j

(* The environment in force before step i.                                 *)
EnvAt(p, i) ==
    LET sets == {k \in 1..(i - 1) : Steps(p)[k].op = "ENV"} IN
    IF sets = {} THEN b[p].cfg0.env
    ELSE Steps(p)[CHOOSE k \in sets : \A m \in sets : m <= k].val

(* Every RUN layer of a build in progress, adopted or executed, came from  *)
(* this command, in this environment, for this architecture, on exactly    *)
(* the layers this stage has beneath it and the base that the key hashed   *)
(* and the emitted chain has: what RebuildWithoutCache and the parent hash *)
(* of the key are for.  The base alone may be another for a layer made by  *)
(* a build under which a ref moved: FROM is looked up twice, unlocked.     *)
RunSawLayersBelow ==
    \A p \in Proc : \A j \in 1..Len(b[p].new) :
        LET l == b[p].new[j]
            i == StepOf(p, j) IN
        Steps(p)[i].op = "RUN" =>
            /\ l.op = "RUN"
            /\ l.cmd = Steps(p)[i].cmd
            /\ l.arch = b[p].recipe.arch
            /\ l.cfg.env = EnvAt(p, i)
            /\ l.new = SubSeq(b[p].new, 1, j - 1)
            /\ l.base = b[p].base \/ l \in mixed

(* The steps that may have given the layer of step s: keys of directories  *)
(* and of URLs leave out the name that a trailing slash appends.           *)
Twin(s, t) ==
    \/ t = s
    \/ /\ t.op = s.op /\ t.dst = s.dst
       /\ s.op = "ADD-URL" \/ (s.op = "ADD" /\ s.src.dir /\ t.src.dir)

(* Every ADD layer holds what its source holds now (the context is still   *)
(* while a build runs), at the place that the directive names or, where    *)
(* the key leaves the name out, one with that key.  ADD of an image lays   *)
(* the tree of the image that the ref names, for an architecture that is   *)
(* built in this layout: that key has none.  ADD --from copies out of the  *)
(* image that this very build emitted for the stage.  The last two hold of *)
(* builds under which no ref has moved, and of layers that such made.      *)
AddAsWritten ==
    \A p \in Proc : \A j \in 1..Len(b[p].new) :
        LET s == Steps(p)[StepOf(p, j)]
            l == b[p].new[j] IN
        /\ s.op = "ADD" => \E t \in StepsOf(plan) :
              /\ Twin(s, t)
              /\ l = Copied(world[s.src.id], compute_add_destination(t.dst, t.src))
        /\ s.op = "ADD-URL" => \E t \in StepsOf(plan) :
              /\ Twin(s, t)
              /\ l = Copied(b[p].fetched[s.src.id], compute_add_destination(t.dst, t.src))
        /\ s.op = "ADD-OCI" /\ p \notin late /\ l \notin mixed =>
              /\ s.ref \in DOMAIN tags
              /\ \E r \in plan.recipes :
                    /\ Unpackable(tags[s.ref], r.arch)
                    /\ l = Unpacked(Select(tags[s.ref], r.arch), "root", <<s.dst.path>>)
        /\ s.op = "ADD-FROM" /\ p \notin late /\ l \notin mixed =>
              l = Unpacked(Producer(p, s.from).image, s.src.id,
                           compute_add_destination(s.dst, s.src))

(* The state of a build: well typed, with every ADD as it is written.      *)
StageInv == TypeOK /\ AddAsWritten

(* A build ends: a stage is started over at most once, because the second  *)
(* attempt looks nothing up.                                               *)
BuildsEnd == \A p \in Proc : ~At(p, "idle") ~> At(p, "idle")
=============================================================================
