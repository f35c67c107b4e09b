---------------------------- MODULE MCBuildStage ----------------------------
(* Small recipes over one base image and one two-architecture image.       *)
EXTENDS BuildStage, TLC

CONSTANTS p1, p2, c1, c2, o1, o2

Layer(n)  == [op |-> "BASE", name |-> n]
Plain     == [env |-> "none", cwd |-> "none"]
Img(a, n) == [arch |-> a, cfg |-> Plain, layers |-> <<Layer(n)>>]

MCRegistry ==
    ("base" :> Img("amd64", "base"))
    @@ ("rootfs" :> [of |-> ("amd64" :> Img("amd64", "rootfs-amd64"))
                         @@ ("arm64" :> Img("arm64", "rootfs-arm64"))])
MCInternal == <<"stage-0", "stage-1">>
FileWorld  == ("f" :> c1) @@ ("d" :> c1) @@ ("e" :> c1)

File(n)      == [id |-> n, leaf |-> n, dir |-> FALSE]
Tree(n)      == [id |-> n, leaf |-> n, dir |-> TRUE]
To(path)     == [path |-> path, slash |-> FALSE]
Into(path)   == [path |-> path, slash |-> TRUE]
Run(c)       == [op |-> "RUN", cmd |-> c]
Add(s, d)    == [op |-> "ADD", src |-> s, dst |-> d]
AddUrl(s, d) == [op |-> "ADD-URL", src |-> s, dst |-> d]
AddOci(r, d) == [op |-> "ADD-OCI", ref |-> r, dst |-> d]
AddFrom(n, s, d) == [op |-> "ADD-FROM", from |-> n, src |-> s, dst |-> d]
Env(v)       == [op |-> "ENV", val |-> v]
Workdir(d)   == [op |-> "WORKDIR", path |-> d]

St(name, from, steps) == [name |-> name, from |-> from, steps |-> steps]
Recipe(arch, final, stages) ==
    [arch |-> arch, final |-> final, stages |-> stages]
One(final, from, steps) ==
    Recipe("amd64", final, <<St("only", from, steps)>>)

(* The author's edits of one recipe: a step changed at the end, a changed  *)
(* environment, a step put in front.                                       *)
EditedRecipes ==
    {One("app", "base", <<Add(File("f"), Into("opt")), Run("x")>>),
     One("app", "base", <<Add(File("f"), Into("opt")), Run("z")>>),
     One("app", "base", <<Env("e"), Add(File("f"), Into("opt")), Run("x")>>),
     One("app", "base", <<Workdir("w"), Run("x")>>)}

(* Stages: two producers under one name, the nearer one meant; an image,   *)
(* for two architectures, and a URL added.                                 *)
StagedRecipes ==
    {Recipe("amd64", "app",
        <<St("bld", "scratch", <<Add(File("f"), To("f"))>>),
          St("bld", "base", <<Run("x")>>),
          St("out", "scratch", <<AddFrom("bld", File("bin"), To("bin"))>>)>>),
     One("img", "scratch", <<AddOci("rootfs", To("root")),
                             AddUrl(File("f"), To("etc"))>>),
     Recipe("arm64", "img",
        <<St("only", "scratch", <<AddOci("rootfs", To("root"))>>)>>)}

(* Two directories of one content, put under one directory.                *)
TwinRecipes ==
    {One("app", "scratch", <<Add(Tree("d"), Into("opt"))>>),
     One("app", "scratch", <<Add(Tree("e"), Into("opt"))>>)}

(* Builds that overlap and share steps of the cache, and builds of one     *)
(* recipe that overlap and tag each other's first stage.                   *)
SharedRecipes ==
    {One("app1", "base", <<Run("x"), Run("y")>>),
     One("app2", "rootfs", <<Run("x")>>)}
OvertakingRecipes ==
    {Recipe("amd64", "app",
        <<St("bld", "scratch", <<Run("x")>>),
          St("out", "stage-0", <<Run("y"), AddFrom("bld", File("bin"), To("bin"))>>)>>)}

Plan(procs, recipes, sources, outcomes, builds) ==
    [procs |-> procs, recipes |-> recipes, sources |-> sources,
     outcomes |-> outcomes, builds |-> builds]
MCPlans == {Plan({p1}, EditedRecipes, {"f"}, {o1}, 3),
            Plan({p1}, StagedRecipes, {"f"}, {o1}, 3),
            Plan({p1}, TwinRecipes, {}, {o1}, 2),
            Plan({p1, p2}, SharedRecipes, {}, {o1, o2}, 3),
            Plan({p1, p2}, OvertakingRecipes, {}, {o1, o2}, 2)}
=============================================================================
