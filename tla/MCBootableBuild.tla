--------------------------- MODULE MCBootableBuild ---------------------------
(* Three builds, the later of which may extend the earlier, over registries *)
(* that hold kernels, a userland and three bootable bases.                 *)
EXTENDS BootableBuild, TLC

D(d, k, v) == <<[d |-> d, k |-> k, v |-> v]>>
Run(v)     == D("run", "", v)
Entry(e)   == IF e = "" THEN <<>> ELSE D("entrypoint", "", e)
Flavor(f)  == IF f = "" THEN <<>> ELSE D("label", "flavor", f)
Recipe(f, dirs) == [from |-> f, dirs |-> dirs]

Userland == D("add", "oci", "reg/user")
Stale    == D("add", "path", "stale")
Expose   == D("expose", "", "")

Files(S)     == [p \in S |-> "file"]
Kernel(z, m) == {<<"vmlinuz", z>>, <<"modules", m>>}
Tools        == {<<"bin", "busybox">>, <<"bin", "nft">>}
Img(kind, index, labels, argv, t) ==
    [kind |-> kind, index |-> index, labels |-> labels, argv |-> argv, tree |-> Files(t)]

MCPublished ==
    ("reg/kernel" :> Img("kernel", FALSE, <<>>, "none", Kernel("A", "A")))
    @@ ("reg/index" :> Img("kernel", TRUE, <<>>, "none", Kernel("A", "A")))
    @@ ("reg/odd" :> Img("kernel", FALSE, <<>>, "none", Kernel("B", "A") \cup {<<"modules", "C">>}))
    @@ ("reg/two" :> Img("kernel", FALSE, <<>>, "none", Kernel("A", "B") \cup {<<"vmlinuz", "B">>}))
    @@ ("reg/user" :> Img("container", FALSE, <<>>, "none", Tools))
    @@ ("docker.io/base" :> Img("bootable", FALSE,
            ("entrypoint" :> "openrc") @@ ("flavor" :> "uki"), "none", Kernel("A", "A") \cup Tools))
    @@ ("reg/old" :> Img("bootable", FALSE, "entrypoint" :> "appliance", "none", Kernel("A", "A")))
    @@ ("reg/bare" :> Img("bootable", FALSE, "entrypoint" :> "none", "none", Kernel("A", "A")))

MCAlias == "base" :> "docker.io/base"

MCSource ==
    ("stale" :> [kind |-> "path", tree |-> <<"umf", "exit">> :> "0"])
    @@ ("oldenv" :> [kind |-> "path", tree |-> <<"umf", "env">> :> ("K" :> "old")])
    @@ ("app" :> [kind |-> "stage", tree |-> <<"bin", "busybox">> :> "newer"])
    @@ ("tar" :> [kind |-> "url", tree |-> Files({<<"bin", "busybox">>})])
    @@ ("fs" :> [kind |-> "squashfs", tree |-> <<>>])

(* Commands: one adds a file, one another kernel; one replaces the kernel, *)
(* one removes what the firewall needs.                                    *)
Does(adds, gone) == [adds |-> Files(adds), gone |-> gone]
MCEffect == ("make" :> Does({<<"bin", "made">>}, {}))
            @@ ("kernel" :> Does(Kernel("B", "B"), {}))
            @@ ("upgrade" :> Does(Kernel("B", "B"), Kernel("A", "A")))
            @@ ("purge" :> Does({}, {<<"bin", "nft">>, <<"modules", "A">>}))

(* Shapes: what is said of flavor and PID 1, with and without a firewall.  *)
Shapes == {Recipe("reg/kernel", Userland \o Flavor(f) \o Entry(e) \o x) :
              f \in {"", "uki"}, e \in {"", "openrc", "/app", "nothing"}, x \in {<<>>, Expose}}

(* RUN under what precedes it; a stale marker or environment, a relabelled *)
(* manifest, a kernel or a firewall removed.                               *)
Steps == {Recipe("reg/kernel", Userland \o Stale \o Run("make")
              \o D("env", "K", "$V") \o D("arg", "V", "two") \o D("shell", "", "$V")
              \o D("env", "K", "$V") \o D("user", "", "u") \o D("workdir", "", "a")
              \o D("workdir", "", "/w") \o D("workdir", "", "$V") \o Run("kernel")
              \o D("shell", "", "none") \o D("label", "vmlinuz", "B") \o D("label", "entrypoint", "x")),
          Recipe("reg/kernel", D("add", "url", "tar") \o Run("make"))}
         \cup {Recipe("reg/kernel", Userland \o D("add", "path", "oldenv") \o e \o Run("make") \o Run("make")) :
                  e \in {<<>>, D("env", "E", "new")}}
         \cup {Recipe("reg/kernel", Userland \o Entry("openrc") \o Expose \o r) :
                  r \in {Run("upgrade"), Run("upgrade") \o Run("make"), Run("purge") \o Run("make")}}

(* What is refused, or is no bootable build at all.                        *)
Refused == {Recipe(f, Userland) : f \in {"scratch", "reg/user", "reg/none", "reg/index"}}
           \cup {Recipe("reg/kernel", d) :
                   d \in {<<>>, Run("make"), D("cmd", "", ""), D("add", "stage", "other"),
                          D("add", "url", "fs"), Expose, D("add", "oci", "reg/none")}}
           \cup {Recipe("reg/odd", Userland), Recipe("reg/two", Userland), Recipe("reg/old", Userland),
                 Recipe("reg/bare", Userland),
                 Recipe("reg/odd", Userland \o Run("kernel"))}

Extends == {Recipe(f, a \o Flavor(g) \o Entry(e) \o x) :
               f \in {"reg/t1", "base"}, a \in {<<>>, D("add", "stage", "app")},
               g \in {"", "systemd-boot"}, e \in {"", "systemd"}, x \in {<<>>, Expose, Run("make")}}

MCRecipes == <<Shapes \cup Steps \cup Refused, Extends, {Recipe("reg/t2", <<>>), Recipe("reg/t1", Run("make"))}>>
MCTags    == <<"reg/t1", "reg/t2", "reg/t3">>
Nothing   == <<>>
==============================================================================
