------------------------- MODULE BootableBuildProofs -------------------------
(* Bootable builds, for any recipes, registries, sources and commands: an  *)
(* image is emitted only when its guests have carried out every RUN, each  *)
(* under what was in force at its place; what an emitted image says of     *)
(* itself is so; and what an extension does not mention it keeps.          *)
EXTENDS BootableBuild, TLAPS

(* Before the second walk nothing has run, and a build that has not begun  *)
(* has an empty recipe.                                                    *)
Begun ==
    /\ {"flavor", "entry", "kernel", "left"} \subseteq DOMAIN shape
    /\ pc = "start" => recipe = Fresh.recipe
    /\ pc \in {"start", "probe", "preflight", "validate", "resolve", "decide", "walk"} => ran = {}

(* The value of the variable in a scope is the one that the recipe gives   *)
(* it before p.                                                            *)
ScopeAt(sc, p) ==
    /\ "V" \in DOMAIN sc <=> (Declared(p) # {} \/ Globals # "")
    /\ "V" \in DOMAIN sc => sc["V"] = VarAt(p)

RanBefore(p) == {<<q, GivenAt(q)>> : q \in Said("run", p)}
Completed    == vm = "off" /\ ExitCode = "0"

(* The environment file of the tree: before the first RUN the one that was *)
(* left there, between RUNs none, and for a guest that has been staged     *)
(* what is to be given to it.                                              *)
FileAt(p) == IF Said("run", p) = {} THEN shape.left ELSE Void
FileOK    == /\ vm = "none" => Sourced(tree) = FileAt(pos)
             /\ vm \in {"staged", "up"} => Sourced(tree) = GivenAt(pos).env

(* The second walk: where it is decides its scope, its context and which   *)
(* steps have run; no marker is there that this step's guest did not       *)
(* write.                                                                  *)
RunOK ==
    pc = "run" =>
        /\ ScopeAt(scope, pos) /\ ctx = ContextAt(pos)
        /\ ran = RanBefore(pos) \cup (IF Completed THEN {<<pos, GivenAt(pos)>>} ELSE {})
        /\ vm \in {"staged", "up"} => <<"umf", "exit">> \notin DOMAIN tree
        /\ FileOK

(* The base in hand.                                                       *)
FromOK ==
    /\ pc \in {"decide", "walk", "run", "built"} => IsImage(from)
    /\ pc = "decide" /\ FromRef \notin DOMAIN Alias =>
          FromRef \in DOMAIN layout /\ from = layout[FromRef]

(* What has been decided of flavor and PID 1.                              *)
ShapeOK ==
    pc \in {"walk", "run", "built"} =>
        /\ pick_entrypoint # "unset" => shape.entry = pick_entrypoint
        /\ from.kind = "bootable" /\ FromRef \notin DOMAIN Alias =>
              /\ pick_flavor = "defaulted" /\ "flavor" \in DOMAIN from.labels =>
                    shape.flavor = from.labels["flavor"]
              /\ pick_entrypoint = "unset" =>
                    /\ "entrypoint" \in DOMAIN from.labels
                    /\ shape.entry = inherited_entrypoint(from) /\ shape.entry # "error"

(* The RUNs whose commands have had their effect, and what they have left  *)
(* of the kernel and the firewall of the tree that guests run in.  A guest *)
(* that is up has booted its kernel, so that only the latest RUN can have  *)
(* removed it.                                                             *)
RunsAt(p, v) == Said("run", p) \cup (IF v = "off" THEN {p} ELSE {})
KernelOK(t, P) ==
    /\ <<"vmlinuz", shape.kernel.vmlinuz>> \in DOMAIN t \cup RemovedBy(Latest(P))
    /\ <<"modules", shape.kernel.release>> \in DOMAIN t \cup RemovedBy(P)
    /\ Paired(from.tree) \/ (Is("run") = {} /\ Paired(t)) =>
          shape.kernel.vmlinuz = shape.kernel.release
FirewallOK(t, P) ==
    Is("expose") # {} =>
        /\ pick_init_system \in InitSys
        /\ {<<"bin", "nft">>, <<"etc", "nftables">>, <<"enabled", pick_init_system>>}
              \subseteq DOMAIN t \cup RemovedBy(P)
TreeOK ==
    pc = "run" => /\ KernelOK(tree, RunsAt(pos, vm)) /\ FirewallOK(tree, RunsAt(pos, vm))
                  /\ vm = "up" => KernelThere

(* What an emitted image promises.                                         *)
Promises == EmittedMeansRan /\ SilenceKeepsBase /\ ImageTrue

Inductive == BootInv /\ Begun /\ RunOK /\ FromOK /\ ShapeOK /\ TreeOK /\ Promises
----------------------------------------------------------------------------
(* Functions.                                                              *)

(* The operators on functions, by what they return.                         *)
LEMMA WithIs ==
    ASSUME NEW f, NEW k, NEW v
    PROVE  /\ DOMAIN With(f, k, v) = DOMAIN f \cup {k}
           /\ With(f, k, v)[k] = v
           /\ \A x \in DOMAIN f : x # k => With(f, k, v)[x] = f[x]
BY DEF With

LEMMA OverIs ==
    ASSUME NEW f, NEW g
    PROVE  /\ DOMAIN Over(f, g) = DOMAIN f \cup DOMAIN g
           /\ \A x \in DOMAIN g : Over(f, g)[x] = g[x]
BY DEF Over

LEMMA WithoutIs ==
    ASSUME NEW f, NEW S
    PROVE  DOMAIN Without(f, S) = DOMAIN f \ S
BY DEF Without

LEMMA VoidIs == DOMAIN Void = {}
BY DEF Void

(* Another file leaves the environment file as it is.                      *)
LEMMA SourcedWith ==
    ASSUME NEW t, NEW x, NEW v, x # <<"umf", "env">>
    PROVE  Sourced(With(t, x, v)) = Sourced(t)
BY DEF Sourced, With

LEMMA SourcedWithout ==
    ASSUME NEW t, NEW S, <<"umf", "env">> \notin S
    PROVE  Sourced(Without(t, S)) = Sourced(t)
BY DEF Sourced, Without

(* The releases of a tree are the names under its directory.               *)
LEMMA RelsIs ==
    ASSUME NEW t, IsTree(t), NEW w, NEW r
    PROVE  r \in Rels(t, w) <=> <<w, r>> \in DOMAIN t
<1>1. ASSUME r \in Rels(t, w) PROVE <<w, r>> \in DOMAIN t
  <2>1. PICK p \in DOMAIN t : p[1] = w /\ p[2] = r
    BY <1>1 DEF Rels
  <2>2. p = <<p[1], p[2]>>
    BY DEF IsTree
  <2>3. QED
    BY <2>1, <2>2
<1>2. ASSUME <<w, r>> \in DOMAIN t PROVE r \in Rels(t, w)
  <2>1. <<w, r>>[1] = w /\ <<w, r>>[2] = r
    OBVIOUS
  <2>2. QED
    BY <1>2, <2>1 DEF Rels
<1>3. QED
  BY <1>1, <1>2

(* More of a tree pairs no less.                                           *)
LEMMA PairedGrows ==
    ASSUME NEW t, NEW u, IsTree(t), IsTree(u),
           DOMAIN t \subseteq DOMAIN u, Paired(t)
    PROVE  Paired(u)
<1>1. PICK r : r \in Rels(t, "modules") /\ r \in Rels(t, "vmlinuz")
  BY DEF Paired
<1>2. r \in Rels(u, "modules") /\ r \in Rels(u, "vmlinuz")
  BY <1>1, RelsIs
<1>3. QED
  BY <1>2 DEF Paired

(* Paths of other directories pair nothing.                                *)
LEMMA PairedSame ==
    ASSUME NEW t, NEW u, IsTree(t), IsTree(u), Paired(u),
           \A r : /\ <<"modules", r>> \in DOMAIN u => <<"modules", r>> \in DOMAIN t
                  /\ <<"vmlinuz", r>> \in DOMAIN u => <<"vmlinuz", r>> \in DOMAIN t
    PROVE  Paired(t)
<1>1. PICK r : r \in Rels(u, "modules") /\ r \in Rels(u, "vmlinuz")
  BY DEF Paired
<1>2. r \in Rels(t, "modules") /\ r \in Rels(t, "vmlinuz")
  BY <1>1, RelsIs
<1>3. QED
  BY <1>2 DEF Paired

(* detect_kernel_layout finds a kernel and modules that are there, of one  *)
(* release when some release has both.                                     *)
LEMMA DetectIs ==
    ASSUME NEW t, IsTree(t), NEW k \in detect_kernel_layout(t)
    PROVE  /\ <<"vmlinuz", k.vmlinuz>> \in DOMAIN t
           /\ <<"modules", k.release>> \in DOMAIN t
           /\ Paired(t) => k.vmlinuz = k.release
<1> DEFINE m == Rels(t, "modules")
           z == Rels(t, "vmlinuz")
<1>1. ASSUME NEW S, S # {} PROVE First(S) \in S
  BY <1>1 DEF First
<1>2. m # {} /\ z # {}
  BY DEF detect_kernel_layout
<1>3. k = IF m \cap z # {} THEN [release |-> First(m \cap z), vmlinuz |-> First(m \cap z)]
          ELSE [release |-> First(m), vmlinuz |-> First(z)]
  BY <1>2 DEF detect_kernel_layout
<1>4. k.release \in m /\ k.vmlinuz \in z
  <2>1. CASE m \cap z # {}
    <3>1. First(m \cap z) \in m \cap z
      BY <1>1, <2>1
    <3>2. QED
      BY <1>3, <2>1, <3>1
  <2>2. CASE m \cap z = {}
    BY <1>1, <1>2, <1>3, <2>2
  <2>3. QED
    BY <2>1, <2>2
<1>5. Paired(t) => k.vmlinuz = k.release
  BY <1>3 DEF Paired
<1>6. QED
  BY <1>4, <1>5, RelsIs
----------------------------------------------------------------------------
(* What a recipe says before a directive.                                  *)

(* The directives of a recipe are a sequence.                               *)
LEMMA RecipeType ==
    ASSUME TypeOK
    PROVE  /\ recipe.dirs \in Seq(AnyDirective)
           /\ DOMAIN recipe.dirs = 1..Len(recipe.dirs) /\ Len(recipe.dirs) \in Nat
<1>1. Fresh.recipe.dirs = <<>>
  BY DEF Fresh
<1>2. \A r \in AnyRecipe : r.dirs \in Seq(AnyDirective)
  BY DEF AnyRecipe
<1>3. cur \in DOMAIN Recipes /\ Recipes[cur] \subseteq AnyRecipe
  BY BootableAssumption DEF TypeOK
<1>4. recipe \in AnyRecipe \/ recipe = Fresh.recipe
  BY <1>3 DEF TypeOK
<1>5. recipe.dirs \in Seq(AnyDirective)
  <2>1. CASE recipe \in AnyRecipe
    BY <1>2, <2>1
  <2>2. CASE recipe = Fresh.recipe
    <3>1. recipe.dirs = <<>>
      BY <1>1, <2>2
    <3>2. <<>> \in Seq(AnyDirective)
      OBVIOUS
    <3>3. QED
      BY <3>1, <3>2, Zenon
  <2>3. QED
    BY <1>4, <2>1, <2>2
<1>6. QED
  BY <1>5

(* The last of a set is its maximum.                                       *)
LEMMA LastIs ==
    ASSUME NEW S \in SUBSET Nat, NEW p \in S, \A j \in S : j <= p
    PROVE  Last(S) = p
<1>1. \A i \in S : (\A j \in S : j <= i) => i = p
  OBVIOUS
<1>2. QED
  BY <1>1 DEF Last

(* The directives of a kind that have been walked over, one step on.        *)
LEMMA SaidNext ==
    ASSUME TypeOK, NEW p \in DOMAIN recipe.dirs, NEW d
    PROVE  /\ Said(d, p) \in SUBSET Nat /\ Said(d, p + 1) \in SUBSET Nat
           /\ \A j \in Said(d, p) : j < p
           /\ recipe.dirs[p].d = d => Said(d, p + 1) = Said(d, p) \cup {p}
           /\ recipe.dirs[p].d # d => Said(d, p + 1) = Said(d, p)
BY RecipeType DEF Said, Is

LEMMA SaidFirst ==
    ASSUME TypeOK, NEW d
    PROVE  Said(d, 1) = {}
BY RecipeType DEF Said, Is

(* The build arguments that are declared, and one step on.                  *)
LEMMA DeclaredIs ==
    ASSUME NEW p, NEW i
    PROVE  i \in Declared(p) <=>
              /\ i \in DOMAIN recipe.dirs /\ recipe.dirs[i].d = "arg" /\ i < p
              /\ recipe.dirs[i].k = "V"
              /\ recipe.dirs[i].v # "" \/ "V" \in DOMAIN BuildArgs
BY Zenon DEF Declared, Is

LEMMA DeclaredNext ==
    ASSUME TypeOK, NEW p \in DOMAIN recipe.dirs
    PROVE  /\ Declared(p) \in SUBSET Nat
           /\ \A j \in Declared(p) : j < p
           /\ Declared(p + 1) = IF /\ recipe.dirs[p].d = "arg" /\ recipe.dirs[p].k = "V"
                                   /\ recipe.dirs[p].v # "" \/ "V" \in DOMAIN BuildArgs
                                THEN Declared(p) \cup {p} ELSE Declared(p)
<1>1. DOMAIN recipe.dirs \in SUBSET Nat /\ p \in Nat
  BY RecipeType
<1>2. \A i \in DOMAIN recipe.dirs : i < p + 1 <=> i < p \/ i = p
  BY <1>1
<1>3. Declared(p) \in SUBSET Nat /\ \A j \in Declared(p) : j < p
  BY <1>1, DeclaredIs
<1>4. ASSUME NEW i
      PROVE  i \in Declared(p + 1) <=>
               \/ i \in Declared(p)
               \/ /\ i = p /\ recipe.dirs[p].d = "arg" /\ recipe.dirs[p].k = "V"
                  /\ recipe.dirs[p].v # "" \/ "V" \in DOMAIN BuildArgs
  BY <1>2, DeclaredIs, Zenon
<1>5. QED
  BY <1>3, <1>4, Zenon

(* resolve_global_args: the scope that a walk begins with.                 *)
LEMMA ScopeFirst ==
    ASSUME TypeOK
    PROVE  ScopeAt(resolve_global_args, 1)
<1>1. Declared(1) = {}
  <2>1. \A i \in DOMAIN recipe.dirs : ~ (i < 1)
    BY RecipeType
  <2>2. QED
    BY <2>1, DeclaredIs, Zenon
<1>2. CASE Globals = ""
  BY <1>1, <1>2, VoidIs DEF ScopeAt, resolve_global_args
<1>3. CASE Globals # ""
  <2>1. resolve_global_args = IF "V" \in DOMAIN BuildArgs THEN With(Void, "V", BuildArgs["V"])
                              ELSE With(Void, "V", Globals)
    BY <1>3 DEF resolve_global_args, apply_arg_to_scope
  <2>2. "V" \in DOMAIN resolve_global_args
    BY <2>1 DEF With
  <2>3. resolve_global_args["V"] = VarAt(1)
    BY <1>1, <2>1 DEF VarAt, With
  <2>4. QED
    BY <1>3, <2>2, <2>3 DEF ScopeAt
<1>4. QED
  BY <1>2, <1>3

(* apply_arg_to_scope: a declaration moves the scope on.                   *)
LEMMA ScopeNext ==
    ASSUME TypeOK, NEW p \in DOMAIN recipe.dirs, NEW sc, ScopeAt(sc, p)
    PROVE  ScopeAt(IF recipe.dirs[p].d = "arg" THEN apply_arg_to_scope(sc, recipe.dirs[p]) ELSE sc,
                   p + 1)
<1> DEFINE d  == recipe.dirs[p]
           ns == IF d.d = "arg" THEN apply_arg_to_scope(sc, d) ELSE sc
<1>1. CASE d.d = "arg" /\ d.k = "V" /\ "V" \in DOMAIN BuildArgs
  <2>1. ns = With(sc, "V", BuildArgs["V"])
    BY <1>1 DEF apply_arg_to_scope
  <2>2. p \in Declared(p + 1)
    BY <1>1, DeclaredNext
  <2>3. VarAt(p + 1) = BuildArgs["V"]
    BY <1>1 DEF VarAt
  <2>4. QED
    <3>1. "V" \in DOMAIN ns /\ ns["V"] = BuildArgs["V"]
      BY <2>1 DEF With
    <3> HIDE DEF ns
    <3>2. ScopeAt(ns, p + 1)
      BY <2>2, <2>3, <3>1 DEF ScopeAt
    <3>3. QED
      BY <3>2 DEF ns
<1>2. CASE d.d = "arg" /\ d.k = "V" /\ "V" \notin DOMAIN BuildArgs /\ d.v # ""
  <2>1. ns = With(sc, "V", d.v)
    BY <1>2 DEF apply_arg_to_scope
  <2>2. Declared(p + 1) = Declared(p) \cup {p}
    BY <1>2, DeclaredNext
  <2>3. Last(Declared(p + 1)) = p
    <3>0. Declared(p) \in SUBSET Nat /\ \A j \in Declared(p) : j < p
      BY DeclaredNext
    <3>2. p \in Nat
      BY RecipeType
    <3>1. \A j \in Declared(p + 1) : j <= p
      BY <2>2, <3>0, <3>2
    <3>3. QED
      BY <2>2, <3>0, <3>1, <3>2, LastIs
  <2>4. VarAt(p + 1) = d.v
    BY <1>2, <2>2, <2>3 DEF VarAt
  <2>5. QED
    <3>1. "V" \in DOMAIN ns /\ ns["V"] = d.v
      BY <2>1 DEF With
    <3> HIDE DEF ns
    <3>2. ScopeAt(ns, p + 1)
      BY <2>2, <2>4, <3>1 DEF ScopeAt
    <3>3. QED
      BY <3>2 DEF ns
<1>3. CASE ~ (d.d = "arg" /\ d.k = "V" /\ (d.v # "" \/ "V" \in DOMAIN BuildArgs))
  <2>1. Declared(p + 1) = Declared(p)
    BY <1>3, DeclaredNext
  <2>2. VarAt(p + 1) = VarAt(p)
    BY <2>1 DEF VarAt
  <2>3. ns = sc \/ \E v : d.k # "V" /\ ns = With(sc, d.k, v)
    BY <1>3 DEF apply_arg_to_scope
  <2>4. ("V" \in DOMAIN ns <=> "V" \in DOMAIN sc) /\ ("V" \in DOMAIN sc => ns["V"] = sc["V"])
    BY <2>3 DEF With
  <2>5. QED
    BY <2>1, <2>2, <2>4 DEF ScopeAt
<1>4. QED
  BY <1>1, <1>2, <1>3

(* subst_with: the text that a directive's own value becomes.              *)
LEMMA SubstIs ==
    ASSUME TypeOK, NEW p \in DOMAIN recipe.dirs, NEW sc, ScopeAt(sc, p)
    PROVE  subst_with(sc, recipe.dirs[p].v) = ValueAt(p)
BY DEF ScopeAt, subst_with, ValueAt

(* The context before the first directive is the default one.              *)
LEMMA ContextFirst ==
    ASSUME TypeOK
    PROVE  ContextAt(1) = NoCtx
<1>1. Said("env", 1) = {} /\ Said("shell", 1) = {} /\ Said("user", 1) = {} /\ Said("workdir", 1) = {}
  BY SaidFirst
<1>2. EnvAt(1) = Void
  <2>1. {recipe.dirs[i].k : i \in Said("env", 1)} = {}
    BY <1>1
  <2>2. QED
    BY <2>1 DEF EnvAt, Void
<1>3. WorkdirAt(1) = Void
  BY <1>1 DEF WorkdirAt, Void
<1>4. ShellAt(1) = "sh" /\ UserAt(1) = "none"
  BY <1>1 DEF ShellAt, UserAt
<1>5. QED
  BY <1>2, <1>3, <1>4 DEF ContextAt, NoCtx

(* What is said last of one setting, after one more directive.             *)
LEMMA LastNext ==
    ASSUME TypeOK, NEW p \in DOMAIN recipe.dirs, NEW d
    PROVE  /\ recipe.dirs[p].d = d => Said(d, p + 1) # {} /\ Last(Said(d, p + 1)) = p
           /\ recipe.dirs[p].d # d => Said(d, p + 1) = Said(d, p)
<1>1. CASE recipe.dirs[p].d = d
  <2>1. p \in Nat
    BY RecipeType
  <2>2. /\ Said(d, p + 1) = Said(d, p) \cup {p}
        /\ Said(d, p) \in SUBSET Nat /\ \A j \in Said(d, p) : j < p
    BY <1>1, SaidNext
  <2>3. \A j \in Said(d, p + 1) : j <= p
    BY <2>1, <2>2
  <2>4. QED
    BY <1>1, <2>1, <2>2, <2>3, LastIs
<1>2. CASE recipe.dirs[p].d # d
  BY <1>2, SaidNext
<1>3. QED
  BY <1>1, <1>2

(* SHELL and USER, after one more directive.                               *)
LEMMA ShellUserNext ==
    ASSUME TypeOK, NEW p \in DOMAIN recipe.dirs
    PROVE  /\ ShellAt(p + 1) = IF recipe.dirs[p].d = "shell"
                               THEN IF recipe.dirs[p].v = "none" THEN "sh" ELSE recipe.dirs[p].v
                               ELSE ShellAt(p)
           /\ UserAt(p + 1) = IF recipe.dirs[p].d = "user" THEN ValueAt(p) ELSE UserAt(p)
BY LastNext DEF ShellAt, UserAt

(* WORKDIR: an absolute one starts anew, a relative one is appended.       *)
LEMMA WorkdirNext ==
    ASSUME TypeOK, NEW p \in DOMAIN recipe.dirs
    PROVE  WorkdirAt(p + 1) = IF recipe.dirs[p].d = "workdir"
                              THEN resolve_workdir(WorkdirAt(p), ValueAt(p), p) ELSE WorkdirAt(p)
<1> DEFINE W    == Said("workdir", p)
           T    == Said("workdir", p + 1)
           V(i) == ValueAt(i)
           S(U) == {i \in U : \A j \in U : V(j) \in Absolute => j <= i}
<1>1. WorkdirAt(p) = [i \in S(W) |-> V(i)] /\ WorkdirAt(p + 1) = [i \in S(T) |-> V(i)]
  BY DEF WorkdirAt
<1>2. CASE recipe.dirs[p].d = "workdir"
  <2>1. p \in Nat /\ T = W \cup {p} /\ W \in SUBSET Nat /\ \A j \in W : j < p
    BY <1>2, RecipeType, SaidNext
  <2>5. \A j \in Nat : j < p => j <= p /\ ~ (p <= j)
    BY <2>1
  <2>6. p <= p /\ \A j \in W : j <= p /\ ~ (p <= j)
    BY <2>1, <2>5
  <2> HIDE DEF W, T, V
  <2>2. CASE V(p) \in Absolute
    <3>1. S(T) = {p}
      BY <2>1, <2>2, <2>6
    <3>2. With(Void, p, V(p)) = [i \in {p} |-> V(i)]
      BY VoidIs DEF With
    <3>3. resolve_workdir(WorkdirAt(p), V(p), p) = With(Void, p, V(p))
      BY <2>2 DEF resolve_workdir
    <3>4. WorkdirAt(p + 1) = resolve_workdir(WorkdirAt(p), V(p), p)
      BY <1>1, <3>1, <3>2, <3>3
    <3>5. QED
      BY <1>2, <3>4 DEF V
  <2>3. CASE V(p) \notin Absolute
    <3>1. S(T) = S(W) \cup {p}
      BY <2>1, <2>3, <2>6
    <3> DEFINE A == S(W)
    <3>2. WorkdirAt(p) = [i \in A |-> V(i)] /\ WorkdirAt(p + 1) = [i \in A \cup {p} |-> V(i)]
      BY <1>1, <3>1
    <3>3. resolve_workdir(WorkdirAt(p), V(p), p) = With(WorkdirAt(p), p, V(p))
      BY <2>3 DEF resolve_workdir
    <3> HIDE DEF A
    <3>4. With(WorkdirAt(p), p, V(p)) = [i \in A \cup {p} |-> V(i)]
      BY <3>2 DEF With
    <3>5. WorkdirAt(p + 1) = resolve_workdir(WorkdirAt(p), V(p), p)
      BY <3>2, <3>3, <3>4
    <3>6. QED
      BY <1>2, <3>5 DEF V
  <2>4. QED
    BY <2>2, <2>3
<1>3. CASE recipe.dirs[p].d # "workdir"
  <2>1. T = W
    BY <1>3, SaidNext
  <2>2. QED
    BY <1>1, <1>3, <2>1
<1>4. QED
  BY <1>2, <1>3

(* The environment likewise, name by name.                                 *)
LEMMA EnvNext ==
    ASSUME TypeOK, NEW p \in DOMAIN recipe.dirs
    PROVE  EnvAt(p + 1) = IF recipe.dirs[p].d = "env"
                          THEN With(EnvAt(p), recipe.dirs[p].k, ValueAt(p)) ELSE EnvAt(p)
<1>1. CASE recipe.dirs[p].d = "env"
  <2> DEFINE S    == Said("env", p)
             T    == Said("env", p + 1)
             K(i) == recipe.dirs[i].k
             Of(U, k) == {i \in U : K(i) = k}
  <2>1. p \in Nat
    BY RecipeType
  <2>2. T = S \cup {p} /\ S \in SUBSET Nat /\ \A j \in S : j < p
    BY <1>1, SaidNext
  <2>3. {K(i) : i \in T} = {K(i) : i \in S} \cup {K(p)}
    BY <2>2
  <2>4. Last(Of(T, K(p))) = p
    <3>1. Of(T, K(p)) \in SUBSET Nat /\ p \in Of(T, K(p)) /\ \A j \in Of(T, K(p)) : j <= p
      BY <2>1, <2>2
    <3> HIDE DEF Of
    <3>2. QED
      BY <3>1, LastIs
  <2>5. \A k : k # K(p) => Of(T, k) = Of(S, k)
    BY <2>2
  <2>6. EnvAt(p + 1) = [k \in {K(i) : i \in T} |-> ValueAt(Last(Of(T, k)))]
    BY DEF EnvAt
  <2>7. EnvAt(p) = [k \in {K(i) : i \in S} |-> ValueAt(Last(Of(S, k)))]
    BY DEF EnvAt
  <2> DEFINE A == {K(i) : i \in T}
             B == {K(i) : i \in S}
             n == K(p)
             f(k) == ValueAt(Last(Of(T, k)))
             g(k) == ValueAt(Last(Of(S, k)))
  <2>8. f(n) = ValueAt(p) /\ \A k : k # n => f(k) = g(k)
    BY <2>4, <2>5
  <2>9. A = B \cup {n} /\ EnvAt(p + 1) = [k \in A |-> f(k)] /\ EnvAt(p) = [k \in B |-> g(k)]
    BY <2>3, <2>6, <2>7
  <2> HIDE DEF S, T, K, Of, A, B, n, f, g
  <2>10. With(EnvAt(p), n, ValueAt(p)) = [k \in B \cup {n} |-> IF k = n THEN ValueAt(p) ELSE g(k)]
    BY <2>9 DEF With
  <2>11. EnvAt(p + 1) = [k \in B \cup {n} |-> IF k = n THEN ValueAt(p) ELSE g(k)]
    BY <2>8, <2>9
  <2>12. EnvAt(p + 1) = With(EnvAt(p), n, ValueAt(p))
    BY <2>10, <2>11
  <2>13. QED
    BY <1>1, <2>12 DEF n, K
<1>2. CASE recipe.dirs[p].d # "env"
  <2>1. Said("env", p + 1) = Said("env", p)
    BY <1>2, SaidNext
  <2>2. QED
    BY <1>2, <2>1 DEF EnvAt
<1>3. QED
  BY <1>1, <1>2

(* What a directive does to a context, field by field.                      *)
LEMMA RunContextIs ==
    ASSUME NEW e, NEW s, NEW u, NEW h, NEW d, NEW w, NEW at
    PROVE  run_context([env |-> e, shell |-> s, user |-> u, workdir |-> h], d, w, at) =
             [env     |-> IF d.d = "env" THEN With(e, d.k, w) ELSE e,
              shell   |-> IF d.d = "shell" THEN IF d.v = "none" THEN "sh" ELSE d.v ELSE s,
              user    |-> IF d.d = "user" THEN w ELSE u,
              workdir |-> IF d.d = "workdir" THEN resolve_workdir(h, w, at) ELSE h]
<1>1. CASE d.d = "env"
  BY <1>1 DEF run_context
<1>2. CASE d.d = "shell"
  BY <1>2 DEF run_context
<1>3. CASE d.d = "user"
  BY <1>3 DEF run_context
<1>4. CASE d.d = "workdir"
  BY <1>4 DEF run_context
<1>5. CASE d.d \notin {"env", "shell", "user", "workdir"}
  BY <1>5 DEF run_context
<1>6. QED
  BY <1>1, <1>2, <1>3, <1>4, <1>5

(* run_context: one directive moves the context on.                        *)
LEMMA ContextNext ==
    ASSUME TypeOK, NEW p \in DOMAIN recipe.dirs
    PROVE  ContextAt(p + 1) = run_context(ContextAt(p), recipe.dirs[p], ValueAt(p), p)
<1> DEFINE d == recipe.dirs[p]
           w == ValueAt(p)
           c == [env |-> EnvAt(p), shell |-> ShellAt(p), user |-> UserAt(p),
                 workdir |-> WorkdirAt(p)]
<1>1. /\ EnvAt(p + 1) = IF d.d = "env" THEN With(EnvAt(p), d.k, w) ELSE EnvAt(p)
      /\ ShellAt(p + 1) = IF d.d = "shell" THEN IF d.v = "none" THEN "sh" ELSE d.v ELSE ShellAt(p)
      /\ UserAt(p + 1) = IF d.d = "user" THEN w ELSE UserAt(p)
      /\ WorkdirAt(p + 1) = IF d.d = "workdir" THEN resolve_workdir(WorkdirAt(p), w, p)
                            ELSE WorkdirAt(p)
  BY EnvNext, ShellUserNext, WorkdirNext
<1>2. ContextAt(p) = c /\ ContextAt(p + 1) = [env |-> EnvAt(p + 1), shell |-> ShellAt(p + 1),
                                               user |-> UserAt(p + 1), workdir |-> WorkdirAt(p + 1)]
  BY DEF ContextAt
<1> HIDE DEF d, w
<1>3. run_context(c, d, w, p) =
        [env     |-> IF d.d = "env" THEN With(EnvAt(p), d.k, w) ELSE EnvAt(p),
         shell   |-> IF d.d = "shell" THEN IF d.v = "none" THEN "sh" ELSE d.v ELSE ShellAt(p),
         user    |-> IF d.d = "user" THEN w ELSE UserAt(p),
         workdir |-> IF d.d = "workdir" THEN resolve_workdir(WorkdirAt(p), w, p) ELSE WorkdirAt(p)]
  BY RunContextIs
<1> HIDE DEF c
<1>4. ContextAt(p + 1) = run_context(c, d, w, p)
  BY <1>1, <1>2, <1>3, Zenon
<1>5. QED
  BY <1>2, <1>4 DEF d, w

(* What a RUN is given, by its fields.                                     *)
LEMMA GivenIs ==
    ASSUME NEW p
    PROVE  /\ GivenAt(p) = [ContextAt(p) EXCEPT !.env = GivenAt(p).env]
           /\ DOMAIN GivenAt(p) = DOMAIN NoCtx
           /\ GivenAt(p).env = IF ContextAt(p).env = Void /\ Said("run", p) = {} THEN shape.left
                               ELSE ContextAt(p).env
BY DEF GivenAt, ContextAt, NoCtx

(* What a recipe says depends on the recipe alone.                         *)
LEMMA SameRecipe ==
    ASSUME recipe' = recipe
    PROVE  /\ \A d : Is(d)' = Is(d)
           /\ \A d, p : Said(d, p)' = Said(d, p)
           /\ \A p : Declared(p)' = Declared(p)
           /\ \A p : VarAt(p)' = VarAt(p)
           /\ \A p : ContextAt(p)' = ContextAt(p)
           /\ \A p, v : RunsAt(p, v)' = RunsAt(p, v)
           /\ \A P : RemovedBy(P)' = RemovedBy(P)
           /\ FromRef' = FromRef /\ pick_flavor' = pick_flavor
           /\ pick_entrypoint' = pick_entrypoint /\ pick_init_system' = pick_init_system
<1>1. \A d : Is(d)' = Is(d)
  BY DEF Is
<1>2. \A d, p : Said(d, p)' = Said(d, p)
  BY DEF Said, Is
<1>3. \A p : Declared(p)' = Declared(p)
  BY DEF Declared, Is
<1>4. \A p : VarAt(p)' = VarAt(p)
  BY <1>3 DEF VarAt
<1>5. \A p : ValueAt(p)' = ValueAt(p)
  BY <1>3, <1>4 DEF ValueAt
<1>6. \A p : ShellAt(p)' = ShellAt(p) /\ UserAt(p)' = UserAt(p) /\ WorkdirAt(p)' = WorkdirAt(p)
  BY <1>2, <1>5 DEF ShellAt, UserAt, WorkdirAt
<1>7. \A p : EnvAt(p)' = EnvAt(p)
  BY <1>2, <1>5 DEF EnvAt
<1>8. \A p : ContextAt(p)' = ContextAt(p)
  BY <1>6, <1>7 DEF ContextAt
<1>9. /\ \A p, v : RunsAt(p, v)' = RunsAt(p, v)
      /\ \A P : RemovedBy(P)' = RemovedBy(P)
  BY <1>2, <1>5 DEF RunsAt, RemovedBy, Gone
<1>10. FromRef' = FromRef
  BY DEF FromRef, resolve_global_args
<1>11. pick_flavor' = pick_flavor
  BY DEF pick_flavor, FlavorLabels, Is
<1>12. pick_entrypoint' = pick_entrypoint
  BY DEF pick_entrypoint, Is
<1>13. pick_init_system' = pick_init_system
  BY <1>12 DEF pick_init_system
<1>14. QED
  BY <1>1, <1>2, <1>3, <1>4, <1>8, <1>9, <1>10, <1>11, <1>12, <1>13

(* What the guests of a recipe are given depends on it and on what was     *)
(* left in the tree before the first of them.                              *)
LEMMA SameGiven ==
    ASSUME recipe' = recipe, shape'.left = shape.left
    PROVE  /\ \A p : GivenAt(p)' = GivenAt(p)
           /\ \A p : RanBefore(p)' = RanBefore(p)
           /\ \A p : FileAt(p)' = FileAt(p)
<1>1. \A p : ContextAt(p)' = ContextAt(p) /\ Said("run", p)' = Said("run", p) /\ Void' = Void
  BY SameRecipe DEF Void
<1>2. \A p : GivenAt(p)' = GivenAt(p)
  BY <1>1 DEF GivenAt
<1>3. QED
  BY <1>1, <1>2 DEF RanBefore, FileAt
----------------------------------------------------------------------------
(* Steps.                                                                  *)

Points == {"start", "probe", "preflight", "validate", "resolve", "decide", "walk",
           "run", "built", "failed", "container"}

(* A step within a build keeps the types when the values it gives have     *)
(* theirs.                                                                 *)
LEMMA TypeStep ==
    ASSUME TypeOK, cur' = cur, recipe' = recipe, pc' \in Points,
           pos' \in 1..(Len(recipe.dirs) + 1),
           \A r \in DOMAIN layout' : IsImage(layout'[r]),
           vm' \in {"none", "staged", "up", "off", "faulted"}, net' \in BOOLEAN, qemu' \in BOOLEAN,
           IsTree(tree'), \A r \in ran' : r[1] \in Is("run") /\ DOMAIN r[2] = DOMAIN NoCtx
    PROVE  TypeOK'
<1>1. cur' \in DOMAIN Recipes /\ recipe' \in Recipes[cur'] \cup {Fresh.recipe}
  BY DEF TypeOK, Fresh
<1>2. Fresh' = Fresh
  BY DEF Fresh, Void
<1>3. \A r \in ran' : r[1] \in Is("run")' /\ DOMAIN r[2] = DOMAIN NoCtx'
  BY SameRecipe DEF NoCtx, Void
<1>4. QED
  BY <1>1, <1>2, <1>3 DEF TypeOK, Points

(* A step within a build keeps the types.                                   *)
LEMMA TypeKept ==
    ASSUME TypeOK, cur' = cur, recipe' = recipe, pc' \in Points,
           pos' \in 1..(Len(recipe.dirs) + 1),
           \A r \in DOMAIN layout' : IsImage(layout'[r]),
           vm' \in {"none", "staged", "up", "off", "faulted"}, net' \in BOOLEAN, qemu' \in BOOLEAN,
           IsTree(tree'), ran' = ran
    PROVE  TypeOK'
<1>1. \A r \in ran' : r[1] \in Is("run") /\ DOMAIN r[2] = DOMAIN NoCtx
  BY DEF TypeOK
<1>2. QED
  BY <1>1, TypeStep

(* Without a guest there is nothing to confine.                            *)
LEMMA NoGuest ==
    ASSUME vm' = "none", net' = FALSE
    PROVE  GuestConfined'
BY DEF GuestConfined

(* There is a guest during a RUN only.                                     *)
LEMMA GuestInRun ==
    ASSUME BootInv, pc # "run"
    PROVE  vm = "none" /\ net = FALSE
BY DEF BootInv, TypeOK, GuestConfined

(* Outside of the second walk and its end.                                 *)
LEMMA Elsewhere ==
    ASSUME pc' \notin {"run", "built"}
    PROVE  RunOK' /\ TreeOK' /\ Promises'
BY DEF RunOK, TreeOK, Promises, EmittedMeansRan, SilenceKeepsBase, ImageTrue, ManifestTrue,
       ExposeEnforcedIfStated, ExposeEnforced, Emitted

(* The empty tree is one.                                                  *)
LEMMA VoidTree == IsTree(Void)
BY VoidIs DEF IsTree

(* The operators on functions make trees of trees.                          *)
LEMMA WithTree ==
    ASSUME NEW t, IsTree(t), NEW a, NEW b, NEW v
    PROVE  IsTree(With(t, <<a, b>>, v))
<1>1. DOMAIN With(t, <<a, b>>, v) = DOMAIN t \cup {<<a, b>>}
  BY DEF With
<1>2. <<a, b>>[1] = a /\ <<a, b>>[2] = b
  OBVIOUS
<1>3. QED
  BY <1>1, <1>2 DEF IsTree

(* A path of one directory is not among those of another.                  *)
LEMMA WithApart ==
    ASSUME NEW t, NEW a, NEW b, NEW v, NEW c, NEW w, c # a
    PROVE  <<c, w>> \in DOMAIN With(t, <<a, b>>, v) <=> <<c, w>> \in DOMAIN t
<1>1. <<c, w>> # <<a, b>>
  OBVIOUS
<1>2. QED
  BY <1>1 DEF With

LEMMA OverTree ==
    ASSUME NEW t, NEW u, IsTree(t), IsTree(u)
    PROVE  IsTree(Over(t, u))
BY DEF IsTree, Over

LEMMA WithoutTree ==
    ASSUME NEW t, NEW S, IsTree(t)
    PROVE  IsTree(Without(t, S))
BY DEF IsTree, Without

(* A build that fails drops its tree and its guest, and keeps what it has  *)
(* pulled.                                                                 *)
LEMMA FailKeeps ==
    ASSUME Inductive, Fail, UNCHANGED <<cur, qemu, recipe, pos, shape, ran>>,
           \A r \in DOMAIN layout' : IsImage(layout'[r])
    PROVE  Inductive'
<1>1. pc' = "failed" /\ tree' = Void /\ vm' = "none" /\ net' = FALSE
  BY DEF Fail
<1>2. IsTree(tree')
  BY <1>1, VoidTree
<1>3. TypeOK'
  <2>1. TypeOK /\ pc' \in Points /\ pos' \in 1..(Len(recipe.dirs) + 1) /\ qemu' \in BOOLEAN
    BY <1>1 DEF Inductive, BootInv, TypeOK, Points
  <2>2. QED
    BY <1>1, <1>2, <2>1, TypeKept
<1>4. BootInv'
  BY <1>1, <1>3, NoGuest DEF BootInv
<1>5. Begun'
  BY <1>1 DEF Inductive, Begun
<1>6. FromOK' /\ ShapeOK'
  BY <1>1 DEF FromOK, ShapeOK
<1>7. QED
  BY <1>1, <1>4, <1>5, <1>6, Elsewhere DEF Inductive

(* resolve_layers: what it leaves in the layout are images, and what it    *)
(* has found is there.                                                     *)
LEMMA ResolveIs ==
    ASSUME TypeOK, NEW checked, NEW ref, NEW o \in resolve_layers(checked, ref)
    PROVE  /\ \A r \in DOMAIN o[1] : IsImage(o[1][r])
           /\ o[2] => canonical(ref) \in DOMAIN o[1]
<1>1. CASE Cached(checked, ref)
  <2>1. o = <<layout, TRUE>> /\ canonical(ref) \in DOMAIN layout
    BY <1>1 DEF resolve_layers, Cached
  <2>2. QED
    BY <2>1 DEF TypeOK
<1>2. CASE o = <<layout, FALSE>>
  BY <1>2 DEF TypeOK
<1>3. CASE CanPull(ref) /\ o = <<Pulled(ref), Passes(checked, Published[canonical(ref)])>>
  <2>1. o[1] = With(layout, canonical(ref), Published[canonical(ref)])
    BY <1>3 DEF Pulled
  <2>2. IsImage(Published[canonical(ref)])
    BY <1>3, BootableAssumption DEF CanPull
  <2>3. DOMAIN o[1] = DOMAIN layout \cup {canonical(ref)}
    BY <2>1 DEF With
  <2>4. \A r \in DOMAIN o[1] : IsImage(o[1][r])
    <3> SUFFICES ASSUME NEW r \in DOMAIN o[1] PROVE IsImage(o[1][r])
      OBVIOUS
    <3>1. o[1][r] = IF r = canonical(ref) THEN Published[canonical(ref)] ELSE layout[r]
      BY <2>1, <2>3 DEF With
    <3>2. CASE r = canonical(ref)
      BY <2>2, <3>1, <3>2
    <3>3. CASE r # canonical(ref)
      BY <2>3, <3>1, <3>3 DEF TypeOK
    <3>4. QED
      BY <3>2, <3>3
  <2>5. QED
    BY <2>3, <2>4
<1>4. QED
  BY <1>1, <1>2, <1>3 DEF resolve_layers

(* A step of the build before its second walk that does not fail.  What it *)
(* says of the base and of the shape is left to it.                        *)
LEMMA EarlyKeeps ==
    ASSUME Inductive, pc # "run", UNCHANGED <<cur, recipe, vm, net, ran>>,
           pc' \in Points \ {"start", "run", "built"},
           pc \in {"probe", "preflight", "validate", "resolve", "decide", "walk"},
           pos' \in 1..(Len(recipe.dirs) + 1), qemu' \in BOOLEAN, IsTree(tree'),
           {"flavor", "entry", "kernel", "left"} \subseteq DOMAIN shape',
           \A r \in DOMAIN layout' : IsImage(layout'[r]),
           FromOK', ShapeOK'
    PROVE  Inductive'
<1>1. TypeOK /\ vm = "none" /\ net = FALSE
  BY GuestInRun DEF Inductive, BootInv
<1>2. TypeOK'
  BY <1>1, TypeKept DEF Points
<1>3. BootInv'
  BY <1>1, <1>2, NoGuest DEF BootInv
<1>4. Begun'
  BY DEF Inductive, Begun, Points
<1>5. QED
  BY <1>3, <1>4, Elsewhere DEF Inductive, Points

(* Every action keeps the invariant, one lemma each.                        *)
LEMMA StartKeeps ==
    ASSUME Inductive, NEW r \in Recipes[cur], Start(r)
    PROVE  Inductive'
<1>1. TypeOK /\ vm = "none" /\ net = FALSE /\ recipe = Fresh.recipe /\ ran = {}
  BY GuestInRun DEF Inductive, BootInv, Begun, Start
<1>2. pc' = "probe" /\ recipe' = r /\ UNCHANGED <<layout, cur, pos, shape, tree, vm, net, ran>>
  BY DEF Start, Goto
<1>3. qemu' \in BOOLEAN
  BY BootableAssumption DEF Start
<1>4. pos = 1
  <2>1. Fresh.recipe.dirs = <<>>
    BY DEF Fresh
  <2>2. pos \in 1..(0 + 1)
    BY <1>1, <2>1 DEF TypeOK
  <2>3. QED
    BY <2>2
<1>5. pos' \in 1..(Len(recipe'.dirs) + 1)
  <2>1. Recipes[cur] \subseteq AnyRecipe
    BY <1>1, BootableAssumption DEF TypeOK
  <2>2. r.dirs \in Seq(AnyDirective)
    BY <2>1 DEF AnyRecipe
  <2>3. QED
    BY <1>2, <1>4, <2>2
<1>6. TypeOK'
  BY <1>1, <1>2, <1>3, <1>5 DEF TypeOK, Fresh, NoCtx, Void
<1>7. BootInv'
  BY <1>1, <1>2, <1>6, NoGuest DEF BootInv
<1>8. Begun' /\ FromOK' /\ ShapeOK'
  BY <1>1, <1>2 DEF Inductive, Begun, FromOK, ShapeOK
<1>9. QED
  BY <1>2, <1>7, <1>8, Elsewhere DEF Inductive

LEMMA ProbeKeeps ==
    ASSUME Inductive, probe_bootable
    PROVE  Inductive'
<1>1. TypeOK /\ pc = "probe" /\ pc' \in {"container", "preflight"}
  BY DEF Inductive, BootInv, probe_bootable, Goto
<1>2. \A r \in DOMAIN layout' : IsImage(layout'[r])
  <2>1. CASE recipe.from = "scratch"
    BY <1>1, <2>1 DEF probe_bootable, TypeOK
  <2>2. CASE recipe.from # "scratch"
    <3>1. PICK o \in resolve_layers(FALSE, recipe.from) : layout' = o[1]
      BY <2>2 DEF probe_bootable
    <3>2. QED
      BY <1>1, <3>1, ResolveIs
  <2>3. QED
    BY <2>1, <2>2
<1>3. FromOK' /\ ShapeOK'
  BY <1>1 DEF FromOK, ShapeOK
<1>4. QED
  BY <1>1, <1>2, <1>3, EarlyKeeps DEF probe_bootable, Inductive, Begun, TypeOK, Points

LEMMA PreflightKeeps ==
    ASSUME Inductive, verify_requirements
    PROVE  Inductive'
<1>1. TypeOK /\ pc = "preflight" /\ UNCHANGED <<layout, cur, qemu, recipe, pos, shape, ran>>
  BY DEF Inductive, BootInv, verify_requirements
<1>2. CASE Fail
  BY <1>1, <1>2, FailKeeps DEF TypeOK
<1>3. CASE pc' = "validate" /\ UNCHANGED <<tree, vm, net>>
  <2>1. FromOK' /\ ShapeOK'
    BY <1>3 DEF FromOK, ShapeOK
  <2>2. QED
    BY <1>1, <1>3, <2>1, EarlyKeeps DEF Inductive, Begun, TypeOK, Points
<1>4. QED
  BY <1>2, <1>3 DEF verify_requirements, Goto

LEMMA ValidateKeeps ==
    ASSUME Inductive, validate_ast_for_vm
    PROVE  Inductive'
<1>1. TypeOK /\ pc = "validate" /\ UNCHANGED <<layout, cur, qemu, recipe, pos, shape, ran>>
  BY DEF Inductive, BootInv, validate_ast_for_vm
<1>2. CASE Fail
  BY <1>1, <1>2, FailKeeps DEF TypeOK
<1>3. CASE pc' = "resolve" /\ UNCHANGED <<tree, vm, net>>
  <2>1. FromOK' /\ ShapeOK'
    BY <1>3 DEF FromOK, ShapeOK
  <2>2. QED
    BY <1>1, <1>3, <2>1, EarlyKeeps DEF Inductive, Begun, TypeOK, Points
<1>4. QED
  BY <1>2, <1>3 DEF validate_ast_for_vm, Goto

(* The base that is resolved is what its canonical name stands for.        *)
LEMMA FromKeeps ==
    ASSUME Inductive, resolve_from_kernel
    PROVE  Inductive'
<1>1. TypeOK /\ pc = "resolve" /\ UNCHANGED <<cur, qemu, recipe, pos, shape, ran>>
  BY DEF Inductive, BootInv, resolve_from_kernel
<1>2. PICK o \in resolve_layers(TRUE, FromRef) :
        /\ layout' = o[1]
        /\ IF o[2] THEN /\ Goto("decide") /\ from' = layout'[canonical(FromRef)]
                        /\ UNCHANGED <<tree, vm, net>>
                   ELSE Fail /\ UNCHANGED from
  BY DEF resolve_from_kernel
<1>3. /\ \A r \in DOMAIN layout' : IsImage(layout'[r])
      /\ o[2] => canonical(FromRef) \in DOMAIN layout'
  BY <1>1, <1>2, ResolveIs
<1>4. CASE ~ o[2]
  BY <1>1, <1>2, <1>3, <1>4, FailKeeps
<1>5. CASE o[2]
  <2>1. /\ pc' = "decide" /\ from' = layout'[canonical(FromRef)] /\ UNCHANGED <<tree, vm, net>>
        /\ canonical(FromRef) \in DOMAIN layout' /\ FromRef' = FromRef
    BY <1>1, <1>2, <1>3, <1>5, SameRecipe DEF Goto
  <2>2. FromOK'
    BY <1>3, <2>1 DEF FromOK, canonical
  <2>3. ShapeOK'
    BY <2>1 DEF ShapeOK
  <2>4. QED
    BY <1>1, <1>3, <2>1, <2>2, <2>3, EarlyKeeps DEF Inductive, Begun, TypeOK, Points
<1>6. QED
  BY <1>4, <1>5

(* decide_shape: what the recipe leaves open comes from the base.          *)
LEMMA DecideKeeps ==
    ASSUME Inductive, decide_shape
    PROVE  Inductive'
<1>1. TypeOK /\ pc = "decide" /\ UNCHANGED <<layout, cur, qemu, recipe, pos, from, ran>>
  BY DEF Inductive, BootInv, decide_shape
<1>2. CASE DecidedEntrypoint = "error"
  BY <1>1, <1>2, FailKeeps DEF decide_shape, TypeOK
<1>3. CASE DecidedEntrypoint # "error"
  <2>1. /\ shape' = [shape EXCEPT !.flavor = DecidedFlavor, !.entry = DecidedEntrypoint]
        /\ pc' = "walk" /\ UNCHANGED <<tree, vm, net>>
    BY <1>3 DEF decide_shape, Goto
  <2>2. {"flavor", "entry", "kernel", "left"} \subseteq DOMAIN shape
    BY DEF Inductive, Begun
  <2>3. /\ shape'.flavor = DecidedFlavor /\ shape'.entry = DecidedEntrypoint
        /\ {"flavor", "entry", "kernel", "left"} \subseteq DOMAIN shape'
    BY <2>1, <2>2
  <2>4. FromOK'
    BY <1>1, <2>1 DEF Inductive, FromOK
  <2>5. ShapeOK'
    <3>1. /\ FromRef' = FromRef /\ pick_flavor' = pick_flavor
          /\ pick_entrypoint' = pick_entrypoint /\ from' = from
      BY <1>1, SameRecipe
    <3>2. pick_entrypoint # "unset" => shape'.entry = pick_entrypoint
      BY <2>3 DEF DecidedEntrypoint
    <3>3. ASSUME from.kind = "bootable", FromRef \notin DOMAIN Alias
          PROVE  /\ pick_flavor = "defaulted" /\ "flavor" \in DOMAIN from.labels =>
                       shape'.flavor = from.labels["flavor"]
                 /\ pick_entrypoint = "unset" =>
                       /\ "entrypoint" \in DOMAIN from.labels
                       /\ shape'.entry = inherited_entrypoint(from) /\ shape'.entry # "error"
      <4>1. FromRef \in DOMAIN layout /\ from = layout[FromRef]
        BY <1>1, <3>3 DEF Inductive, FromOK
      <4>2. Base = {from}
        BY <3>3, <4>1 DEF Base, introspect_for_platform
      <4>3. (CHOOSE b \in Base : TRUE) = from
        BY <4>2
      <4>4. pick_flavor = "defaulted" /\ "flavor" \in DOMAIN from.labels =>
              DecidedFlavor = from.labels["flavor"]
        BY <4>2, <4>3 DEF DecidedFlavor
      <4>5. pick_entrypoint = "unset" => DecidedEntrypoint = inherited_entrypoint(from)
        BY <4>2, <4>3 DEF DecidedEntrypoint
      <4>6. pick_entrypoint = "unset" => "entrypoint" \in DOMAIN from.labels
        BY <1>3, <4>5 DEF inherited_entrypoint
      <4>7. QED
        BY <1>3, <2>3, <4>4, <4>5, <4>6
    <3>4. inherited_entrypoint(from)' = inherited_entrypoint(from)
      BY <3>1 DEF inherited_entrypoint
    <3>5. QED
      BY <3>1, <3>2, <3>3, <3>4 DEF ShapeOK
  <2>6. QED
    BY <1>1, <2>1, <2>3, <2>4, <2>5, EarlyKeeps DEF Inductive, TypeOK, Points
<1>4. QED
  BY <1>2, <1>3

(* The base and the shape stay as they are along both walks.               *)
LEMMA BaseStays ==
    ASSUME Inductive, UNCHANGED <<recipe, from>>,
           shape'.flavor = shape.flavor, shape'.entry = shape.entry,
           pc \in {"walk", "run"}, pc' \in {"walk", "run", "built"}
    PROVE  FromOK' /\ ShapeOK'
<1>1. /\ FromRef' = FromRef /\ pick_flavor' = pick_flavor
      /\ pick_entrypoint' = pick_entrypoint
  BY SameRecipe
<1>2. FromOK'
  BY DEF Inductive, FromOK
<1>3. inherited_entrypoint(from)' = inherited_entrypoint(from)
  BY DEF inherited_entrypoint
<1>4. ShapeOK /\ pc \in {"walk", "run", "built"}
  BY DEF Inductive
<1>5. ShapeOK'
  BY <1>1, <1>3, <1>4 DEF ShapeOK
<1>6. QED
  BY <1>2, <1>5

(* One more directive of the first walk, with what it adds to the tree.    *)
LEMMA WalksOn ==
    ASSUME Inductive, pc = "walk", pc' = "walk", pos <= Len(recipe.dirs), pos' = pos + 1,
           UNCHANGED <<cur, qemu, recipe, from, shape, vm, net, ran>>, IsTree(tree'),
           \A r \in DOMAIN layout' : IsImage(layout'[r])
    PROVE  Inductive'
<1>1. TypeOK /\ qemu' \in BOOLEAN
  BY DEF Inductive, BootInv, TypeOK
<1>2. pos' \in 1..(Len(recipe.dirs) + 1)
  BY <1>1, RecipeType DEF TypeOK
<1>3. {"flavor", "entry", "kernel", "left"} \subseteq DOMAIN shape'
  BY DEF Inductive, Begun
<1>4. FromOK' /\ ShapeOK'
  BY BaseStays
<1>5. pc' \in Points \ {"start", "run", "built"}
  BY DEF Points
<1>6. QED
  BY <1>1, <1>2, <1>3, <1>4, <1>5, EarlyKeeps

LEMMA MetadataKeeps ==
    ASSUME Inductive, walk_metadata
    PROVE  Inductive'
<1>1. /\ IsTree(tree') /\ \A r \in DOMAIN layout' : IsImage(layout'[r])
  BY DEF Inductive, BootInv, TypeOK, walk_metadata
<1>2. QED
  BY <1>1, WalksOn DEF walk_metadata, Walking

(* ADD of an image: pulled or not, what it adds is a tree.                 *)
LEMMA AddImageKeeps ==
    ASSUME Inductive, add_image
    PROVE  Inductive'
<1> DEFINE ref == subst_with(scope, Now.v)
<1>1. /\ TypeOK /\ pc = "walk" /\ pos <= Len(recipe.dirs) /\ IsTree(tree)
      /\ UNCHANGED <<cur, qemu, recipe, from, shape, ran>>
  BY DEF Inductive, BootInv, TypeOK, add_image, Walking
<1>2. PICK o \in resolve_layers(FALSE, ref) :
        /\ layout' = o[1]
        /\ IF o[2] THEN /\ tree' = Over(tree, layout'[canonical(ref)].tree) /\ pos' = pos + 1
                        /\ UNCHANGED <<pc, vm, net>>
                   ELSE Fail /\ UNCHANGED pos
  BY DEF add_image
<1> HIDE DEF ref
<1>3. /\ \A r \in DOMAIN layout' : IsImage(layout'[r])
      /\ o[2] => canonical(ref) \in DOMAIN layout'
  BY <1>1, <1>2, ResolveIs
<1>4. CASE ~ o[2]
  BY <1>1, <1>2, <1>3, <1>4, FailKeeps
<1>5. CASE o[2]
  <2>1. IsTree(layout'[canonical(ref)].tree)
    BY <1>3, <1>5 DEF IsImage
  <2>2. IsTree(tree')
    BY <1>1, <1>2, <1>5, <2>1, OverTree
  <2>3. QED
    BY <1>1, <1>2, <1>3, <1>5, <2>2, WalksOn
<1>6. QED
  BY <1>4, <1>5

(* The other ADDs: laid down or refused.                                   *)
LEMMA LaidKeeps ==
    ASSUME Inductive, pc = "walk", pos <= Len(recipe.dirs), NEW n, NEW k,
           UNCHANGED <<layout, cur, qemu, recipe, from, shape, ran>>,
           \/ Reachable(n, k) /\ Laid(n)
           \/ Fail /\ UNCHANGED pos
    PROVE  Inductive'
<1>1. IsTree(tree) /\ \A r \in DOMAIN layout' : IsImage(layout'[r])
  BY DEF Inductive, BootInv, TypeOK
<1>2. CASE Reachable(n, k) /\ Laid(n)
  <2>1. IsTree(Source[n].tree)
    BY <1>2, BootableAssumption DEF Reachable
  <2>2. IsTree(tree')
    BY <1>1, <1>2, <2>1, OverTree DEF Laid
  <2>3. QED
    BY <1>1, <1>2, <2>2, WalksOn DEF Laid
<1>3. CASE Fail /\ UNCHANGED pos
  BY <1>1, <1>3, FailKeeps
<1>4. QED
  BY <1>2, <1>3

LEMMA AddPathKeeps ==
    ASSUME Inductive, add_into_staging
    PROVE  Inductive'
<1> DEFINE n == subst_with(scope, Now.v)
<1>1. \/ Reachable(n, Now.k) /\ Laid(n)
      \/ Fail /\ UNCHANGED pos
  BY DEF add_into_staging
<1> HIDE DEF n
<1>2. QED
  BY <1>1, LaidKeeps DEF add_into_staging, Walking

LEMMA AddUrlKeeps ==
    ASSUME Inductive, NEW f \in BOOLEAN, add_url_into_staging(f)
    PROVE  Inductive'
<1> DEFINE n == subst_with(scope, Now.v)
<1>1. \/ Reachable(n, "url") /\ Laid(n)
      \/ Fail /\ UNCHANGED pos
  BY DEF add_url_into_staging
<1> HIDE DEF n
<1>2. QED
  BY <1>1, LaidKeeps DEF add_url_into_staging, Walking

(* The second walk.                                                        *)

(* A step into or along it, given what it says of the guest and the tree.  *)
LEMMA RunsOn ==
    ASSUME Inductive, pc \in {"walk", "run"}, pc' = "run",
           UNCHANGED <<layout, cur, qemu, recipe, from>>,
           shape'.flavor = shape.flavor, shape'.entry = shape.entry,
           {"flavor", "entry", "kernel", "left"} \subseteq DOMAIN shape',
           pos' \in 1..(Len(recipe.dirs) + 1),
           vm' \in {"none", "staged", "up", "off", "faulted"}, net' \in BOOLEAN, IsTree(tree'),
           \A r \in ran' : r[1] \in Is("run") /\ DOMAIN r[2] = DOMAIN NoCtx,
           GuestConfined', RunOK', TreeOK'
    PROVE  Inductive'
<1>1. TypeOK /\ qemu' \in BOOLEAN /\ \A r \in DOMAIN layout' : IsImage(layout'[r])
  BY DEF Inductive, BootInv, TypeOK
<1>2. TypeOK'
  BY <1>1, TypeStep DEF Points
<1>3. BootInv'
  BY <1>2 DEF BootInv
<1>4. Begun'
  BY DEF Begun
<1>5. FromOK' /\ ShapeOK'
  BY BaseStays
<1>6. Promises'
  BY DEF Promises, EmittedMeansRan, SilenceKeepsBase, ImageTrue, ManifestTrue,
         ExposeEnforcedIfStated, ExposeEnforced, Emitted
<1>7. QED
  BY <1>3, <1>4, <1>5, <1>6 DEF Inductive

(* What a step takes of the kernel and the firewall is what a RUN removes, *)
(* and only a recipe with a RUN may gain another kernel.                   *)
LEMMA TreeStays ==
    ASSUME TypeOK, TreeOK, pc = "run", UNCHANGED <<recipe, from, shape>>, IsTree(tree'),
           NEW P, P = RunsAt(pos', vm'), RunsAt(pos, vm) \subseteq P,
           \A a \in {"vmlinuz", "modules", "bin", "etc", "enabled"} :
              \A b : <<a, b>> \in DOMAIN tree => <<a, b>> \in DOMAIN tree' \cup RemovedBy(P),
           <<"vmlinuz", shape.kernel.vmlinuz>> \in DOMAIN tree' \cup RemovedBy(Latest(P)),
           vm' = "up" => <<"vmlinuz", shape.kernel.vmlinuz>> \in DOMAIN tree',
           \/ Is("run") # {}
           \/ \A a \in {"vmlinuz", "modules"} :
                 \A b : <<a, b>> \in DOMAIN tree' => <<a, b>> \in DOMAIN tree
    PROVE  TreeOK'
<1> DEFINE O == RunsAt(pos, vm)
<1>1. /\ Is("run")' = Is("run") /\ Is("expose")' = Is("expose")
      /\ pick_init_system' = pick_init_system
      /\ \A p, v : RunsAt(p, v)' = RunsAt(p, v)
      /\ \A R : RemovedBy(R)' = RemovedBy(R)
  BY SameRecipe
<1>2. KernelOK(tree, O) /\ FirewallOK(tree, O) /\ IsTree(tree)
  BY DEF TreeOK, TypeOK
<1>3. RunsAt(pos, vm)' = P
  BY <1>1
<1>4. RemovedBy(O) \subseteq RemovedBy(P)
  BY DEF RemovedBy
<1> HIDE DEF O
<1>5. KernelOK(tree, P)'
  <2>1. <<"modules", shape.kernel.release>> \in DOMAIN tree' \cup RemovedBy(P)
    BY <1>2, <1>4 DEF KernelOK
  <2>2. ASSUME Is("run") = {}, Paired(tree') PROVE Paired(tree)
    BY <1>2, <2>2, PairedSame
  <2>3. Paired(from.tree)' = Paired(from.tree) /\ Paired(tree)' = Paired(tree')
    BY DEF Paired, Rels
  <2>4. Paired(from.tree)' \/ (Is("run")' = {} /\ Paired(tree)') =>
          shape.kernel.vmlinuz = shape.kernel.release
    BY <1>1, <1>2, <2>2, <2>3 DEF KernelOK
  <2>5. RemovedBy(P)' = RemovedBy(P) /\ RemovedBy(Latest(P))' = RemovedBy(Latest(P))
    BY <1>1 DEF Latest
  <2>6. QED
    BY <2>1, <2>4, <2>5 DEF KernelOK
<1>6. FirewallOK(tree, P)'
  <2>1. RemovedBy(P)' = RemovedBy(P)
    BY <1>1
  <2>2. QED
    BY <1>1, <1>2, <1>4, <2>1 DEF FirewallOK
<1>7. QED
  BY <1>3, <1>5, <1>6 DEF TreeOK, KernelThere

(* A step that stays at its directive.                                     *)
LEMMA RunStays ==
    ASSUME Inductive, pc = "run", UNCHANGED <<recipe, pos, scope, ctx, shape>>, vm' # "none",
           ran' = RanBefore(pos) \cup (IF Completed' THEN {<<pos, GivenAt(pos)>>} ELSE {}),
           vm' \in {"staged", "up"} => /\ <<"umf", "exit">> \notin DOMAIN tree'
                                       /\ Sourced(tree') = GivenAt(pos).env
    PROVE  RunOK'
<1>1. /\ \A p : Declared(p)' = Declared(p)
      /\ \A p : VarAt(p)' = VarAt(p)
      /\ \A p : ContextAt(p)' = ContextAt(p)
      /\ \A p : RanBefore(p)' = RanBefore(p)
      /\ \A p : GivenAt(p)' = GivenAt(p)
  BY SameRecipe, SameGiven
<1>2. ScopeAt(scope, pos) /\ ctx = ContextAt(pos)
  BY DEF Inductive, RunOK
<1>3. ScopeAt(scope, pos)'
  BY <1>1, <1>2 DEF ScopeAt
<1>4. FileOK'
  <2>1. Sourced(tree)' = Sourced(tree')
    BY DEF Sourced, Void
  <2>2. QED
    BY <1>1, <2>1 DEF FileOK
<1>5. QED
  BY <1>1, <1>2, <1>3, <1>4 DEF RunOK

(* A step that goes on to the next one, with no guest.                     *)
LEMMA RunMoves ==
    ASSUME Inductive, pc = "run", pos \in DOMAIN recipe.dirs, recipe' = recipe, pos' = pos + 1,
           scope' = IF Now.d = "arg" THEN apply_arg_to_scope(scope, Now) ELSE scope,
           ctx' = run_context(ctx, Now, ValueAt(pos), pos), shape' = shape,
           ran' = RanBefore(pos + 1), vm' = "none", Sourced(tree') = FileAt(pos + 1)
    PROVE  RunOK'
<1>1. /\ \A p : Declared(p)' = Declared(p)
      /\ \A p : VarAt(p)' = VarAt(p)
      /\ \A p : ContextAt(p)' = ContextAt(p)
      /\ \A p : RanBefore(p)' = RanBefore(p)
      /\ \A p : FileAt(p)' = FileAt(p)
  BY SameRecipe, SameGiven
<1>2. TypeOK /\ ScopeAt(scope, pos) /\ ctx = ContextAt(pos)
  BY DEF Inductive, BootInv, RunOK
<1>3. ctx' = ContextAt(pos + 1)
  BY <1>2, ContextNext DEF Now
<1>4. ScopeAt(scope', pos + 1)
  BY <1>2, ScopeNext DEF Now
<1>5. ScopeAt(scope, pos)'
  BY <1>1, <1>4 DEF ScopeAt
<1>6. ~ Completed'
  BY DEF Completed
<1>7. FileOK'
  <2>1. Sourced(tree)' = Sourced(tree')
    BY DEF Sourced, Void
  <2>2. QED
    BY <1>1, <2>1 DEF FileOK
<1>8. QED
  BY <1>1, <1>3, <1>5, <1>6, <1>7 DEF RunOK

(* unpack_kernel: the kernel is one of the tree, and a firewall that would *)
(* not be loaded has been refused.                                         *)
LEMMA UnpackKeeps ==
    ASSUME Inductive, unpack_kernel
    PROVE  Inductive'
<1> DEFINE t == Over(tree, from.tree)
<1>1. /\ TypeOK /\ pc = "walk" /\ IsTree(tree) /\ ran = {} /\ vm = "none" /\ net = FALSE
      /\ UNCHANGED <<layout, cur, qemu, recipe, from, ran>>
      /\ \A r \in DOMAIN layout : IsImage(layout[r])
  BY GuestInRun DEF Inductive, BootInv, TypeOK, Begun, unpack_kernel
<1>2. IsImage(from)
  BY <1>1 DEF Inductive, FromOK
<1>3. IsTree(from.tree) /\ IsTree(t)
  BY <1>1, <1>2, OverTree DEF IsImage
<1>4. CASE detect_kernel_layout(t) = {} \/ EntrypointNone \/ Unenforceable(t)
  <2>1. Fail /\ UNCHANGED <<pos, shape>>
    BY <1>4 DEF unpack_kernel
  <2>2. QED
    BY <1>1, <2>1, FailKeeps
<1>5. CASE ~ (detect_kernel_layout(t) = {} \/ EntrypointNone \/ Unenforceable(t))
  <2>1. PICK k \in detect_kernel_layout(t) :
          shape' = [shape EXCEPT !.kernel = k, !.left = Sourced(t)]
    BY <1>5 DEF unpack_kernel
  <2>2. /\ tree' = apply_runtime_config(t) /\ pos' = 1 /\ scope' = resolve_global_args
        /\ ctx' = NoCtx /\ pc' = "run" /\ UNCHANGED <<vm, net>> /\ ~ Unenforceable(t)
    BY <1>5 DEF unpack_kernel, Goto
  <2> HIDE DEF t
  <2>3. /\ shape'.flavor = shape.flavor /\ shape'.entry = shape.entry /\ shape'.kernel = k
        /\ shape'.left = Sourced(t) /\ {"flavor", "entry", "kernel", "left"} \subseteq DOMAIN shape'
    BY <2>1 DEF Inductive, Begun
  <2>4. /\ IsTree(tree')
        /\ DOMAIN tree' = DOMAIN t \cup
             (IF Is("expose") = {} THEN {}
              ELSE {<<"etc", "nftables">>, <<"enabled", pick_init_system>>})
        /\ Sourced(tree') = Sourced(t)
    <3>1. CASE Is("expose") = {}
      BY <1>3, <2>2, <3>1 DEF apply_runtime_config
    <3>2. CASE Is("expose") # {}
      <4>1. tree' = With(With(t, <<"etc", "nftables">>, "rules"),
                         <<"enabled", pick_init_system>>, "nftables")
        BY <2>2, <3>2 DEF apply_runtime_config, enable_service, write_nftables
      <4>2. IsTree(With(t, <<"etc", "nftables">>, "rules"))
        BY <1>3, WithTree
      <4>3. IsTree(tree')
        BY <4>1, <4>2, WithTree
      <4>4. DOMAIN tree' = DOMAIN t \cup {<<"etc", "nftables">>, <<"enabled", pick_init_system>>}
        BY <4>1 DEF With
      <4>5. Sourced(tree') = Sourced(t)
        <5>1. /\ <<"etc", "nftables">> # <<"umf", "env">>
              /\ <<"enabled", pick_init_system>> # <<"umf", "env">>
          OBVIOUS
        <5>2. QED
          BY <4>1, <5>1, SourcedWith
      <4>6. QED
        BY <3>2, <4>3, <4>4, <4>5
    <3>3. QED
      BY <3>1, <3>2
  <2>5. /\ Is("run")' = Is("run") /\ Is("expose")' = Is("expose")
        /\ pick_init_system' = pick_init_system
    BY <1>1, SameRecipe
  <2>6. KernelOK(tree, RunsAt(pos, vm))'
    <3>1. /\ <<"vmlinuz", k.vmlinuz>> \in DOMAIN t
          /\ <<"modules", k.release>> \in DOMAIN t
          /\ Paired(t) => k.vmlinuz = k.release
      BY <1>3, <2>1, DetectIs
    <3>2. Paired(from.tree) => Paired(t)
      <4>1. DOMAIN from.tree \subseteq DOMAIN t
        BY DEF t, Over
      <4>2. QED
        BY <1>3, <4>1, PairedGrows
    <3>3. Paired(tree') => Paired(t)
      <4>1. \A r : /\ <<"modules", r>> \in DOMAIN tree' => <<"modules", r>> \in DOMAIN t
                   /\ <<"vmlinuz", r>> \in DOMAIN tree' => <<"vmlinuz", r>> \in DOMAIN t
        BY <2>4
      <4>2. QED
        BY <1>3, <2>4, <4>1, PairedSame
    <3>4. Paired(from.tree)' = Paired(from.tree) /\ Paired(tree)' = Paired(tree')
      BY <1>1 DEF Paired, Rels
    <3>5. Paired(from.tree)' \/ (Is("run")' = {} /\ Paired(tree)') => k.vmlinuz = k.release
      BY <3>1, <3>2, <3>3, <3>4
    <3>6. <<"vmlinuz", k.vmlinuz>> \in DOMAIN tree' /\ <<"modules", k.release>> \in DOMAIN tree'
      BY <2>4, <3>1
    <3>7. QED
      BY <2>3, <3>5, <3>6 DEF KernelOK
  <2>7. FirewallOK(tree, RunsAt(pos, vm))'
    <3> SUFFICES ASSUME Is("expose") # {}
                 PROVE  /\ pick_init_system \in InitSys
                        /\ {<<"bin", "nft">>, <<"etc", "nftables">>, <<"enabled", pick_init_system>>}
                              \subseteq DOMAIN tree'
      BY <2>5 DEF FirewallOK
    <3>1. pick_init_system \in InitSys /\ <<"bin", "nft">> \in DOMAIN t
      BY <2>2 DEF Unenforceable, nft_binary_present
    <3>2. QED
      BY <2>4, <3>1
  <2>8. TreeOK'
    BY <1>1, <2>2, <2>6, <2>7 DEF TreeOK
  <2>9. RunOK'
    <3>1. ScopeAt(resolve_global_args, 1) /\ ContextAt(1) = NoCtx /\ Said("run", 1) = {}
      BY <1>1, ScopeFirst, ContextFirst, SaidFirst
    <3>2. /\ \A p : Declared(p)' = Declared(p)
          /\ \A p : VarAt(p)' = VarAt(p)
          /\ \A p : ContextAt(p)' = ContextAt(p)
          /\ \A d, p : Said(d, p)' = Said(d, p)
      BY <1>1, SameRecipe
    <3>3. ScopeAt(scope, pos)'
      BY <2>2, <3>1, <3>2 DEF ScopeAt
    <3>4. RanBefore(pos)' = {}
      BY <2>2, <3>1, <3>2 DEF RanBefore
    <3>5. ctx' = ContextAt(1) /\ ran' = {} /\ vm' = "none"
      BY <1>1, <2>2, <3>1
    <3>6. ~ Completed'
      BY <3>5 DEF Completed
    <3>7. FileOK'
      <4>1. Sourced(tree)' = Sourced(tree') /\ FileAt(pos)' = shape'.left
        BY <2>2, <3>1, <3>2 DEF Sourced, Void, FileAt
      <4>2. QED
        BY <2>3, <2>4, <3>5, <4>1 DEF FileOK
    <3>8. QED
      BY <2>2, <3>2, <3>3, <3>4, <3>5, <3>6, <3>7 DEF RunOK
  <2>10. pos' \in 1..(Len(recipe.dirs) + 1)
    BY <1>1, <2>2, RecipeType
  <2>11. GuestConfined'
    BY <1>1, <2>2, NoGuest
  <2>12. \A r \in ran' : r[1] \in Is("run") /\ DOMAIN r[2] = DOMAIN NoCtx
    BY <1>1
  <2>13. QED
    BY <1>1, <2>2, <2>3, <2>4, <2>8, <2>9, <2>10, <2>11, <2>12, RunsOn
<1>6. QED
  BY <1>4, <1>5

(* What is so at a directive of the second walk.                           *)
LEMMA AtDirective ==
    ASSUME Inductive, pc = "run", pos <= Len(recipe.dirs)
    PROVE  /\ TypeOK /\ TreeOK /\ pos \in DOMAIN recipe.dirs /\ IsTree(tree)
           /\ pos + 1 \in 1..(Len(recipe.dirs) + 1) /\ pos \in 1..(Len(recipe.dirs) + 1)
           /\ {"flavor", "entry", "kernel", "left"} \subseteq DOMAIN shape
           /\ \A r \in DOMAIN layout : IsImage(layout[r])
           /\ \A r \in ran : r[1] \in Is("run") /\ DOMAIN r[2] = DOMAIN NoCtx
           /\ ScopeAt(scope, pos) /\ ctx = ContextAt(pos)
           /\ DOMAIN ctx = DOMAIN NoCtx
           /\ Now.d = "run" <=> pos \in Is("run")
           /\ <<"vmlinuz", shape.kernel.vmlinuz>> \in
                 DOMAIN tree \cup RemovedBy(Latest(RunsAt(pos, vm)))
<1>1. TypeOK /\ TreeOK /\ ScopeAt(scope, pos) /\ ctx = ContextAt(pos)
  BY DEF Inductive, BootInv, RunOK
<1>2. pos \in DOMAIN recipe.dirs /\ pos + 1 \in 1..(Len(recipe.dirs) + 1)
  BY <1>1, RecipeType DEF TypeOK
<1>3. DOMAIN ContextAt(pos) = DOMAIN NoCtx
  BY DEF ContextAt, NoCtx
<1>4. <<"vmlinuz", shape.kernel.vmlinuz>> \in
        DOMAIN tree \cup RemovedBy(Latest(RunsAt(pos, vm)))
  BY <1>1 DEF TreeOK, KernelOK
<1>5. QED
  BY <1>1, <1>2, <1>3, <1>4 DEF Inductive, Begun, TypeOK, Now, Is

(* A directive that is not a RUN: no step has run since.                   *)
LEMMA WalkContextKeeps ==
    ASSUME Inductive, walk_context
    PROVE  Inductive'
<1>1. /\ pc = "run" /\ pc' = "run" /\ pos <= Len(recipe.dirs) /\ Now.d # "run" /\ pos' = pos + 1
      /\ UNCHANGED <<layout, cur, qemu, recipe, from, shape, vm, net, ran>>
  BY DEF walk_context, Running
<1>2. /\ TypeOK /\ TreeOK /\ pos \in DOMAIN recipe.dirs /\ IsTree(tree) /\ pos \notin Is("run")
      /\ ScopeAt(scope, pos) /\ pos' \in 1..(Len(recipe.dirs) + 1)
      /\ {"flavor", "entry", "kernel", "left"} \subseteq DOMAIN shape'
      /\ \A r \in ran' : r[1] \in Is("run") /\ DOMAIN r[2] = DOMAIN NoCtx
      /\ <<"vmlinuz", shape.kernel.vmlinuz>> \in
            DOMAIN tree \cup RemovedBy(Latest(RunsAt(pos, vm)))
  BY <1>1, AtDirective
<1>3. vm = "none" /\ net = FALSE
  BY <1>2 DEF Inductive, BootInv, GuestConfined, TypeOK
<1>4. IsTree(tree')
  <2>1. tree' = tree \/ \E w : tree' = With(tree, <<"dir", w>>, "made")
    BY DEF walk_context
  <2>2. QED
    BY <1>2, <2>1, WithTree
<1>5. TreeOK'
  <2>1. tree' = tree \/ \E w : tree' = With(tree, <<"dir", w>>, "made")
    BY DEF walk_context
  <2>2. \A w : \A a \in {"vmlinuz", "modules", "bin", "etc", "enabled"} :
           \A b : <<a, b>> \in DOMAIN With(tree, <<"dir", w>>, "made") <=> <<a, b>> \in DOMAIN tree
    BY WithApart
  <2>3. \A a \in {"vmlinuz", "modules", "bin", "etc", "enabled"} :
           \A b : <<a, b>> \in DOMAIN tree' <=> <<a, b>> \in DOMAIN tree
    BY <2>1, <2>2
  <2>4. RunsAt(pos', vm') = RunsAt(pos, vm)
    <3>1. Said("run", pos + 1) = Said("run", pos)
      BY <1>1, <1>2, SaidNext DEF Now
    <3>2. QED
      BY <1>1, <1>3, <3>1 DEF RunsAt
  <2>5. vm' # "up"
    BY <1>1, <1>3
  <2> DEFINE P == RunsAt(pos', vm')
  <2>6. /\ P = RunsAt(pos', vm') /\ RunsAt(pos, vm) \subseteq P
        /\ <<"vmlinuz", shape.kernel.vmlinuz>> \in DOMAIN tree' \cup RemovedBy(Latest(P))
    BY <1>2, <2>3, <2>4
  <2> HIDE DEF P
  <2>7. QED
    BY <1>1, <1>2, <1>4, <2>3, <2>5, <2>6, TreeStays
<1>6. RunOK'
  <2>1. subst_with(scope, Now.v) = ValueAt(pos)
    BY <1>2, SubstIs DEF Now
  <2>2. Said("run", pos + 1) = Said("run", pos)
    BY <1>1, <1>2, SaidNext DEF Now
  <2>3. ran = RanBefore(pos)
    BY <1>1, <1>3 DEF Inductive, RunOK, Completed
  <2>4. ran' = RanBefore(pos + 1)
    BY <1>1, <2>2, <2>3 DEF RanBefore
  <2>5. /\ scope' = IF Now.d = "arg" THEN apply_arg_to_scope(scope, Now) ELSE scope
        /\ ctx' = run_context(ctx, Now, ValueAt(pos), pos)
    BY <2>1 DEF walk_context
  <2>6. Sourced(tree') = FileAt(pos + 1)
    <3>1. tree' = tree \/ \E w : tree' = With(tree, <<"dir", w>>, "made")
      BY DEF walk_context
    <3>2. \A w : <<"dir", w>> # <<"umf", "env">>
      OBVIOUS
    <3>3. Sourced(tree') = Sourced(tree)
      BY <3>1, <3>2, SourcedWith
    <3>4. Sourced(tree) = FileAt(pos)
      BY <1>1, <1>3 DEF Inductive, RunOK, FileOK
    <3>5. QED
      BY <2>2, <3>3, <3>4 DEF FileAt
  <2>7. QED
    BY <1>1, <1>2, <1>3, <2>4, <2>5, <2>6, RunMoves
<1>7. GuestConfined'
  BY <1>1, <1>3, NoGuest
<1>8. QED
  BY <1>1, <1>2, <1>3, <1>4, <1>5, <1>6, <1>7, RunsOn

(* A step of a RUN that stays at it.                                       *)
LEMMA GuestOn ==
    ASSUME Inductive, pc = "run", pc' = "run", pos \in Is("run"),
           UNCHANGED <<layout, cur, qemu, recipe, pos, scope, from, shape, ctx>>,
           vm' \in {"staged", "up", "off", "faulted"}, net' \in BOOLEAN,
           vm' \in {"up", "off", "faulted"} => net', IsTree(tree'),
           NEW P, P = RunsAt(pos, vm'), RunsAt(pos, vm) \subseteq P,
           \A a \in {"vmlinuz", "modules", "bin", "etc", "enabled"} :
              \A b : <<a, b>> \in DOMAIN tree => <<a, b>> \in DOMAIN tree' \cup RemovedBy(P),
           <<"vmlinuz", shape.kernel.vmlinuz>> \in DOMAIN tree' \cup RemovedBy(Latest(P)),
           vm' = "up" => <<"vmlinuz", shape.kernel.vmlinuz>> \in DOMAIN tree',
           ran' = RanBefore(pos) \cup (IF Completed' THEN {<<pos, GivenAt(pos)>>} ELSE {}),
           vm' \in {"staged", "up"} => /\ <<"umf", "exit">> \notin DOMAIN tree'
                                       /\ Sourced(tree') = GivenAt(pos).env
    PROVE  Inductive'
<1>1. pos <= Len(recipe.dirs)
  <2>1. TypeOK /\ pos \in DOMAIN recipe.dirs
    BY DEF Inductive, BootInv, Is
  <2>2. QED
    BY <2>1, RecipeType
<1>2. /\ TypeOK /\ TreeOK
      /\ pos' \in 1..(Len(recipe.dirs) + 1)
      /\ {"flavor", "entry", "kernel", "left"} \subseteq DOMAIN shape'
  BY <1>1, AtDirective
<1>3. TreeOK'
  BY <1>2, TreeStays
<1>4. RunOK'
  BY RunStays
<1>5. \A r \in ran' : r[1] \in Is("run") /\ DOMAIN r[2] = DOMAIN NoCtx
  <2>1. \A q : DOMAIN GivenAt(q) = DOMAIN NoCtx
    BY GivenIs
  <2>2. \A r \in RanBefore(pos) : \E q \in Is("run") : r = <<q, GivenAt(q)>>
    BY DEF RanBefore, Said
  <2>3. \A r \in ran' : \E q \in Is("run") : r = <<q, GivenAt(q)>>
    BY <1>2, <2>2
  <2>4. QED
    BY <2>1, <2>3
<1>6. GuestConfined'
  <2>1. pos' \in Is("run")'
    BY SameRecipe
  <2>2. QED
    BY <2>1 DEF GuestConfined
<1>7. QED
  BY <1>2, <1>3, <1>4, <1>5, <1>6, RunsOn

(* The same for a step in which no command takes effect.                   *)
LEMMA GuestWaits ==
    ASSUME Inductive, pc = "run", pc' = "run", pos \in Is("run"),
           UNCHANGED <<layout, cur, qemu, recipe, pos, scope, from, shape, ctx, ran>>,
           vm # "off", vm' \in {"staged", "up", "off", "faulted"}, net' \in BOOLEAN,
           vm' \in {"up", "off", "faulted"} => net', IsTree(tree'),
           \A a \in {"vmlinuz", "modules", "bin", "etc", "enabled"} :
              \A b : <<a, b>> \in DOMAIN tree => <<a, b>> \in DOMAIN tree',
           vm' \in {"up", "off"} => <<"vmlinuz", shape.kernel.vmlinuz>> \in DOMAIN tree',
           ~ Completed',
           vm' \in {"staged", "up"} => /\ <<"umf", "exit">> \notin DOMAIN tree'
                                       /\ Sourced(tree') = GivenAt(pos).env
    PROVE  Inductive'
<1>1. pos <= Len(recipe.dirs)
  <2>1. TypeOK /\ pos \in DOMAIN recipe.dirs
    BY DEF Inductive, BootInv, Is
  <2>2. QED
    BY <2>1, RecipeType
<1>2. <<"vmlinuz", shape.kernel.vmlinuz>> \in
        DOMAIN tree \cup RemovedBy(Latest(RunsAt(pos, vm)))
  BY <1>1, AtDirective
<1>3. ran' = RanBefore(pos)
  BY DEF Inductive, RunOK, Completed
<1>4. PICK P : P = RunsAt(pos, vm')
  OBVIOUS
<1>5. RunsAt(pos, vm) \subseteq P /\ (vm' # "off" => P = RunsAt(pos, vm))
  BY <1>4 DEF RunsAt
<1>6. <<"vmlinuz", shape.kernel.vmlinuz>> \in DOMAIN tree' \cup RemovedBy(Latest(P))
  BY <1>2, <1>5
<1>7. QED
  BY <1>3, <1>4, <1>5, <1>6, GuestOn

(* run_stage: whatever the tree brought, the marker of an earlier exit is  *)
(* dropped before the guest starts, and the environment file is its own    *)
(* unless it has none.                                                     *)
LEMMA StageKeeps ==
    ASSUME Inductive, run_stage
    PROVE  Inductive'
<1>1. /\ pc = "run" /\ pos <= Len(recipe.dirs) /\ Now.d = "run" /\ vm = "none"
      /\ UNCHANGED <<layout, cur, qemu, recipe, pos, scope, from, shape, ctx, ran>>
  BY DEF run_stage, Running
<1>2. /\ TypeOK /\ IsTree(tree) /\ pos \in Is("run") /\ \A r \in DOMAIN layout : IsImage(layout[r])
      /\ ctx = ContextAt(pos)
  BY <1>1, AtDirective
<1>3. CASE Fail
  BY <1>1, <1>2, <1>3, FailKeeps
<1>4. CASE tree' = stage_helpers(tree, ctx) /\ vm' = "staged" /\ UNCHANGED <<pc, net>>
  <2> DEFINE u == With(tree, <<"umf", "cmd">>, "cmd")
             e == IF ctx.env = Void THEN u ELSE With(u, <<"umf", "env">>, ctx.env)
  <2>1. tree' = Without(e, {<<"umf", "exit">>})
    BY <1>4 DEF stage_helpers
  <2>2. IsTree(u) /\ IsTree(e)
    BY <1>2, WithTree
  <2>3. \A a \in {"vmlinuz", "modules", "bin", "etc", "enabled"} :
           \A b : <<a, b>> \in DOMAIN tree => <<a, b>> \in DOMAIN e
    BY DEF With
  <2>4. Sourced(tree') = GivenAt(pos).env
    <3>1. Sourced(tree) = FileAt(pos)
      BY <1>1 DEF Inductive, RunOK, FileOK
    <3>2. <<"umf", "cmd">> # <<"umf", "env">> /\ <<"umf", "env">> \notin {<<"umf", "exit">>}
      OBVIOUS
    <3>3. Sourced(u) = Sourced(tree)
      BY <3>2, SourcedWith
    <3> HIDE DEF u
    <3>4. Sourced(e) = IF ctx.env = Void THEN Sourced(u) ELSE ctx.env
      <4>1. CASE ctx.env = Void
        BY <4>1
      <4>2. CASE ctx.env # Void
        <5>1. e = With(u, <<"umf", "env">>, ctx.env)
          BY <4>2
        <5>2. <<"umf", "env">> \in DOMAIN e /\ e[<<"umf", "env">>] = ctx.env
          BY <5>1 DEF With
        <5>3. QED
          BY <4>2, <5>2 DEF Sourced
      <4>3. QED
        BY <4>1, <4>2
    <3> HIDE DEF e
    <3>5. Sourced(tree') = Sourced(e)
      BY <2>1, <3>2, SourcedWithout
    <3>6. GivenAt(pos).env = IF ctx.env = Void /\ Said("run", pos) = {} THEN shape.left ELSE ctx.env
      BY <1>2, GivenIs
    <3>7. QED
      BY <3>1, <3>3, <3>4, <3>5, <3>6 DEF FileAt
  <2> HIDE DEF e
  <2>5. IsTree(tree') /\ DOMAIN tree' = DOMAIN e \ {<<"umf", "exit">>}
    BY <2>1, <2>2, WithoutTree, WithoutIs
  <2>6. \A a \in {"vmlinuz", "modules", "bin", "etc", "enabled"} :
           \A b : <<a, b>> # <<"umf", "exit">>
    OBVIOUS
  <2>7. \A a \in {"vmlinuz", "modules", "bin", "etc", "enabled"} :
           \A b : <<a, b>> \in DOMAIN tree => <<a, b>> \in DOMAIN tree'
    BY <2>3, <2>5, <2>6
  <2>8. ~ Completed' /\ net' \in BOOLEAN
    BY <1>2, <1>4 DEF Completed, TypeOK
  <2>9. QED
    BY <1>1, <1>2, <1>4, <2>4, <2>5, <2>7, <2>8, GuestWaits
<1>5. QED
  BY <1>3, <1>4 DEF run_stage

(* run_create: no guest without its network, and none is up without its    *)
(* kernel.                                                                 *)
LEMMA CreateKeeps ==
    ASSUME Inductive, NEW ok \in BOOLEAN, run_create(ok)
    PROVE  Inductive'
<1>1. /\ pc = "run" /\ pos <= Len(recipe.dirs) /\ Now.d = "run" /\ vm = "staged"
      /\ UNCHANGED <<layout, cur, qemu, recipe, pos, scope, from, shape, ctx, ran>>
  BY DEF run_create, Running
<1>2. /\ TypeOK /\ IsTree(tree) /\ pos \in Is("run") /\ \A r \in DOMAIN layout : IsImage(layout[r])
  BY <1>1, AtDirective
<1>3. CASE Fail
  BY <1>1, <1>2, <1>3, FailKeeps
<1>4. CASE /\ net' = TRUE /\ vm' = (IF KernelThere THEN "up" ELSE "faulted") /\ UNCHANGED pc
           /\ tree' = With(tree, <<"umf", "net">>, "net")
  <2>1. IsTree(tree') /\ DOMAIN tree' = DOMAIN tree \cup {<<"umf", "net">>}
    BY <1>2, <1>4, WithTree, WithIs
  <2>2. <<"umf", "exit">> \notin DOMAIN tree' /\ Sourced(tree) = GivenAt(pos).env
    BY <1>1, <2>1 DEF Inductive, RunOK, FileOK
  <2>3. Sourced(tree') = GivenAt(pos).env
    <3>1. <<"umf", "net">> # <<"umf", "env">>
      OBVIOUS
    <3>2. QED
      BY <1>4, <2>2, <3>1, SourcedWith
  <2>4. ~ Completed' /\ vm' \in {"up", "faulted"}
    BY <1>4 DEF Completed
  <2>5. vm' \in {"up", "off"} => <<"vmlinuz", shape.kernel.vmlinuz>> \in DOMAIN tree'
    BY <1>4, <2>1 DEF KernelThere
  <2>6. QED
    BY <1>1, <1>2, <1>4, <2>1, <2>2, <2>3, <2>4, <2>5, GuestWaits
<1>5. QED
  BY <1>3, <1>4 DEF run_create

(* A guest is up only at a RUN, in its network, on its kernel, with no     *)
(* marker in sight and the environment that it is to have.                 *)
LEMMA GuestUp ==
    ASSUME Inductive, vm = "up"
    PROVE  /\ TypeOK /\ pc = "run" /\ pos \in Is("run") /\ net = TRUE /\ IsTree(tree)
           /\ \A r \in DOMAIN layout : IsImage(layout[r])
           /\ ran = RanBefore(pos) /\ <<"umf", "exit">> \notin DOMAIN tree
           /\ <<"vmlinuz", shape.kernel.vmlinuz>> \in DOMAIN tree
           /\ Sourced(tree) = GivenAt(pos).env /\ ctx = ContextAt(pos) /\ ScopeAt(scope, pos)
<1>1. TypeOK /\ pc = "run" /\ pos \in Is("run") /\ net = TRUE
  BY DEF Inductive, BootInv, GuestConfined, TypeOK
<1>2. ~ Completed
  BY DEF Completed
<1>3. QED
  BY <1>1, <1>2 DEF Inductive, RunOK, FileOK, TypeOK, TreeOK, KernelThere

(* The guest writes its exit code; only a zero counts the step as run.     *)
LEMMA FinishKeeps ==
    ASSUME Inductive, NEW c \in {"0", "1"}, guest_finishes(c)
    PROVE  Inductive'
<1> DEFINE w == subst_with(scope, Now.v)
           t == EffectOf(w, tree)
<1>1. /\ vm = "up" /\ vm' = "off" /\ tree' = With(t, <<"umf", "exit">>, c)
      /\ ran' = IF c = "0" THEN ran \cup {<<pos, [ctx EXCEPT !.env = Sourced(tree)]>>} ELSE ran
      /\ UNCHANGED <<layout, cur, qemu, recipe, pc, pos, scope, from, shape, ctx, net>>
  BY DEF guest_finishes, done
<1>2. /\ TypeOK /\ pc = "run" /\ pos \in Is("run") /\ net = TRUE /\ IsTree(tree)
      /\ ran = RanBefore(pos) /\ <<"vmlinuz", shape.kernel.vmlinuz>> \in DOMAIN tree
      /\ Sourced(tree) = GivenAt(pos).env /\ ctx = ContextAt(pos) /\ ScopeAt(scope, pos)
  BY <1>1, GuestUp
<1>3. w = ValueAt(pos) /\ pos \in DOMAIN recipe.dirs
  BY <1>2, SubstIs DEF Now, Is
<1> HIDE DEF w
<1>4. IsTree(t) /\ DOMAIN tree \subseteq DOMAIN t \cup Gone(w)
  <2>1. CASE w \in DOMAIN Effect
    <3>1. t = Over(Without(tree, Gone(w)), Effect[w].adds)
      BY <2>1 DEF EffectOf
    <3>2. IsTree(Effect[w].adds) /\ IsTree(Without(tree, Gone(w)))
      BY <1>2, <2>1, BootableAssumption, WithoutTree
    <3>3. DOMAIN t = (DOMAIN tree \ Gone(w)) \cup DOMAIN Effect[w].adds
      BY <3>1 DEF Over, Without
    <3>4. IsTree(t)
      BY <3>1, <3>2, OverTree
    <3>5. QED
      BY <3>3, <3>4
  <2>2. CASE w \notin DOMAIN Effect
    BY <1>2, <2>2 DEF EffectOf
  <2>3. QED
    BY <2>1, <2>2
<1> HIDE DEF t
<1>5. /\ IsTree(tree') /\ DOMAIN tree' = DOMAIN t \cup {<<"umf", "exit">>}
      /\ tree'[<<"umf", "exit">>] = c
  <2>1. IsTree(With(t, <<"umf", "exit">>, c))
    BY <1>4, WithTree
  <2>2. QED
    BY <1>1, <2>1 DEF With
<1>6. Completed' <=> c = "0"
  BY <1>1, <1>5 DEF Completed, ExitCode
<1>7. ran' = RanBefore(pos) \cup (IF Completed' THEN {<<pos, GivenAt(pos)>>} ELSE {})
  <2>1. [ctx EXCEPT !.env = Sourced(tree)] = GivenAt(pos)
    BY <1>2, GivenIs
  <2>2. QED
    BY <1>1, <1>2, <1>6, <2>1
<1>8. PICK P : P = RunsAt(pos, vm')
  OBVIOUS
<1>9. P = Said("run", pos) \cup {pos} /\ RunsAt(pos, vm) \subseteq P
  BY <1>1, <1>8 DEF RunsAt
<1>10. pos \in Latest(P)
  <2>1. pos \in Nat /\ \A j \in Said("run", pos) : j \in Nat /\ j < pos
    BY <1>2, <1>3, RecipeType, SaidNext
  <2>2. QED
    BY <1>9, <2>1 DEF Latest
<1>11. Gone(w) \subseteq RemovedBy(P) /\ Gone(w) \subseteq RemovedBy(Latest(P))
  BY <1>3, <1>9, <1>10 DEF RemovedBy
<1>12. DOMAIN tree \subseteq DOMAIN tree' \cup Gone(w)
  BY <1>4, <1>5
<1>13. /\ \A a \in {"vmlinuz", "modules", "bin", "etc", "enabled"} :
            \A b : <<a, b>> \in DOMAIN tree => <<a, b>> \in DOMAIN tree' \cup RemovedBy(P)
       /\ <<"vmlinuz", shape.kernel.vmlinuz>> \in DOMAIN tree' \cup RemovedBy(Latest(P))
  BY <1>2, <1>11, <1>12
<1>14. QED
  BY <1>1, <1>2, <1>5, <1>7, <1>8, <1>9, <1>13, GuestOn

(* A guest that panics and a qemu that fails leave no marker.              *)
LEMMA StopsKeeps ==
    ASSUME Inductive, guest_panics \/ qemu_fails
    PROVE  Inductive'
<1>1. /\ vm = "up" /\ vm' \in {"off", "faulted"}
      /\ UNCHANGED <<layout, cur, qemu, recipe, pc, pos, scope, from, shape, tree, ctx, net, ran>>
  BY DEF guest_panics, qemu_fails, done
<1>2. /\ TypeOK /\ pc = "run" /\ pos \in Is("run") /\ net = TRUE /\ IsTree(tree)
      /\ <<"umf", "exit">> \notin DOMAIN tree
      /\ <<"vmlinuz", shape.kernel.vmlinuz>> \in DOMAIN tree
  BY <1>1, GuestUp
<1>3. ExitCode' = "absent"
  BY <1>1, <1>2 DEF ExitCode
<1>4. ~ Completed'
  BY <1>3 DEF Completed
<1>5. QED
  BY <1>1, <1>2, <1>4, GuestWaits

(* run_timeout: the deadline takes the VM down and fails the build.         *)
LEMMA TimeoutKeeps ==
    ASSUME Inductive, run_timeout
    PROVE  Inductive'
<1>1. /\ vm = "up" /\ Fail /\ UNCHANGED <<layout, cur, qemu, recipe, pos, shape, ran>>
  BY DEF run_timeout, done
<1>2. \A r \in DOMAIN layout : IsImage(layout[r])
  BY <1>1, GuestUp
<1>3. QED
  BY <1>1, <1>2, FailKeeps

(* run_collect: the walk goes on only past a step that has run.            *)
LEMMA CollectKeeps ==
    ASSUME Inductive, run_collect
    PROVE  Inductive'
<1>1. /\ pc = "run" /\ pos <= Len(recipe.dirs) /\ Now.d = "run"
      /\ UNCHANGED <<layout, cur, qemu, recipe, scope, from, shape, ctx, ran>>
  BY DEF run_collect, Running
<1>2. /\ TypeOK /\ TreeOK /\ IsTree(tree) /\ pos \in Is("run") /\ pos \in DOMAIN recipe.dirs
      /\ ctx = ContextAt(pos) /\ pos + 1 \in 1..(Len(recipe.dirs) + 1)
      /\ \A r \in DOMAIN layout : IsImage(layout[r])
      /\ {"flavor", "entry", "kernel", "left"} \subseteq DOMAIN shape'
      /\ \A r \in ran' : r[1] \in Is("run") /\ DOMAIN r[2] = DOMAIN NoCtx
      /\ <<"vmlinuz", shape.kernel.vmlinuz>> \in
            DOMAIN tree \cup RemovedBy(Latest(RunsAt(pos, vm)))
  BY <1>1, AtDirective
<1>3. CASE Fail /\ UNCHANGED pos
  BY <1>1, <1>2, <1>3, FailKeeps
<1>4. CASE /\ vm = "off" /\ ExitCode = "0"
           /\ tree' = Without(tree, Helper) /\ vm' = "none" /\ net' = FALSE
           /\ pos' = pos + 1 /\ UNCHANGED pc
  <2>1. IsTree(tree') /\ DOMAIN tree' = DOMAIN tree \ Helper
    BY <1>2, <1>4, WithoutTree, WithoutIs
  <2>2. \A a \in {"vmlinuz", "modules", "bin", "etc", "enabled"} : \A b : <<a, b>> \notin Helper
    BY DEF Helper
  <2>3. \A a \in {"vmlinuz", "modules", "bin", "etc", "enabled"} :
           \A b : <<a, b>> \in DOMAIN tree => <<a, b>> \in DOMAIN tree'
    BY <2>1, <2>2
  <2>0. Said("run", pos + 1) = Said("run", pos) \cup {pos}
    BY <1>1, <1>2, SaidNext DEF Now
  <2>4. TreeOK'
    <3>1. PICK P : P = RunsAt(pos', vm')
      OBVIOUS
    <3>2. P = RunsAt(pos, vm)
      BY <1>4, <2>0, <3>1 DEF RunsAt
    <3>3. /\ RunsAt(pos, vm) \subseteq P /\ vm' # "up"
          /\ <<"vmlinuz", shape.kernel.vmlinuz>> \in DOMAIN tree' \cup RemovedBy(Latest(P))
      BY <1>2, <1>4, <2>3, <3>2
    <3>4. Is("run") # {}
      BY <1>2
    <3>5. QED
      BY <1>1, <1>2, <2>1, <2>3, <3>1, <3>3, <3>4, TreeStays
  <2>5. ran' = RanBefore(pos + 1)
    <3>1. ran = RanBefore(pos) \cup {<<pos, GivenAt(pos)>>}
      BY <1>1, <1>2, <1>4 DEF Inductive, RunOK, Completed
    <3>2. QED
      BY <1>1, <2>0, <3>1 DEF RanBefore
  <2>6. RunOK'
    <3>1. run_context(ctx, Now, ValueAt(pos), pos) = ctx
      BY <1>1 DEF run_context
    <3>2. Sourced(tree') = FileAt(pos + 1)
      <4>1. <<"umf", "env">> \notin DOMAIN tree'
        BY <2>1 DEF Helper
      <4>2. QED
        BY <2>0, <4>1 DEF Sourced, FileAt
    <3>3. QED
      BY <1>1, <1>2, <1>4, <2>5, <3>1, <3>2, RunMoves
  <2>7. GuestConfined'
    BY <1>4, NoGuest
  <2>8. QED
    BY <1>1, <1>2, <1>4, <2>1, <2>4, <2>6, <2>7, RunsOn
<1>5. QED
  BY <1>3, <1>4 DEF run_collect

(* What boot_manifest puts in an image, whatever labels the recipe has.    *)
LEMMA ManifestIs ==
    ASSUME NEW t
    PROVE  LET l == boot_manifest(t)
           IN  /\ l["entrypoint"] = entrypoint_label(shape.entry) /\ "entrypoint" \in DOMAIN l
               /\ l["release"] = shape.kernel.release /\ l["vmlinuz"] = shape.kernel.vmlinuz
               /\ l["flavor"] = shape.flavor
               /\ shape.entry \in InitSys =>
                     "initramfs" \in DOMAIN l /\ l["initramfs"] = shape.kernel.release
               /\ shape.entry \notin InitSys \cup {"nothing"} => l["cmdline"] = shape.entry
<1> DEFINE always == [x \in {"entrypoint", "release", "vmlinuz", "flavor"} |->
                        CASE x = "entrypoint" -> entrypoint_label(shape.entry)
                          [] x = "release" -> shape.kernel.release
                          [] x = "vmlinuz" -> shape.kernel.vmlinuz
                          [] OTHER -> shape.flavor]
           top == CASE shape.entry \in InitSys -> With(always, "initramfs", shape.kernel.release)
                    [] shape.entry = "nothing" -> always
                    [] OTHER -> With(always, "cmdline", shape.entry)
<1>1. boot_manifest(t) = Over(meta.labels, top)
  BY DEF boot_manifest
<1>2. /\ DOMAIN always = {"entrypoint", "release", "vmlinuz", "flavor"}
      /\ always["entrypoint"] = entrypoint_label(shape.entry)
      /\ always["release"] = shape.kernel.release /\ always["vmlinuz"] = shape.kernel.vmlinuz
      /\ always["flavor"] = shape.flavor
  OBVIOUS
<1> HIDE DEF always
<1>3. /\ {"entrypoint", "release", "vmlinuz", "flavor"} \subseteq DOMAIN top
      /\ top["entrypoint"] = entrypoint_label(shape.entry)
      /\ top["release"] = shape.kernel.release /\ top["vmlinuz"] = shape.kernel.vmlinuz
      /\ top["flavor"] = shape.flavor
      /\ shape.entry \in InitSys =>
            "initramfs" \in DOMAIN top /\ top["initramfs"] = shape.kernel.release
      /\ shape.entry \notin InitSys \cup {"nothing"} =>
            "cmdline" \in DOMAIN top /\ top["cmdline"] = shape.entry
  BY <1>2 DEF With, InitSys
<1> HIDE DEF top
<1>4. \A x \in DOMAIN top : x \in DOMAIN boot_manifest(t) /\ boot_manifest(t)[x] = top[x]
  BY <1>1 DEF Over
<1>5. QED
  BY <1>3, <1>4

(* emit_image: what it emits says what is so.                              *)
LEMMA EmitKeeps ==
    ASSUME Inductive, emit_image
    PROVE  Inductive'
<1> DEFINE sys == shape.entry \in InitSys
           t   == IF sys THEN With(tree, <<"initramfs", shape.kernel.release>>, "made") ELSE tree
           img == [kind |-> "bootable", index |-> FALSE, labels |-> boot_manifest(t),
                   argv |-> appliance_argv(shape.entry), tree |-> t]
<1>1. /\ TypeOK /\ pc = "run" /\ pos > Len(recipe.dirs) /\ IsTree(tree)
      /\ UNCHANGED <<cur, qemu, recipe, pos, scope, from, shape, meta, ctx, ran>>
      /\ \A r \in DOMAIN layout : IsImage(layout[r])
  BY DEF Inductive, BootInv, TypeOK, emit_image
<1>2. CASE Fail /\ UNCHANGED layout
  BY <1>1, <1>2, FailKeeps
<1>3. CASE /\ layout' = With(layout, Tags[cur], img)
           /\ pc' = "built" /\ UNCHANGED <<tree, vm, net>>
  <2>1. vm = "none" /\ net = FALSE
    <3>1. pos \notin Is("run")
      BY <1>1, RecipeType DEF Is
    <3>2. QED
      BY <1>1, <3>1 DEF Inductive, BootInv, GuestConfined, TypeOK
  <2>2. /\ IsTree(t) /\ DOMAIN tree \subseteq DOMAIN t
        /\ sys => <<"initramfs", shape.kernel.release>> \in DOMAIN t
        /\ \A a \in {"vmlinuz", "modules"} :
              \A b : <<a, b>> \in DOMAIN t => <<a, b>> \in DOMAIN tree
    <3>1. CASE sys
      <4>1. IsTree(t)
        BY <1>1, <3>1, WithTree
      <4>2. t = With(tree, <<"initramfs", shape.kernel.release>>, "made")
        BY <3>1
      <4>3. \A a \in {"vmlinuz", "modules"} :
              \A b : <<a, b>> \in DOMAIN t => <<a, b>> \in DOMAIN tree
        BY <4>2, WithApart
      <4>4. DOMAIN t = DOMAIN tree \cup {<<"initramfs", shape.kernel.release>>}
        BY <4>2 DEF With
      <4>5. QED
        BY <4>1, <4>3, <4>4
    <3>2. CASE ~ sys
      BY <1>1, <3>2
    <3>3. QED
      BY <3>1, <3>2
  <2>3. /\ img.kind = "bootable" /\ img.labels = boot_manifest(t)
        /\ img.argv = appliance_argv(shape.entry) /\ img.tree = t
    OBVIOUS
  <2> HIDE DEF t, img
  <2>4. /\ img.labels["entrypoint"] = entrypoint_label(shape.entry)
        /\ img.labels["release"] = shape.kernel.release
        /\ img.labels["vmlinuz"] = shape.kernel.vmlinuz
        /\ img.labels["flavor"] = shape.flavor
        /\ sys => "initramfs" \in DOMAIN img.labels /\ img.labels["initramfs"] = shape.kernel.release
        /\ ~ sys /\ shape.entry # "nothing" => img.labels["cmdline"] = shape.entry
    BY <2>3, ManifestIs
  <2>5. /\ sys => entrypoint_label(shape.entry) = shape.entry /\ appliance_argv(shape.entry) = "none"
        /\ shape.entry = "nothing" =>
              /\ ~ sys /\ entrypoint_label(shape.entry) = "none"
              /\ appliance_argv(shape.entry) = "none"
        /\ ~ sys /\ shape.entry # "nothing" =>
              /\ entrypoint_label(shape.entry) = "appliance"
              /\ appliance_argv(shape.entry) = shape.entry
        /\ "appliance" \notin InitSys /\ "none" \notin InitSys /\ "nothing" \notin InitSys
    BY DEF entrypoint_label, appliance_argv, InitSys
  <2>6. IsImage(img)
    BY <2>2, <2>3, <2>4, <2>5 DEF IsImage, InitSys
  <2>7. /\ DOMAIN layout' = DOMAIN layout \cup {Tags[cur]}
        /\ layout'[Tags[cur]] = img
        /\ \A r \in DOMAIN layout' : r = Tags[cur] \/ (r \in DOMAIN layout /\ layout'[r] = layout[r])
    BY <1>3 DEF With
  <2>8. \A r \in DOMAIN layout' : IsImage(layout'[r])
    BY <1>1, <2>6, <2>7
  <2>9. Image' = img
    BY <1>1, <2>7 DEF Image
  <2>10. /\ pick_flavor' = pick_flavor /\ pick_entrypoint' = pick_entrypoint
         /\ pick_init_system' = pick_init_system /\ FromRef' = FromRef
         /\ Is("run")' = Is("run") /\ Is("expose")' = Is("expose")
    BY <1>1, SameRecipe
  <2>11. BootInv'
    <3>1. pos' \in 1..(Len(recipe.dirs) + 1) /\ qemu' \in BOOLEAN
      BY <1>1 DEF TypeOK
    <3>2. TypeOK'
      BY <1>1, <1>3, <2>1, <2>8, <3>1, TypeKept DEF Points
    <3>3. QED
      BY <1>3, <2>1, <3>2, NoGuest DEF BootInv
  <2>12. Begun'
    BY <1>1, <1>3 DEF Inductive, Begun
  <2>13. FromOK' /\ ShapeOK'
    BY <1>1, <1>3, BaseStays
  <2>14. RunOK' /\ TreeOK'
    BY <1>3 DEF RunOK, TreeOK
  <2>15. EmittedMeansRan'
    <3>1. ran = RanBefore(pos)
      BY <1>1, <2>1 DEF Inductive, RunOK, Completed
    <3>2. Said("run", pos) = Is("run")
      BY <1>1, RecipeType DEF Said, Is, TypeOK
    <3>3. \A p : GivenAt(p)' = GivenAt(p)
      BY <1>1, SameGiven
    <3>4. ran' = {<<p, GivenAt(p)>> : p \in Is("run")}
      BY <1>1, <3>1, <3>2 DEF RanBefore
    <3>5. {<<p, GivenAt(p)>> : p \in Is("run")}' = {<<p, GivenAt(p)>> : p \in Is("run")}
      BY <2>10, <3>3
    <3>6. QED
      BY <3>4, <3>5 DEF EmittedMeansRan
  <2>16. SilenceKeepsBase'
    <3> SUFFICES ASSUME from.kind = "bootable", FromRef \notin DOMAIN Alias
                 PROVE  /\ pick_flavor = "defaulted" /\ "flavor" \in DOMAIN from.labels =>
                              img.labels["flavor"] = from.labels["flavor"]
                        /\ pick_entrypoint = "unset" =>
                              /\ img.labels["entrypoint"] = from.labels["entrypoint"]
                              /\ img.argv = from.argv
      BY <1>1, <2>9, <2>10 DEF SilenceKeepsBase
    <3>1. IsImage(from)
      BY <1>1 DEF Inductive, FromOK
    <3>2. /\ pick_flavor = "defaulted" /\ "flavor" \in DOMAIN from.labels =>
                shape.flavor = from.labels["flavor"]
          /\ pick_entrypoint = "unset" =>
                /\ "entrypoint" \in DOMAIN from.labels
                /\ shape.entry = inherited_entrypoint(from) /\ shape.entry # "error"
      BY <1>1 DEF Inductive, ShapeOK
    <3>3. ASSUME pick_entrypoint = "unset"
          PROVE  img.labels["entrypoint"] = from.labels["entrypoint"] /\ img.argv = from.argv
      <4>1. CASE from.labels["entrypoint"] \in InitSys
        <5>1. from.argv = "none" /\ shape.entry = from.labels["entrypoint"]
          BY <3>1, <3>2, <3>3, <4>1 DEF IsImage, inherited_entrypoint
        <5>2. QED
          BY <2>3, <2>4, <2>5, <4>1, <5>1
      <4>2. CASE from.labels["entrypoint"] \notin InitSys \cup {"none"}
        <5>1. from.labels["entrypoint"] = "appliance" /\ from.argv \notin InitSys \cup {"nothing"}
          BY <3>1, <3>2, <3>3, <4>2 DEF IsImage
        <5>2. shape.entry = from.argv
          BY <3>2, <3>3, <4>2 DEF inherited_entrypoint
        <5>3. QED
          BY <2>3, <2>4, <2>5, <5>1, <5>2
      <4>3. CASE from.labels["entrypoint"] = "none"
        <5>1. from.argv = "none" /\ shape.entry = "nothing"
          BY <2>5, <3>1, <3>2, <3>3, <4>3 DEF IsImage, inherited_entrypoint
        <5>2. QED
          BY <2>3, <2>4, <2>5, <4>3, <5>1
      <4>4. QED
        BY <4>1, <4>2, <4>3
    <3>4. QED
      BY <2>4, <3>2, <3>3
  <2>20. RunsAt(pos, vm) = Is("run")
    <3>1. Said("run", pos) = Is("run")
      BY <1>1, RecipeType DEF Said, Is, TypeOK
    <3>2. QED
      BY <2>1, <3>1 DEF RunsAt
  <2>21. /\ RemovedBy(Is("run"))' = RemovedBy(Is("run"))
         /\ RemovedBy(Latest(Is("run")))' = RemovedBy(Latest(Is("run")))
    BY <1>1, SameRecipe DEF Latest
  <2>17. ManifestTrue'
    <3>1. KernelOK(tree, Is("run"))
      BY <1>1, <2>20 DEF Inductive, TreeOK
    <3>2. Paired(from.tree) \/ (Is("run") = {} /\ Paired(t)) =>
            shape.kernel.vmlinuz = shape.kernel.release
      BY <1>1, <2>2, <3>1, PairedSame DEF KernelOK
    <3>3. /\ <<"vmlinuz", shape.kernel.vmlinuz>> \in DOMAIN t \cup RemovedBy(Latest(Is("run")))
          /\ <<"modules", shape.kernel.release>> \in DOMAIN t \cup RemovedBy(Is("run"))
      BY <2>2, <3>1 DEF KernelOK
    <3>4. img.labels["entrypoint"] \in InitSys <=> sys
      BY <2>4, <2>5
    <3>5. Paired(from.tree)' = Paired(from.tree) /\ Paired(Image.tree)' = Paired(t)
      BY <1>1, <2>3, <2>9 DEF Paired, Rels
    <3>6. Image'.labels = img.labels /\ Image'.tree = t /\ Image'.argv = img.argv
      BY <2>3, <2>9
    <3>7. entrypoint_label(shape.entry)' = entrypoint_label(shape.entry)
      BY <1>1 DEF entrypoint_label, InitSys
    <3>8. img.labels["entrypoint"] = "appliance" => img.labels["cmdline"] = img.argv
      BY <2>3, <2>4, <2>5
    <3>9. QED
      BY <1>1, <2>2, <2>3, <2>4, <2>5, <2>10, <2>21, <3>2, <3>3, <3>4, <3>5, <3>6, <3>7, <3>8
      DEF ManifestTrue, InitSys
  <2>18. ExposeEnforcedIfStated'
    <3> SUFFICES ASSUME pick_entrypoint # "unset", Is("expose") # {}
                 PROVE  /\ img.labels["entrypoint"] \in InitSys
                        /\ {<<"bin", "nft">>, <<"etc", "nftables">>,
                             <<"enabled", img.labels["entrypoint"]>>}
                              \subseteq DOMAIN img.tree \cup RemovedBy(Is("run"))
      BY <2>9, <2>10, <2>21 DEF ExposeEnforcedIfStated, ExposeEnforced
    <3>1. FirewallOK(tree, Is("run")) /\ shape.entry = pick_entrypoint
      BY <1>1, <2>20 DEF Inductive, TreeOK, ShapeOK
    <3>2. pick_init_system \in InitSys /\ pick_init_system = pick_entrypoint
      BY <3>1 DEF FirewallOK, pick_init_system, InitSys
    <3>3. img.labels["entrypoint"] = pick_init_system /\ pick_init_system \in InitSys
      BY <2>4, <2>5, <3>1, <3>2
    <3>4. QED
      BY <2>2, <2>3, <3>1, <3>3 DEF FirewallOK
  <2>19. QED
    BY <2>11, <2>12, <2>13, <2>14, <2>15, <2>16, <2>17, <2>18 DEF Inductive, Promises, ImageTrue
<1>4. QED
  BY <1>2, <1>3 DEF emit_image, Goto

(* What every build begins with.                                           *)
LEMMA FreshIs ==
    /\ Fresh.recipe.dirs = <<>> /\ Len(Fresh.recipe.dirs) = 0
    /\ {"flavor", "entry", "kernel", "left"} \subseteq DOMAIN Fresh.shape
    /\ Fresh' = Fresh /\ Void' = Void /\ NoCtx' = NoCtx
BY DEF Fresh, Void, NoCtx

(* next_build: only the layout carries over from one build to the next.     *)
LEMMA NextBuildKeeps ==
    ASSUME Inductive, next_build
    PROVE  Inductive'
<1>1. /\ pc # "run" /\ cur < Len(Recipes) /\ cur' = cur + 1 /\ pc' = "start" /\ pos' = 1
      /\ recipe' = Fresh.recipe /\ shape' = Fresh.shape /\ tree' = Void /\ ran' = {}
      /\ UNCHANGED <<layout, qemu, vm, net>>
  BY DEF next_build, Ended, Goto
<1>2. TypeOK /\ vm = "none" /\ net = FALSE
  BY <1>1, GuestInRun DEF Inductive, BootInv
<1>3. cur' \in DOMAIN Recipes
  <2>1. cur \in 1..Len(Recipes) /\ DOMAIN Recipes = 1..Len(Recipes) /\ Len(Recipes) \in Nat
    BY <1>2, BootableAssumption DEF TypeOK
  <2>2. QED
    BY <1>1, <2>1
<1>4. pos' \in 1..(Len(recipe'.dirs) + 1)
  BY <1>1, FreshIs
<1>5. IsTree(tree')
  BY <1>1, VoidTree
<1>6. TypeOK'
  BY <1>1, <1>2, <1>3, <1>4, <1>5, FreshIs DEF TypeOK
<1>7. BootInv'
  BY <1>1, <1>2, <1>6, NoGuest DEF BootInv
<1>8. Begun'
  BY <1>1, FreshIs DEF Begun
<1>9. FromOK' /\ ShapeOK'
  BY <1>1 DEF FromOK, ShapeOK
<1>10. QED
  BY <1>1, <1>7, <1>8, <1>9, Elsewhere DEF Inductive

(* The first build begins like any other, with an empty layout.            *)
LEMMA BootInit == Init => Inductive
<1> SUFFICES ASSUME Init PROVE Inductive
  OBVIOUS
<1>1. /\ layout = Void /\ cur = 1 /\ qemu = TRUE /\ pc = "start" /\ pos = 1
      /\ recipe = Fresh.recipe /\ shape = Fresh.shape /\ tree = Void
      /\ vm = "none" /\ net = FALSE /\ ran = {}
  BY DEF Init
<1>2. cur \in DOMAIN Recipes
  BY <1>1, BootableAssumption
<1>3. pos \in 1..(Len(recipe.dirs) + 1)
  BY <1>1, FreshIs
<1>4. TypeOK
  BY <1>1, <1>2, <1>3, VoidIs, VoidTree DEF TypeOK
<1>5. BootInv
  BY <1>1, <1>4 DEF BootInv, GuestConfined
<1>6. Begun
  BY <1>1, FreshIs DEF Begun
<1>7. FromOK /\ ShapeOK /\ RunOK /\ TreeOK
  BY <1>1 DEF FromOK, ShapeOK, RunOK, TreeOK
<1>8. Promises
  BY <1>1 DEF Promises, EmittedMeansRan, SilenceKeepsBase, ImageTrue, ManifestTrue,
              ExposeEnforcedIfStated, ExposeEnforced, Emitted
<1>9. QED
  BY <1>5, <1>6, <1>7, <1>8 DEF Inductive

(* A step of nothing.                                                      *)
LEMMA StutterKeeps ==
    ASSUME Inductive, UNCHANGED vars
    PROVE  Inductive'
<1>1. UNCHANGED <<layout, cur, qemu, recipe, pc, pos, scope, from, shape, meta, tree, ctx,
                  vm, net, ran>>
  BY DEF vars
<1>2. BootInv'
  BY <1>1 DEF Inductive, BootInv, TypeOK, GuestConfined, Is, Fresh, NoCtx, Void
<1>3. /\ \A d : Is(d)' = Is(d)
      /\ \A p : Declared(p)' = Declared(p)
      /\ \A p : VarAt(p)' = VarAt(p)
      /\ \A p : ContextAt(p)' = ContextAt(p)
      /\ \A p : RanBefore(p)' = RanBefore(p)
      /\ \A p : GivenAt(p)' = GivenAt(p) /\ FileAt(p)' = FileAt(p)
      /\ \A p, v : RunsAt(p, v)' = RunsAt(p, v)
      /\ \A P : RemovedBy(P)' = RemovedBy(P)
      /\ FromRef' = FromRef /\ pick_flavor' = pick_flavor
      /\ pick_entrypoint' = pick_entrypoint /\ pick_init_system' = pick_init_system
  BY <1>1, SameRecipe, SameGiven
<1>4. Begun' /\ FromOK'
  BY <1>1, <1>3, FreshIs DEF Inductive, Begun, FromOK
<1>5. RunOK'
  <2>1. ScopeAt(scope, pos)' <=> ScopeAt(scope, pos)
    BY <1>1, <1>3 DEF ScopeAt
  <2>2. Completed' <=> Completed
    BY <1>1 DEF Completed, ExitCode
  <2>3. FileOK' <=> FileOK
    BY <1>1, <1>3 DEF FileOK, Sourced, Void
  <2>4. QED
    BY <1>1, <1>3, <2>1, <2>2, <2>3 DEF Inductive, RunOK
<1>6. ShapeOK'
  BY <1>1, <1>3 DEF Inductive, ShapeOK, inherited_entrypoint, InitSys
<1>7. TreeOK'
  <2>1. RunsAt(pos, vm)' = RunsAt(pos, vm)
    BY <1>1, <1>3
  <2>2. \A P : RemovedBy(Latest(P))' = RemovedBy(Latest(P))
    BY <1>3 DEF Latest
  <2>3. KernelOK(tree, RunsAt(pos, vm))' <=> KernelOK(tree, RunsAt(pos, vm))
    BY <1>1, <1>3, <2>1, <2>2 DEF KernelOK, Paired, Rels
  <2>4. FirewallOK(tree, RunsAt(pos, vm))' <=> FirewallOK(tree, RunsAt(pos, vm))
    BY <1>1, <1>3, <2>1 DEF FirewallOK, InitSys
  <2>5. QED
    BY <1>1, <2>3, <2>4 DEF Inductive, TreeOK, KernelThere
<1>8. Emitted' = Emitted /\ Image' = Image
  BY <1>1 DEF Emitted, Image
<1>9. Promises'
  <2>1. /\ {<<p, GivenAt(p)>> : p \in Is("run")}' = {<<p, GivenAt(p)>> : p \in Is("run")}
        /\ RemovedBy(Is("run"))' = RemovedBy(Is("run"))
        /\ RemovedBy(Latest(Is("run")))' = RemovedBy(Latest(Is("run")))
    BY <1>3 DEF Latest
  <2>2. EmittedMeansRan'
    BY <1>1, <1>8, <2>1 DEF Inductive, Promises, EmittedMeansRan
  <2>3. SilenceKeepsBase'
    BY <1>1, <1>3, <1>8 DEF Inductive, Promises, SilenceKeepsBase
  <2>4. Paired(from.tree)' = Paired(from.tree) /\ Paired(Image.tree)' = Paired(Image.tree)
    BY <1>1, <1>8 DEF Paired, Rels
  <2>5. entrypoint_label(shape.entry)' = entrypoint_label(shape.entry)
    BY <1>1 DEF entrypoint_label, InitSys
  <2>6. ManifestTrue'
    BY <1>1, <1>3, <1>8, <2>1, <2>4, <2>5 DEF Inductive, Promises, ImageTrue, ManifestTrue, InitSys
  <2>7. ExposeEnforcedIfStated'
    BY <1>3, <1>8, <2>1 DEF Inductive, Promises, ImageTrue, ExposeEnforcedIfStated, ExposeEnforced, InitSys
  <2>8. QED
    BY <2>2, <2>3, <2>6, <2>7 DEF Promises, ImageTrue
<1>10. QED
  BY <1>2, <1>4, <1>5, <1>6, <1>7, <1>9 DEF Inductive

(* Every step of the specification, one lemma each.                        *)
LEMMA BootStep == Inductive /\ [Next]_vars => Inductive'
<1> SUFFICES ASSUME Inductive, [Next]_vars PROVE Inductive'
  OBVIOUS
<1>1. CASE Builder
  BY <1>1, StartKeeps, ProbeKeeps, PreflightKeeps, ValidateKeeps, FromKeeps, DecideKeeps,
     MetadataKeeps, AddImageKeeps, AddPathKeeps, AddUrlKeeps, UnpackKeeps, WalkContextKeeps,
     StageKeeps, CreateKeeps, CollectKeeps, EmitKeeps, NextBuildKeeps
  DEF Builder
<1>2. CASE Guest
  BY <1>2, FinishKeeps, StopsKeeps DEF Guest
<1>3. CASE run_timeout
  BY <1>3, TimeoutKeeps
<1>4. CASE UNCHANGED vars
  BY <1>4, StutterKeeps
<1>5. QED
  BY <1>1, <1>2, <1>3, <1>4 DEF Next

(* The invariant holds throughout.                                          *)
LEMMA BootHolds == Spec => []Inductive
BY BootInit, BootStep, PTL DEF Spec
----------------------------------------------------------------------------
(* Every state of a build is well typed, and a guest is there only inside  *)
(* its own RUN and its own policed namespace: whatever fails, neither the  *)
(* virtual machine nor the namespace outlives the step that made them.     *)
THEOREM BuildConfined == Spec => []BootInv
<1>1. Inductive => BootInv
  BY DEF Inductive
<1>2. QED
  BY <1>1, BootHolds, PTL

(* No image comes out of a build unless a guest of its own carried out     *)
(* every RUN of the recipe to exit code 0, each under the ENV, SHELL, USER *)
(* and WORKDIR in force at its place: panics, faults, timeouts and markers *)
(* that a base or an ADD brought never pass for success, and an            *)
(* environment file that one brought reaches only a first RUN without ENV. *)
THEOREM EmittedOnlyIfRan == Spec => []EmittedMeansRan
<1>1. Inductive => EmittedMeansRan
  BY DEF Inductive, Promises
<1>2. QED
  BY <1>1, BootHolds, PTL

(* A recipe that says nothing of flavor or ENTRYPOINT keeps those of the   *)
(* bootable base it extends, the program of an appliance included, along   *)
(* any chain of extensions.                                                *)
THEOREM ExtensionKeepsBase == Spec => []SilenceKeepsBase
<1>1. Inductive => SilenceKeepsBase
  BY DEF Inductive, Promises
<1>2. QED
  BY <1>1, BootHolds, PTL

(* The boot manifest of an emitted image names a kernel, modules and an    *)
(* initramfs that are in its tree, and a stated ENTRYPOINT with EXPOSE     *)
(* comes with the firewall that it says, up to what the recipe's own RUNs  *)
(* remove: of the kernel, what the last of them does.                      *)
THEOREM ImageSaysTrue == Spec => []ImageTrue
<1>1. Inductive => ImageTrue
  BY DEF Inductive, Promises
<1>2. QED
  BY <1>1, BootHolds, PTL
==============================================================================
