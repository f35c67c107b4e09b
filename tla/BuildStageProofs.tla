-------------------------- MODULE BuildStageProofs --------------------------
(* Container builds, for any recipes, registries, sources and processes:   *)
(* a layer, adopted or made, is the one that its directive asks for at its *)
(* place.                                                                  *)
EXTENDS BuildStage, FiniteSetTheorems, SequenceTheorems, WellFoundedInduction,
        TLAPS

(* What is known of a key and of a layer made under it, whatever the build *)
(* that made it: the layer of a RUN is described by the key alone; where   *)
(* an ADD put its source is described by some directive of the plan, and   *)
(* for which architecture it laid an image by some recipe.  The layers m   *)
(* are those of builds under which a ref moved.                            *)
RunMade(m, k, l) ==
    /\ l.op = "RUN" /\ l.arch = k.arch /\ l.cmd = k.cmd /\ l.cfg = k.cfg
    /\ l.new = k.parent.new /\ (l.base = k.parent.base \/ l \in m)
AddMade(pl, k, l) ==
    \E s \in StepsOf(pl) : \E c \in {l.content} :
        /\ s.op = "ADD" /\ s.dst = k.dst
        /\ k.src = IF s.src.dir THEN [tree |-> c] ELSE [leaf |-> s.src.leaf, bytes |-> c]
        /\ l = Copied(c, compute_add_destination(s.dst, s.src))
UrlMade(pl, k, l) ==
    \E s \in StepsOf(pl) :
        /\ s.op = "ADD-URL" /\ s.dst = k.dst
        /\ l = Copied(k.payload, compute_add_destination(s.dst, s.src))
FromMade(pl, k, l) ==
    \E s \in StepsOf(pl) :
        /\ s.op = "ADD-FROM" /\ s.dst = k.dst /\ s.src.id = k.src
        /\ l = Unpacked(k.producer, k.src, compute_add_destination(s.dst, s.src))
OciMade(pl, k, l) ==
    \E r \in pl.recipes :
        /\ Unpackable(k.manifest, r.arch)
        /\ l = Unpacked(Select(k.manifest, r.arch), "root", <<k.dst.path>>)
Made(pl, m, k, l) ==
    /\ k.op = "RUN" => RunMade(m, k, l)
    /\ k.op = "ADD" => AddMade(pl, k, l)
    /\ k.op = "ADD-URL" => UrlMade(pl, k, l)
    /\ k.op = "ADD-OCI" => l \in m \/ OciMade(pl, k, l)
    /\ k.op = "ADD-FROM" => l \in m \/ FromMade(pl, k, l)

(* The same of a layer in its place: l is what step i asks for above the   *)
(* new layers below; x excuses what depends on refs that move.             *)
RunFits(p, i, below, x, l) ==
    Steps(p)[i].op = "RUN" =>
        /\ l.op = "RUN" /\ l.cmd = Steps(p)[i].cmd /\ l.arch = b[p].recipe.arch
        /\ l.cfg.env = EnvAt(p, i) /\ l.new = below /\ (l.base = b[p].base \/ x)
CopyFits(s, content, l) ==
    \E t \in StepsOf(plan) :
        Twin(s, t) /\ l = Copied(content, compute_add_destination(t.dst, t.src))
ImageFits(s, l) ==
    /\ s.ref \in DOMAIN tags
    /\ \E r \in plan.recipes :
          /\ Unpackable(tags[s.ref], r.arch)
          /\ l = Unpacked(Select(tags[s.ref], r.arch), "root", <<s.dst.path>>)
AddFits(p, i, x, l) ==
    LET s == Steps(p)[i] IN
    /\ s.op = "ADD" => CopyFits(s, world[s.src.id], l)
    /\ s.op = "ADD-URL" => CopyFits(s, b[p].fetched[s.src.id], l)
    /\ s.op = "ADD-OCI" => x \/ ImageFits(s, l)
    /\ s.op = "ADD-FROM" =>
          \/ x
          \/ l = Unpacked(Producer(p, s.from).image, s.src.id,
                          compute_add_destination(s.dst, s.src))
LayersFit(p) ==
    \A j \in 1..Len(b[p].new) :
        /\ StepOf(p, j) \in 1..Len(Steps(p))
        /\ RunFits(p, StepOf(p, j), SubSeq(b[p].new, 1, j - 1), b[p].new[j] \in mixed,
                   b[p].new[j])
        /\ AddFits(p, StepOf(p, j), p \in late \/ b[p].new[j] \in mixed, b[p].new[j])

(* A process is between builds, or in a stage of a recipe of the plan.     *)
Shaped(p) ==
    /\ DOMAIN b[p] = DOMAIN Idle
    /\ b[p].pc \in Points /\ b[p].lookup \in BOOLEAN /\ b[p].adopted \in BOOLEAN
    /\ IsSeq(b[p].new) /\ IsSeq(b[p].produced)
    /\ At(p, "idle") => b[p] = Idle
    /\ ~At(p, "idle") =>
          /\ p \in plan.procs /\ b[p].recipe \in plan.recipes
          /\ check_cross_stage_refs(b[p].recipe)
          /\ b[p].stage \in 1..Len(b[p].recipe.stages)

(* The layers that the stage has are those of the steps it is past.        *)
LayersBefore(p, i) == {k \in LayerSteps(p) : k < i}
Placed(p) ==
    /\ At(p, "mount") =>
          /\ b[p].step = 1 /\ b[p].new = <<>> /\ b[p].upper = <<>>
          /\ ~b[p].adopted
    /\ At(p, "step") => b[p].step \in 1..(Len(Steps(p)) + 1)
    /\ b[p].pc \in {"make", "truncate", "write"} =>
          b[p].step \in 1..Len(Steps(p)) /\ Step(p).op \in Cached
    /\ b[p].pc \in {"step", "make"} =>
          Len(b[p].new) = Cardinality(LayersBefore(p, b[p].step))
    /\ b[p].pc \in {"truncate", "write"} =>
          Len(b[p].new) = Cardinality(LayersBefore(p, b[p].step)) + 1

(* The environment is the one in force at the step.                        *)
ConfigFits(p) ==
    b[p].pc \in {"mount", "step", "make", "truncate", "write"} =>
        IsConfig(b[p].cfg) /\ b[p].cfg.env = EnvAt(p, b[p].step)

(* RUN executes on what the key and the emitted chain name, unless a ref   *)
(* moved.                                                                  *)
StackFits(p) ==
    /\ b[p].pc \in {"step", "make", "truncate", "write"} =>
          /\ b[p].bundle = b[p].base \/ p \in late
          /\ b[p].adopted \/ b[p].upper = b[p].new
    /\ At(p, "make") /\ Step(p).op = "RUN" => ~b[p].adopted

(* Between the two lookups of FROM the ref stays, or the build knows.      *)
BaseStays(p) ==
    At(p, "mount") /\ p \notin late =>
        IF Stage(p).from = "scratch" THEN b[p].base = <<>>
        ELSE /\ Stage(p).from \in DOMAIN tags
             /\ b[p].base = Select(tags[Stage(p).from], b[p].recipe.arch).layers

(* The stages that this build has emitted are still what their refs name,  *)
(* as far as the build copies out of them.                                 *)
StagesStay(p) ==
    ~At(p, "idle") =>
        /\ Len(b[p].produced) = b[p].stage - 1
        /\ \A k \in 1..Len(b[p].produced) :
              /\ b[p].produced[k].name = b[p].recipe.stages[k].name
              /\ b[p].produced[k].ref = Internal[k]
              /\ ~IsIndex(b[p].produced[k].image)
              /\ p \notin late /\ ReadsRef(b[p].recipe, Internal[k]) =>
                    /\ Internal[k] \in DOMAIN tags
                    /\ tags[Internal[k]] = b[p].produced[k].image

(* The key of the layer in hand.                                           *)
KeyFits(p) ==
    /\ At(p, "make") =>
          /\ b[p].key.op = Step(p).op
          /\ p \notin late \/ Step(p).op \in {"RUN", "ADD", "ADD-URL"} =>
                b[p].key = Key(p) /\ HasKey(p)
    /\ b[p].pc \in {"truncate", "write"} =>
          Made(plan, mixed, b[p].key, b[p].new[Len(b[p].new)])

ProcInv(p) ==
    /\ Shaped(p) /\ Placed(p) /\ ConfigFits(p) /\ StackFits(p) /\ BaseStays(p)
    /\ StagesStay(p) /\ KeyFits(p) /\ LayersFit(p)

(* Images have a config; a whole entry of the step cache is a layer that   *)
(* was made under its key.                                                 *)
Shared ==
    /\ plan \in Plans /\ started \in 0..plan.builds
    /\ world \in [DOMAIN World -> Content]
    /\ DOMAIN b = Proc
    /\ \A r \in DOMAIN tags : HasConfig(tags[r])
    /\ \A k \in DOMAIN cache : cache[k] # Torn => Made(plan, mixed, k, cache[k])

Inductive == Shared /\ \A p \in Proc : ProcInv(p)

(* What a step leaves to a build that it does not advance: refs that the   *)
(* build reads stay, or the build is known to be late.                     *)
Calm(p) ==
    /\ plan' = plan /\ world' = world /\ mixed \subseteq mixed'
    /\ p \in late => p \in late'
    /\ p \notin late' =>
          \A r \in DOMAIN tags : ReadsRef(b[p].recipe, r) =>
              r \in DOMAIN tags' /\ tags'[r] = tags[r]
-----------------------------------------------------------------------------
(* Numbers and sequences.                                                  *)

(* A set of naturals that is not empty has a least element.                 *)
LEMMA LeastOf ==
    ASSUME NEW T, T \subseteq Nat, T # {}
    PROVE  \E x \in T : \A y \in T : x <= y
<1> DEFINE R == {s \in Nat \X Nat : s[1] < s[2]}
<1>1. OpToRel(<, Nat) = R
  BY Zenon DEF OpToRel
<1>2. IsWellFoundedOn(R, Nat)
  BY <1>1, NatLessThanWellFounded, Zenon
<1>3. \E x \in T : \A y \in T : ~(<<y, x>> \in R)
  <2> HIDE DEF R
  <2> QED
    BY <1>2, WFMin
<1>4. PICK x \in T : \A y \in T : ~(<<y, x>> \in R)
  BY <1>3
<1>5. \A y \in T : y < x => <<y, x>> \in R
  BY Zenon
<1>6. \A y \in T : ~(y < x)
  BY <1>4, <1>5, Zenon
<1>7. QED
  BY <1>6

(* Numbers up to a bound have a greatest one.                              *)
LEMMA GreatestOf ==
    ASSUME NEW n \in Nat, NEW S, S \subseteq 1..n, S # {}
    PROVE  \E x \in S : \A y \in S : y <= x
<1> DEFINE T == {n - i : i \in S}
<1>1. T \subseteq Nat /\ T # {}
  <2>1. \A i \in S : n - i \in Nat
    OBVIOUS
  <2>2. PICK i \in S : TRUE
    OBVIOUS
  <2>3. n - i \in T
    BY <2>2
  <2>4. QED
    BY <2>1, <2>3
<1> HIDE DEF T
<1>2. PICK t \in T : \A y \in T : t <= y
  BY <1>1, LeastOf
<1>3. PICK x \in S : t = n - x
  BY DEF T
<1>4. \A y \in S : n - y \in T
  BY DEF T
<1>5. QED
  BY <1>2, <1>3, <1>4

(* What the provers need to know of a sequence.                             *)
LEMMA SeqIs ==
    ASSUME NEW s, IsSeq(s)
    PROVE  Len(s) \in Nat /\ DOMAIN s = 1..Len(s)
BY DEF IsSeq

LEMMA EmptyIs == IsSeq(<<>>) /\ Len(<<>>) = 0
BY DEF IsSeq

(* A sequence with one more element.                                       *)
LEMMA AppendIs ==
    ASSUME NEW s, NEW e, IsSeq(s)
    PROVE  /\ IsSeq(Append(s, e)) /\ Len(Append(s, e)) = Len(s) + 1
           /\ Append(s, e)[Len(s) + 1] = e
           /\ \A i \in 1..Len(s) : Append(s, e)[i] = s[i]
           /\ SubSeq(Append(s, e), 1, Len(s)) = s
           /\ \A i \in 1..Len(s) :
                 SubSeq(Append(s, e), 1, i - 1) = SubSeq(s, 1, i - 1)
<1> DEFINE A == {s[i] : i \in DOMAIN s} \cup {e}
           t == Append(s, e)
<1>1. s \in Seq(A) /\ e \in A /\ Len(s) \in Nat /\ DOMAIN s = 1..Len(s)
  BY DEF IsSeq
<1> HIDE DEF A
<1>2. /\ t \in Seq(A) /\ Len(t) = Len(s) + 1
      /\ t[Len(s) + 1] = e /\ \A i \in 1..Len(s) : t[i] = s[i]
  BY <1>1, AppendProperties
<1>3. IsSeq(t)
  <2> HIDE DEF t
  <2> DEFINE B == {t[i] : i \in DOMAIN t}
  <2>1. DOMAIN t = 1..Len(t) /\ Len(t) \in Nat /\ t = [i \in 1..Len(t) |-> t[i]]
    BY <1>2
  <2>2. \A i \in 1..Len(t) : t[i] \in B
    BY <2>1
  <2> HIDE DEF B
  <2>3. t \in Seq(B)
    BY <2>1, <2>2
  <2> QED
    BY <2>3 DEF IsSeq, B
<1>4. SubSeq(t, 1, Len(s)) = s
  <2> HIDE DEF t
  <2> QED
    BY <1>1, <1>2
<1>5. ASSUME NEW i \in 1..Len(s) PROVE SubSeq(t, 1, i - 1) = SubSeq(s, 1, i - 1)
  <2> HIDE DEF t
  <2> QED
    BY <1>1, <1>2
<1> QED
  BY <1>2, <1>3, <1>4, <1>5

(* Steps that give layers are counted: the layer of step i comes after     *)
(* those of the steps before it, and StepOf finds it there.                *)
LEMMA Counted ==
    ASSUME NEW p, IsSeq(Steps(p)), NEW i \in 1..Len(Steps(p))
    PROVE  /\ Cardinality(LayersBefore(p, i)) \in Nat
           /\ i \in LayerSteps(p) =>
                 /\ Cardinality(LayersBefore(p, i + 1)) = Cardinality(LayersBefore(p, i)) + 1
                 /\ StepOf(p, Cardinality(LayersBefore(p, i)) + 1) = i
           /\ i \notin LayerSteps(p) => LayersBefore(p, i + 1) = LayersBefore(p, i)
<1> DEFINE S == LayerSteps(p)
           UpTo(k) == {m \in S : m <= k}
<1>1. Len(Steps(p)) \in Nat
  BY SeqIs
<1>2. S \subseteq 1..Len(Steps(p))
  BY DEF LayerSteps
<1>3. \A T \in SUBSET S : IsFiniteSet(T) /\ Cardinality(T) \in Nat
  <2>1. IsFiniteSet(1..Len(Steps(p)))
    BY <1>1, FS_Interval
  <2>2. \A T \in SUBSET S : T \subseteq 1..Len(Steps(p))
    BY <1>2
  <2> HIDE DEF S
  <2>3. \A T \in SUBSET S : IsFiniteSet(T)
    BY <2>1, <2>2, FS_Subset
  <2> QED
    BY <2>3, FS_CardinalityType
<1>4. \A k \in S : UpTo(k) = LayersBefore(p, k) \cup {k} /\ LayersBefore(p, k + 1) = UpTo(k)
  BY <1>1, <1>2 DEF LayersBefore
<1> HIDE DEF S
<1>5. \A k \in S : LayersBefore(p, k) \in SUBSET S /\ k \notin LayersBefore(p, k)
  BY <1>1, <1>2 DEF LayersBefore, S
<1>6. \A k \in S : Cardinality(UpTo(k)) = Cardinality(LayersBefore(p, k)) + 1
  BY <1>3, <1>4, <1>5, FS_AddElement
<1>7. ASSUME NEW k \in S, NEW m \in S, k < m PROVE Cardinality(UpTo(k)) < Cardinality(UpTo(m))
  <2>1. UpTo(k) \subseteq LayersBefore(p, m)
    BY <1>1, <1>2, <1>7 DEF LayersBefore, S
  <2>2. IsFiniteSet(LayersBefore(p, m)) /\ Cardinality(LayersBefore(p, m)) \in Nat
    BY <1>3, <1>5
  <2>3. Cardinality(UpTo(k)) <= Cardinality(LayersBefore(p, m))
    BY <2>1, <2>2, FS_Subset
  <2>4. Cardinality(UpTo(k)) \in Nat
    BY <1>3
  <2> QED
    BY <1>6, <2>2, <2>3, <2>4
<1>8. ASSUME i \in S
      PROVE  StepOf(p, Cardinality(LayersBefore(p, i)) + 1) = i
  <2>1. Cardinality(UpTo(i)) = Cardinality(LayersBefore(p, i)) + 1
    BY <1>6, <1>8
  <2>2. \A k \in S : Cardinality(UpTo(k)) = Cardinality(UpTo(i)) => k = i
    <3> SUFFICES ASSUME NEW k \in S, Cardinality(UpTo(k)) = Cardinality(UpTo(i)), k # i
                 PROVE  FALSE
      OBVIOUS
    <3>1. k < i \/ i < k
      BY <1>1, <1>2
    <3>2. Cardinality(UpTo(i)) \in Nat
      BY <1>3
    <3>3. k < i => Cardinality(UpTo(k)) < Cardinality(UpTo(i))
      BY <1>7, <1>8
    <3>4. i < k => Cardinality(UpTo(i)) < Cardinality(UpTo(k))
      BY <1>7, <1>8
    <3> HIDE DEF UpTo
    <3> QED
      BY <3>1, <3>2, <3>3, <3>4
  <2>3. StepOf(p, Cardinality(UpTo(i))) =
            CHOOSE k \in S : Cardinality(UpTo(k)) = Cardinality(UpTo(i))
    BY DEF StepOf, S
  <2> HIDE DEF UpTo
  <2> QED
    BY <1>8, <2>1, <2>2, <2>3
<1>9. Cardinality(LayersBefore(p, i)) \in Nat
  BY <1>3 DEF LayersBefore, S
<1>10. i \notin S => LayersBefore(p, i + 1) = LayersBefore(p, i)
  BY <1>1, <1>2 DEF LayersBefore, S
<1> QED
  BY <1>4, <1>6, <1>8, <1>9, <1>10 DEF S

(* The environment after a step.                                           *)
LEMMA EnvNext ==
    ASSUME NEW p, NEW i \in Nat, i >= 1
    PROVE  EnvAt(p, i + 1) = IF Steps(p)[i].op = "ENV" THEN Steps(p)[i].val ELSE EnvAt(p, i)
<1> DEFINE Sets(n) == {k \in 1..(n - 1) : Steps(p)[k].op = "ENV"}
           Last(T) == CHOOSE k \in T : \A m \in T : m <= k
<1>1. EnvAt(p, i) = (IF Sets(i) = {} THEN b[p].cfg0.env ELSE Steps(p)[Last(Sets(i))].val)
  BY DEF EnvAt
<1>2. EnvAt(p, i + 1) =
        (IF Sets(i + 1) = {} THEN b[p].cfg0.env ELSE Steps(p)[Last(Sets(i + 1))].val)
  BY DEF EnvAt
<1>3. CASE Steps(p)[i].op = "ENV"
  <2>1. i \in Sets(i + 1) /\ \A m \in Sets(i + 1) : m <= i /\ m \in Nat
    BY <1>3
  <2> HIDE DEF Sets
  <2>2. \A k \in Sets(i + 1) : (\A m \in Sets(i + 1) : m <= k) => k = i
    BY <2>1
  <2>3. Last(Sets(i + 1)) = i
    BY <2>1, <2>2
  <2> QED
    BY <1>2, <1>3, <2>1, <2>3
<1>4. CASE Steps(p)[i].op # "ENV"
  <2>1. Sets(i + 1) = Sets(i)
    BY <1>4
  <2> HIDE DEF Sets, Last
  <2> QED
    BY <1>1, <1>2, <1>4, <2>1
<1> QED
  BY <1>3, <1>4

(* Before the first step the environment is that of the base.               *)
LEMMA EnvFirst == ASSUME NEW p PROVE EnvAt(p, 1) = b[p].cfg0.env
BY DEF EnvAt
-----------------------------------------------------------------------------
(* Recipes, keys and layers.                                               *)

(* A build that is under way works on a recipe the plan has given it.       *)
LEMMA RecipeIs ==
    ASSUME NEW p, plan \in Plans, Shaped(p), ~At(p, "idle")
    PROVE  /\ WellFormed(b[p].recipe) /\ IsSeq(b[p].recipe.stages) /\ IsSeq(Steps(p))
           /\ Len(b[p].recipe.stages) \in Nat /\ Len(Steps(p)) \in Nat
<1>1. b[p].recipe \in plan.recipes /\ b[p].stage \in 1..Len(b[p].recipe.stages)
  BY DEF Shaped
<1>2. WellFormed(b[p].recipe)
  BY <1>1, BuildAssumption
<1>3. IsSeq(b[p].recipe.stages) /\ IsSeq(Steps(p))
  BY <1>1, <1>2 DEF WellFormed, Steps, Stage
<1> QED
  BY <1>2, <1>3, SeqIs

(* Its steps are steps of the plan.                                         *)
LEMMA StepIn ==
    ASSUME NEW p, Shaped(p), ~At(p, "idle"), NEW i \in 1..Len(Steps(p))
    PROVE  Steps(p)[i] \in StepsOf(plan)
<1> DEFINE r == b[p].recipe
           n == b[p].stage
<1>1. r \in plan.recipes /\ n \in 1..Len(r.stages) /\ Steps(p) = r.stages[n].steps
  BY DEF Shaped, Steps, Stage
<1> DEFINE OfStage(q, m) == {q.stages[m].steps[j] : j \in 1..Len(q.stages[m].steps)}
           OfRecipe(q) == UNION {OfStage(q, m) : m \in 1..Len(q.stages)}
<1>2. StepsOf(plan) = UNION {OfRecipe(q) : q \in plan.recipes}
  BY DEF StepsOf
<1> HIDE DEF r, n
<1>3. Steps(p)[i] \in OfStage(r, n)
  BY <1>1
<1> HIDE DEF OfStage
<1>4. Steps(p)[i] \in OfRecipe(r)
  BY <1>1, <1>3
<1> HIDE DEF OfRecipe
<1> QED
  BY <1>1, <1>2, <1>4

(* The stage an ADD --from names was emitted by this build, and the build  *)
(* reads its ref.                                                          *)
LEMMA ProducerIs ==
    ASSUME NEW p, plan \in Plans, Shaped(p), ~At(p, "idle"), StagesStay(p),
           NEW i \in 1..Len(Steps(p)), Steps(p)[i].op = "ADD-FROM"
    PROVE  \E k \in 1..Len(b[p].produced) :
              /\ Producer(p, Steps(p)[i].from) = b[p].produced[k]
              /\ ReadsRef(b[p].recipe, Internal[k])
<1> DEFINE r    == b[p].recipe
           n    == b[p].stage
           name == Steps(p)[i].from
           named == {k \in 1..Len(b[p].produced) : b[p].produced[k].name = name}
           Last(T) == CHOOSE k \in T : \A m \in T : m <= k
<1>1. /\ r \in plan.recipes /\ n \in 1..Len(r.stages) /\ Steps(p) = r.stages[n].steps
      /\ check_cross_stage_refs(r)
  BY DEF Shaped, Steps, Stage
<1>2. Len(r.stages) \in Nat /\ Len(b[p].produced) \in Nat
  BY RecipeIs, SeqIs DEF Shaped
<1>3. \E k \in 1..(n - 1) : r.stages[k].name = name
  BY <1>1 DEF check_cross_stage_refs
<1>4. Len(b[p].produced) = n - 1 /\ \A k \in 1..(n - 1) : b[p].produced[k].name = r.stages[k].name
  BY DEF StagesStay
<1>5. named # {} /\ named \subseteq 1..Len(b[p].produced)
  BY <1>3, <1>4
<1>6. PICK x \in named : \A y \in named : y <= x
  BY <1>2, <1>5, GreatestOf
<1>7. Last(named) \in named
  <2> HIDE DEF named
  <2> QED
    BY <1>6
<1>8. Producer(p, name) = b[p].produced[Last(named)]
  BY DEF Producer
<1> DEFINE k == Last(named)
<1> HIDE DEF Last
<1>0. \A j \in named :
        j \in 1..Len(b[p].produced) /\ r.stages[j].name = name /\ j \in 1..Len(r.stages)
  <2>1. \A j \in 1..(n - 1) : j \in 1..Len(r.stages)
    BY <1>1, <1>2
  <2> QED
    BY <1>4, <2>1, Zenon
<1>9. k \in 1..Len(b[p].produced) /\ r.stages[k].name = name /\ k \in 1..Len(r.stages)
  <2> HIDE DEF named
  <2> QED
    BY <1>0, <1>7
<1> HIDE DEF k, named, r, n
<1>10. Copies(r, k)
  BY <1>1, <1>9 DEF Copies
<1>11. ReadsRef(r, Internal[k])
  BY <1>9, <1>10, Zenon DEF ReadsRef
<1> QED
  BY <1>8, <1>9, <1>11 DEF k, r

(* What an ADD --from copies is tagged, and as the stage left it unless a  *)
(* ref moved.                                                               *)
LEMMA ProducedIs ==
    ASSUME NEW p, plan \in Plans, Shaped(p), ~At(p, "idle"), StagesStay(p),
           NEW i \in 1..Len(Steps(p)), Steps(p)[i].op = "ADD-FROM"
    PROVE  LET made == Producer(p, Steps(p)[i].from) IN
           /\ ReadsRef(b[p].recipe, made.ref)
           /\ p \notin late =>
                 /\ made.ref \in DOMAIN tags
                 /\ tags[made.ref] = made.image /\ ~IsIndex(made.image)
<1>1. PICK k \in 1..Len(b[p].produced) :
        /\ Producer(p, Steps(p)[i].from) = b[p].produced[k]
        /\ ReadsRef(b[p].recipe, Internal[k])
  BY ProducerIs
<1>2. /\ b[p].produced[k].ref = Internal[k] /\ ~IsIndex(b[p].produced[k].image)
      /\ p \notin late =>
            Internal[k] \in DOMAIN tags /\ tags[Internal[k]] = b[p].produced[k].image
  BY <1>1 DEF StagesStay
<1> QED
  BY <1>1, <1>2

(* The image of an ADD of an image is one that the recipe reads.            *)
LEMMA AddedIsRead ==
    ASSUME NEW p, Shaped(p), ~At(p, "idle"), NEW i \in 1..Len(Steps(p)),
           Steps(p)[i].op = "ADD-OCI"
    PROVE  ReadsRef(b[p].recipe, Steps(p)[i].ref)
<1>1. b[p].stage \in 1..Len(b[p].recipe.stages) /\ Steps(p) = b[p].recipe.stages[b[p].stage].steps
  BY DEF Shaped, Steps, Stage
<1> QED
  BY <1>1 DEF ReadsRef, Adds

(* More layers are excused, never fewer.                                    *)
LEMMA MadeGrows ==
    ASSUME NEW m, NEW n, m \subseteq n, NEW pl, NEW k, NEW l, Made(pl, m, k, l)
    PROVE  Made(pl, n, k, l)
BY DEF Made, RunMade

(* Two ADDs with one destination, and one leaf where it matters, write to   *)
(* one place.                                                               *)
LEMMA PlaceOf ==
    ASSUME NEW s, NEW t, s.dst = t.dst, ~s.dst.slash \/ s.src.leaf = t.src.leaf
    PROVE  compute_add_destination(s.dst, s.src) = compute_add_destination(t.dst, t.src)
BY DEF compute_add_destination

(* A layer made under the key of this step, by whichever build, is what    *)
(* this step asks for.                                                     *)
LEMMA MadeFits ==
    ASSUME NEW p, plan \in Plans, ProcInv(p), AtStep(p), Step(p).op \in Cached, HasKey(p),
           NEW l, Made(plan, mixed, Key(p), l)
    PROVE  /\ RunFits(p, b[p].step, b[p].new, l \in mixed, l)
           /\ AddFits(p, b[p].step, p \in late \/ l \in mixed, l)
<1> DEFINE i == b[p].step
           t == Steps(p)[i]
<1>1. /\ Shaped(p) /\ Placed(p) /\ ConfigFits(p) /\ StagesStay(p) /\ ~At(p, "idle")
      /\ b[p].pc = "step" /\ Step(p) = t
  BY DEF ProcInv, AtStep, At, Step
<1>2. i \in 1..Len(Steps(p))
  <2>1. Len(Steps(p)) \in Nat
    BY <1>1, RecipeIs
  <2> QED
    BY <1>1, <2>1 DEF Placed, AtStep, At
<1>3. t \in StepsOf(plan)
  BY <1>1, <1>2, StepIn
<1>4. b[p].cfg.env = EnvAt(p, i)
  BY <1>1 DEF ConfigFits
<1>5. CASE t.op = "RUN"
  <2>1. Key(p) = run_cache_key(p)
    BY <1>1, <1>5 DEF Key
  <2>2. RunMade(mixed, run_cache_key(p), l)
    BY <2>1, <1>5 DEF Made, run_cache_key
  <2> QED
    BY <1>1, <1>4, <1>5, <2>2 DEF RunMade, run_cache_key, parent_state, RunFits, AddFits
<1>6. CASE t.op = "ADD"
  <2>1. Key(p) = add_cache_key(p)
    BY <1>1, <1>6 DEF Key
  <2>2. AddMade(plan, add_cache_key(p), l)
    BY <2>1, <1>6 DEF Made, add_cache_key
  <2>3. PICK s \in StepsOf(plan) :
          /\ s.op = "ADD" /\ s.dst = t.dst
          /\ add_source_digest(t.src) =
                IF s.src.dir THEN [tree |-> l.content]
                             ELSE [leaf |-> s.src.leaf, bytes |-> l.content]
          /\ l = Copied(l.content, compute_add_destination(s.dst, s.src))
    BY <1>1, <2>2 DEF AddMade, add_cache_key
  <2> DEFINE w == world[t.src.id]
             c == l.content
  <2>4. /\ [tree |-> w] # [leaf |-> s.src.leaf, bytes |-> c]
        /\ [tree |-> c] # [leaf |-> t.src.leaf, bytes |-> w]
    <3>1. \A u, v, x : /\ DOMAIN [tree |-> u] = {"tree"}
                       /\ DOMAIN [leaf |-> v, bytes |-> x] = {"leaf", "bytes"}
      OBVIOUS
    <3> QED
      BY <3>1
  <2>5. CASE t.src.dir
    <3>1. s.src.dir /\ [tree |-> w] = [tree |-> c]
      BY <2>3, <2>4, <2>5 DEF add_source_digest
    <3>2. w = c
      BY <3>1
    <3>3. Twin(t, s)
      BY <1>6, <2>3, <2>5, <3>1, Zenon DEF Twin
    <3>4. CopyFits(t, w, l)
      BY <2>3, <3>2, <3>3, Zenon DEF CopyFits
    <3> QED
      BY <1>6, <3>4, Zenon DEF RunFits, AddFits
  <2>6. CASE ~t.src.dir
    <3>1. ~s.src.dir /\ [leaf |-> t.src.leaf, bytes |-> w] = [leaf |-> s.src.leaf, bytes |-> c]
      BY <2>3, <2>4, <2>6 DEF add_source_digest
    <3>2. w = c /\ t.src.leaf = s.src.leaf
      BY <3>1
    <3>3. compute_add_destination(s.dst, s.src) = compute_add_destination(t.dst, t.src)
      BY <2>3, <3>2, PlaceOf, Zenon
    <3>4. Twin(t, t)
      BY DEF Twin
    <3>5. CopyFits(t, w, l)
      BY <1>3, <2>3, <3>2, <3>3, <3>4, Zenon DEF CopyFits
    <3> QED
      BY <1>6, <3>5, Zenon DEF RunFits, AddFits
  <2> QED
    BY <2>5, <2>6
<1>7. CASE t.op = "ADD-URL"
  <2>1. Key(p) = url_add_cache_key(p)
    BY <1>1, <1>7 DEF Key
  <2>2. UrlMade(plan, url_add_cache_key(p), l)
    BY <2>1, <1>7 DEF Made, url_add_cache_key
  <2>3. PICK s \in StepsOf(plan) :
          /\ s.op = "ADD-URL" /\ s.dst = t.dst
          /\ l = Copied(b[p].fetched[t.src.id], compute_add_destination(s.dst, s.src))
    BY <1>1, <2>2, Zenon DEF UrlMade, url_add_cache_key
  <2>4. Twin(t, s)
    BY <1>7, <2>3, Zenon DEF Twin
  <2>5. CopyFits(t, b[p].fetched[t.src.id], l)
    BY <2>3, <2>4, Zenon DEF CopyFits
  <2> QED
    BY <1>7, <2>5, Zenon DEF RunFits, AddFits
<1>8. CASE t.op = "ADD-FROM"
  <2> SUFFICES ASSUME p \notin late, l \notin mixed
               PROVE  l = Unpacked(Producer(p, t.from).image, t.src.id,
                                   compute_add_destination(t.dst, t.src))
    BY <1>8, Zenon DEF RunFits, AddFits
  <2>1. Key(p) = cross_stage_add_cache_key(p)
    BY <1>1, <1>8 DEF Key
  <2>2. FromMade(plan, cross_stage_add_cache_key(p), l)
    BY <2>1, <1>8 DEF Made, cross_stage_add_cache_key
  <2>3. PICK s \in StepsOf(plan) :
          /\ s.op = "ADD-FROM" /\ s.dst = t.dst /\ s.src.id = t.src.id
          /\ l = Unpacked(tags[Producer(p, t.from).ref], t.src.id,
                          compute_add_destination(s.dst, s.src))
    BY <1>1, <2>2, Zenon DEF FromMade, cross_stage_add_cache_key
  <2>4. s.src.leaf = t.src.leaf
    BY <1>3, <1>8, <2>3, BuildAssumption, Zenon DEF OneLeaf
  <2>5. compute_add_destination(s.dst, s.src) = compute_add_destination(t.dst, t.src)
    BY <2>3, <2>4, PlaceOf, Zenon
  <2>6. tags[Producer(p, t.from).ref] = Producer(p, t.from).image
    BY <1>1, <1>2, <1>8, ProducedIs
  <2> QED
    BY <2>3, <2>5, <2>6
<1>9. CASE t.op = "ADD-OCI"
  <2> SUFFICES ASSUME p \notin late, l \notin mixed PROVE ImageFits(t, l)
    BY <1>9, Zenon DEF RunFits, AddFits
  <2>1. Key(p) = oci_image_add_cache_key(p) /\ t.ref \in DOMAIN tags
    BY <1>1, <1>9 DEF Key, HasKey
  <2>2. OciMade(plan, oci_image_add_cache_key(p), l)
    BY <2>1, <1>9 DEF Made, oci_image_add_cache_key
  <2> QED
    BY <1>1, <2>1, <2>2 DEF OciMade, oci_image_add_cache_key, ImageFits
<1> QED
  BY <1>1, <1>5, <1>6, <1>7, <1>8, <1>9 DEF Cached
-----------------------------------------------------------------------------
(* What a step leaves as it is.                                            *)

(* A process without a build owes nothing.                                  *)
LEMMA IdleFits == ASSUME NEW p, b[p] = Idle PROVE ProcInv(p)
<1> DEFINE n == Len(b[p].new)
<1>1. /\ b[p].pc = "idle" /\ b[p].lookup = TRUE /\ b[p].adopted = FALSE
      /\ b[p].new = <<>> /\ b[p].produced = <<>>
  BY DEF Idle
<1>2. Shaped(p)
  BY <1>1, EmptyIs DEF Shaped, At, Points
<1>3. LayersFit(p)
  BY <1>1, EmptyIs DEF LayersFit
<1> QED
  BY <1>1, <1>2, <1>3
     DEF ProcInv, Placed, ConfigFits, StackFits, BaseStays, StagesStay, KeyFits, At

LEMMA IdleFitsNext == ASSUME NEW p, b'[p] = Idle PROVE ProcInv(p)'
<1>1. (b[p] = Idle => ProcInv(p))'
  BY IdleFits, PTL
<1> QED
  BY <1>1

(* A step within a stage leaves the recipe and its place in it alone.       *)
LEMMA SameStage ==
    ASSUME NEW p, b'[p].recipe = b[p].recipe, b'[p].stage = b[p].stage
    PROVE  /\ Steps(p)' = Steps(p) /\ Stage(p)' = Stage(p) /\ LayerSteps(p)' = LayerSteps(p)
           /\ \A j : StepOf(p, j)' = StepOf(p, j)
           /\ \A i : LayersBefore(p, i)' = LayersBefore(p, i)
           /\ b'[p].cfg0 = b[p].cfg0 => \A i : EnvAt(p, i)' = EnvAt(p, i)
           /\ b'[p].produced = b[p].produced => \A n : Producer(p, n)' = Producer(p, n)
           /\ b'[p].step = b[p].step => Step(p)' = Step(p)
<1>1. Stage(p)' = Stage(p)
  BY DEF Stage
<1>2. Steps(p)' = Steps(p)
  BY <1>1 DEF Steps
<1>3. LayerSteps(p)' = LayerSteps(p)
  BY <1>2 DEF LayerSteps
<1>4. \A j : StepOf(p, j)' = StepOf(p, j)
  BY <1>3 DEF StepOf
<1>5. \A i : LayersBefore(p, i)' = LayersBefore(p, i)
  BY <1>3 DEF LayersBefore
<1>6. ASSUME b'[p].cfg0 = b[p].cfg0 PROVE \A i : EnvAt(p, i)' = EnvAt(p, i)
  BY <1>2, <1>6 DEF EnvAt
<1>7. ASSUME b'[p].produced = b[p].produced PROVE \A n : Producer(p, n)' = Producer(p, n)
  BY <1>7 DEF Producer
<1> QED
  BY <1>1, <1>2, <1>3, <1>4, <1>5, <1>6, <1>7 DEF Step

(* What fits a step goes on fitting it while the refs it is read from stay *)
(* or the build is known to be late; more may be excused, never less.      *)
LEMMA FitsCarry ==
    ASSUME NEW p, Shaped(p), ~At(p, "idle"), Calm(p),
           b'[p].recipe = b[p].recipe, b'[p].stage = b[p].stage, b'[p].base = b[p].base,
           b'[p].cfg0 = b[p].cfg0, b'[p].produced = b[p].produced, b'[p].fetched = b[p].fetched
    PROVE  \A i \in 1..Len(Steps(p)) : \A l : \A x \in BOOLEAN, y \in BOOLEAN :
              /\ \A below : RunFits(p, i, below, x, l) /\ (x => y) => RunFits(p, i, below, y, l)'
              /\ AddFits(p, i, x, l) /\ (x => y) /\ (p \in late' => y) => AddFits(p, i, y, l)'
<1> SUFFICES ASSUME NEW i \in 1..Len(Steps(p)), NEW l, NEW x \in BOOLEAN, NEW y \in BOOLEAN
             PROVE  /\ \A below : RunFits(p, i, below, x, l) /\ (x => y) =>
                                      RunFits(p, i, below, y, l)'
                    /\ AddFits(p, i, x, l) /\ (x => y) /\ (p \in late' => y) =>
                           AddFits(p, i, y, l)'
  OBVIOUS
<1> DEFINE t == Steps(p)[i]
<1>1. /\ Steps(p)' = Steps(p)
      /\ \A k : EnvAt(p, k)' = EnvAt(p, k)
      /\ \A n : Producer(p, n)' = Producer(p, n)
  BY SameStage
<1>2. ASSUME NEW below, RunFits(p, i, below, x, l), x => y PROVE RunFits(p, i, below, y, l)'
  BY <1>1, <1>2 DEF RunFits
<1>3. ASSUME AddFits(p, i, x, l), x => y, p \in late' => y PROVE AddFits(p, i, y, l)'
  <2>1. \A s, c : CopyFits(s, c, l)' <=> CopyFits(s, c, l)
    BY DEF CopyFits, Calm
  <2>2. ASSUME t.op = "ADD-OCI", ~y PROVE ImageFits(t, l)'
    <3>1. ImageFits(t, l)
      BY <1>3, <2>2 DEF AddFits
    <3>2. ReadsRef(b[p].recipe, t.ref)
      BY <2>2, AddedIsRead
    <3>3. t.ref \in DOMAIN tags' /\ tags'[t.ref] = tags[t.ref]
      BY <1>3, <2>2, <3>1, <3>2 DEF ImageFits, Calm
    <3> QED
      BY <1>1, <3>1, <3>3 DEF ImageFits, Calm
  <2>3. world' = world
    BY DEF Calm
  <2> QED
    BY <1>1, <1>3, <2>1, <2>2, <2>3 DEF AddFits
<1> QED
  BY <1>2, <1>3

(* Layers that are made stay the layers of their steps.                     *)
LEMMA LayersStay ==
    ASSUME NEW p, Shaped(p), ~At(p, "idle"), Calm(p), LayersFit(p), b'[p].new = b[p].new,
           b'[p].recipe = b[p].recipe, b'[p].stage = b[p].stage, b'[p].base = b[p].base,
           b'[p].cfg0 = b[p].cfg0, b'[p].produced = b[p].produced, b'[p].fetched = b[p].fetched
    PROVE  LayersFit(p)'
<1>1. Steps(p)' = Steps(p) /\ \A j : StepOf(p, j)' = StepOf(p, j)
  BY SameStage
<1>2. ASSUME NEW j \in 1..Len(b[p].new)
      PROVE  /\ StepOf(p, j) \in 1..Len(Steps(p))
             /\ RunFits(p, StepOf(p, j), SubSeq(b[p].new, 1, j - 1), b[p].new[j] \in mixed,
                        b[p].new[j])'
             /\ AddFits(p, StepOf(p, j), p \in late \/ b[p].new[j] \in mixed, b[p].new[j])'
  <2>1. /\ StepOf(p, j) \in 1..Len(Steps(p))
        /\ RunFits(p, StepOf(p, j), SubSeq(b[p].new, 1, j - 1), b[p].new[j] \in mixed,
                   b[p].new[j])
        /\ AddFits(p, StepOf(p, j), p \in late \/ b[p].new[j] \in mixed, b[p].new[j])
    BY DEF LayersFit
  <2>2. PICK i, l, below :
          i = StepOf(p, j) /\ l = b[p].new[j] /\ below = SubSeq(b[p].new, 1, j - 1)
    OBVIOUS
  <2>a. PICK x \in BOOLEAN, v \in BOOLEAN : (x <=> l \in mixed) /\ (v <=> p \in late \/ l \in mixed)
    BY Zenon
  <2>b. PICK y \in BOOLEAN, w \in BOOLEAN :
          (y <=> l \in mixed') /\ (w <=> p \in late' \/ l \in mixed')
    BY Zenon
  <2>3. /\ (x => y) /\ (v => w) /\ (p \in late' => w)
    <3>1. mixed \subseteq mixed' /\ (p \in late => p \in late')
      BY DEF Calm
    <3> QED
      BY <2>a, <2>b, <3>1, Zenon
  <2>4. RunFits(p, i, below, x, l) /\ AddFits(p, i, v, l) /\ i \in 1..Len(Steps(p))
    BY <2>1, <2>2, <2>a, Zenon DEF RunFits, AddFits
  <2>5. RunFits(p, i, below, y, l)' /\ AddFits(p, i, w, l)'
    BY <2>3, <2>4, FitsCarry
  <2> QED
    BY <1>1, <2>1, <2>2, <2>b, <2>5 DEF RunFits, AddFits
<1> QED
  BY <1>1, <1>2 DEF LayersFit

(* A build that does not move, in a layout where what it reads stays.      *)
LEMMA Untouched ==
    ASSUME NEW p, plan \in Plans, ProcInv(p), b'[p] = b[p], ~At(p, "idle"), Calm(p)
    PROVE  ProcInv(p)'
<1>1. /\ Shaped(p) /\ Placed(p) /\ ConfigFits(p) /\ StackFits(p) /\ BaseStays(p)
      /\ StagesStay(p) /\ KeyFits(p) /\ LayersFit(p)
  BY DEF ProcInv
<1>0. plan' = plan /\ world' = world
  BY DEF Calm
<1>2. /\ Steps(p)' = Steps(p) /\ Stage(p)' = Stage(p)
      /\ \A j : StepOf(p, j)' = StepOf(p, j)
      /\ \A i : LayersBefore(p, i)' = LayersBefore(p, i)
      /\ \A i : EnvAt(p, i)' = EnvAt(p, i)
      /\ \A n : Producer(p, n)' = Producer(p, n)
      /\ Step(p)' = Step(p)
  BY SameStage
<1>3. Shaped(p)'
  BY <1>0, <1>1 DEF Shaped, At
<1>4. Placed(p)' /\ ConfigFits(p)' /\ StackFits(p)'
  BY <1>1, <1>2 DEF Placed, ConfigFits, StackFits, At, Calm
<1>5. BaseStays(p)'
  <2>1. ReadsRef(b[p].recipe, Stage(p).from)
    BY <1>1 DEF Shaped, Stage, ReadsRef
  <2> QED
    BY <1>1, <1>2, <2>1 DEF BaseStays, At, Calm
<1>6. StagesStay(p)'
  BY <1>1 DEF StagesStay, At, Calm
<1>7. KeyFits(p)'
  <2>0. ASSUME At(p, "make") PROVE b[p].step \in 1..Len(Steps(p)) /\ Step(p).op \in Cached
    BY <1>1, <2>0 DEF Placed, At
  <2>1. ASSUME At(p, "make"), p \notin late' \/ Step(p).op \in {"RUN", "ADD", "ADD-URL"}
        PROVE  b[p].key = Key(p)' /\ HasKey(p)'
    <3>1. /\ Step(p) = Steps(p)[b[p].step] /\ b[p].step \in 1..Len(Steps(p))
          /\ Step(p).op \in Cached /\ b[p].key = Key(p) /\ HasKey(p)
      BY <1>1, <2>0, <2>1 DEF Step, KeyFits, Calm
    <3>2. parent_state(p)' = parent_state(p)
      BY DEF parent_state
    <3>3. CASE Step(p).op = "RUN"
      BY <1>2, <3>1, <3>2, <3>3 DEF Key, HasKey, run_cache_key
    <3>4. CASE Step(p).op = "ADD"
      BY <1>0, <1>2, <3>1, <3>2, <3>4 DEF Key, HasKey, add_cache_key, add_source_digest
    <3>5. CASE Step(p).op = "ADD-URL"
      BY <1>2, <3>1, <3>2, <3>5 DEF Key, HasKey, url_add_cache_key
    <3>6. CASE Step(p).op = "ADD-FROM"
      <4> DEFINE ref == Producer(p, Step(p).from).ref
      <4>1. ReadsRef(b[p].recipe, ref) /\ ref \in DOMAIN tags
        BY <1>1, <3>1, <3>6, ProducedIs DEF HasKey
      <4>2. ref \in DOMAIN tags' /\ tags'[ref] = tags[ref]
        BY <2>1, <3>6, <4>1 DEF Calm
      <4> QED
        BY <1>2, <3>1, <3>2, <3>6, <4>2 DEF Key, HasKey, cross_stage_add_cache_key
    <3>7. CASE Step(p).op = "ADD-OCI"
      <4> DEFINE ref == Step(p).ref
      <4>1. ReadsRef(b[p].recipe, ref) /\ ref \in DOMAIN tags
        BY <1>1, <3>1, <3>7, AddedIsRead DEF HasKey
      <4>2. ref \in DOMAIN tags' /\ tags'[ref] = tags[ref]
        BY <2>1, <3>7, <4>1 DEF Calm
      <4> QED
        BY <1>2, <3>1, <3>2, <3>7, <4>2 DEF Key, HasKey, oci_image_add_cache_key
    <3> QED
      BY <3>1, <3>3, <3>4, <3>5, <3>6, <3>7 DEF Cached
  <2>2. ASSUME b[p].pc \in {"truncate", "write"}
        PROVE  Made(plan, mixed', b[p].key, b[p].new[Len(b[p].new)])
    BY <1>1, <2>2, MadeGrows DEF KeyFits, Calm
  <2>3. At(p, "make") => b[p].key.op = Step(p).op
    BY <1>1 DEF KeyFits
  <2> QED
    BY <1>0, <1>2, <2>1, <2>2, <2>3 DEF KeyFits, At
<1>8. LayersFit(p)'
  BY <1>1, LayersStay
<1> QED
  BY <1>3, <1>4, <1>5, <1>6, <1>7, <1>8 DEF ProcInv

(* A layer that fits is put on the chain, and the others still fit.        *)
LEMMA Appended ==
    ASSUME NEW p, plan \in Plans, Calm(p), ProcInv(p), b[p].pc \in {"step", "make"},
           b[p].step \in LayerSteps(p),
           NEW l, RunFits(p, b[p].step, b[p].new, l \in mixed', l),
           AddFits(p, b[p].step, p \in late' \/ l \in mixed', l),
           b'[p].new = Append(b[p].new, l),
           b'[p].recipe = b[p].recipe, b'[p].stage = b[p].stage, b'[p].base = b[p].base,
           b'[p].cfg0 = b[p].cfg0, b'[p].produced = b[p].produced, b'[p].fetched = b[p].fetched
    PROVE  /\ IsSeq(b'[p].new) /\ LayersFit(p)'
           /\ Len(b'[p].new) = Cardinality(LayersBefore(p, b[p].step)) + 1
           /\ Len(b'[p].new) = Cardinality(LayersBefore(p, b[p].step + 1))
           /\ b'[p].new[Len(b'[p].new)] = l
<1> DEFINE s == b[p].new
           i == b[p].step
<1>1. /\ Shaped(p) /\ Placed(p) /\ LayersFit(p) /\ ~At(p, "idle")
  BY DEF ProcInv, At
<1>2. IsSeq(s) /\ IsSeq(Steps(p)) /\ i \in 1..Len(Steps(p))
  BY <1>1, RecipeIs DEF Shaped, LayerSteps
<1>3. /\ Len(s) = Cardinality(LayersBefore(p, i)) /\ Len(s) \in Nat
  BY <1>1, <1>2, SeqIs DEF Placed
<1>4. StepOf(p, Len(s) + 1) = i /\ Cardinality(LayersBefore(p, i + 1)) = Len(s) + 1
  BY <1>2, <1>3, Counted
<1>5. /\ IsSeq(b'[p].new) /\ Len(b'[p].new) = Len(s) + 1
      /\ b'[p].new[Len(s) + 1] = l
      /\ \A j \in 1..Len(s) : b'[p].new[j] = s[j]
      /\ SubSeq(b'[p].new, 1, Len(s)) = s
      /\ \A j \in 1..Len(s) : SubSeq(b'[p].new, 1, j - 1) = SubSeq(s, 1, j - 1)
  BY <1>2, AppendIs
<1>6. Steps(p)' = Steps(p) /\ \A j : StepOf(p, j)' = StepOf(p, j)
  BY SameStage
<1>7. ASSUME NEW j \in 1..(Len(s) + 1)
      PROVE  /\ StepOf(p, j) \in 1..Len(Steps(p))
             /\ RunFits(p, StepOf(p, j), SubSeq(b[p].new, 1, j - 1), b[p].new[j] \in mixed,
                        b[p].new[j])'
             /\ AddFits(p, StepOf(p, j), p \in late \/ b[p].new[j] \in mixed, b[p].new[j])'
  <2>1. PICK k, m, below :
          k = StepOf(p, j) /\ m = b'[p].new[j] /\ below = SubSeq(b'[p].new, 1, j - 1)
    OBVIOUS
  <2>2. PICK y \in BOOLEAN, w \in BOOLEAN :
          (y <=> m \in mixed') /\ (w <=> p \in late' \/ m \in mixed')
    BY Zenon
  <2>3. CASE j \in 1..Len(s)
    <3>1. m = s[j] /\ below = SubSeq(s, 1, j - 1)
      BY <1>5, <2>1, <2>3
    <3>2. /\ k \in 1..Len(Steps(p)) /\ RunFits(p, k, below, s[j] \in mixed, m)
          /\ AddFits(p, k, p \in late \/ s[j] \in mixed, m)
      BY <1>1, <2>1, <2>3, <3>1 DEF LayersFit
    <3>3. PICK x \in BOOLEAN, v \in BOOLEAN :
            (x <=> s[j] \in mixed) /\ (v <=> p \in late \/ s[j] \in mixed)
      BY Zenon
    <3>4. (x => y) /\ (v => w) /\ (p \in late' => w)
      <4>1. mixed \subseteq mixed' /\ (p \in late => p \in late')
        BY DEF Calm
      <4> QED
        BY <2>2, <3>1, <3>3, <4>1, Zenon
    <3>5. RunFits(p, k, below, x, m) /\ AddFits(p, k, v, m)
      BY <3>2, <3>3, Zenon DEF RunFits, AddFits
    <3>6. RunFits(p, k, below, y, m)' /\ AddFits(p, k, w, m)'
      BY <1>1, <2>2, <3>2, <3>4, <3>5, FitsCarry
    <3> QED
      BY <1>6, <2>1, <2>2, <3>2, <3>6 DEF RunFits, AddFits
  <2>4. CASE j = Len(s) + 1
    <3>1. j - 1 = Len(s)
      BY <1>3, <2>4
    <3>2. k = i /\ below = s /\ m = l
      BY <1>4, <1>5, <2>1, <2>4, <3>1
    <3>3. RunFits(p, k, below, y, m) /\ AddFits(p, k, w, m)
      BY <2>2, <3>2, Zenon DEF RunFits, AddFits
    <3>4. k \in 1..Len(Steps(p))
      BY <1>2, <3>2
    <3>5. RunFits(p, k, below, y, m)' /\ AddFits(p, k, w, m)'
      BY <1>1, <2>2, <3>3, <3>4, FitsCarry
    <3> QED
      BY <1>6, <2>1, <2>2, <3>4, <3>5 DEF RunFits, AddFits
  <2> QED
    BY <1>3, <2>3, <2>4
<1>8. LayersFit(p)'
  BY <1>5, <1>6, <1>7 DEF LayersFit
<1> QED
  BY <1>3, <1>4, <1>5, <1>8
-----------------------------------------------------------------------------
(* One process moves.                                                      *)

(* The fields of the memory of a build.                                     *)
LEMMA FieldsAre ==
    DOMAIN Idle = {"pc", "recipe", "stage", "step", "lookup", "adopted", "base", "bundle",
                   "new", "upper", "cfg0", "cfg", "fetched", "produced", "key"}
BY DEF Idle

(* The others keep their invariant when what they read stays.              *)
LEMMA Moves ==
    ASSUME Inductive, NEW p \in Proc, \A q \in Proc \ {p} : b'[q] = b[q], DOMAIN b' = Proc,
           plan' = plan, world' = world, started' \in 0..plan.builds,
           \A q \in Proc \ {p} : ~At(q, "idle") => Calm(q),
           \A r \in DOMAIN tags' : HasConfig(tags'[r]),
           \A k \in DOMAIN cache' : cache'[k] # Torn => Made(plan, mixed', k, cache'[k]),
           ProcInv(p)'
    PROVE  Inductive'
<1>1. Shared /\ \A q \in Proc : ProcInv(q)
  BY DEF Inductive
<1>3. Shared'
  BY <1>1 DEF Shared
<1>4. ASSUME NEW q \in Proc \ {p} PROVE ProcInv(q)'
  <2>1. CASE At(q, "idle")
    <3>1. b'[q] = Idle
      BY <1>1, <1>4, <2>1 DEF ProcInv, Shaped
    <3> QED
      BY <3>1, IdleFitsNext
  <2>2. CASE ~At(q, "idle")
    <3>1. plan \in Plans /\ ProcInv(q)
      BY <1>1 DEF Shared
    <3> QED
      BY <1>4, <2>2, <3>1, Untouched
  <2> QED
    BY <2>1, <2>2
<1> QED
  BY <1>3, <1>4 DEF Inductive

(* Steps that leave layout and cache alone are calm for everybody.         *)
LEMMA CalmAlone ==
    ASSUME UNCHANGED <<tags, world, plan>>, mixed \subseteq mixed', NEW q, q \in late => q \in late'
    PROVE  Calm(q)
BY DEF Calm

LEMMA MovesAlone ==
    ASSUME Inductive, NEW p \in Proc, NEW f, Goto(p, f),
           UNCHANGED <<tags, cache, world, plan, started>>, mixed \subseteq mixed',
           \A q \in late \ {p} : q \in late', ProcInv(p)'
    PROVE  Inductive'
<1>1. Shared
  BY DEF Inductive
<1>2. DOMAIN b' = Proc /\ \A q \in Proc \ {p} : b'[q] = b[q]
  BY <1>1 DEF Shared, Goto
<1>3. started' \in 0..plan.builds /\ \A r \in DOMAIN tags' : HasConfig(tags'[r])
  BY <1>1 DEF Shared
<1>4. \A k \in DOMAIN cache' : cache'[k] # Torn => Made(plan, mixed', k, cache'[k])
  BY <1>1, MadeGrows DEF Shared
<1>5. \A q \in Proc \ {p} : Calm(q)
  BY CalmAlone
<1> QED
  BY <1>2, <1>3, <1>4, <1>5, Moves

(* A stage begins.                                                         *)
LEMMA StageBegins ==
    ASSUME NEW p, plan' = plan, p \in plan.procs, NEW r \in plan.recipes,
           check_cross_stage_refs(r), DOMAIN b'[p] = DOMAIN Idle,
           b'[p].pc = "pull", b'[p].recipe = r, b'[p].stage \in 1..Len(r.stages),
           b'[p].new = <<>>, b'[p].lookup = TRUE, b'[p].adopted = FALSE,
           IsSeq(b'[p].produced), StagesStay(p)'
    PROVE  ProcInv(p)'
<1>1. b'[p].pc \in Points /\ b'[p].pc # "idle"
  BY DEF Points
<1>2. Shaped(p)'
  BY <1>1, EmptyIs DEF Shaped, At
<1>3. LayersFit(p)'
  BY <1>1, EmptyIs DEF LayersFit
<1> QED
  BY <1>1, <1>2, <1>3 DEF ProcInv, Placed, ConfigFits, StackFits, BaseStays, KeyFits, At

(* Every action keeps the invariant, one lemma each.                        *)
LEMMA BuildKeeps == ASSUME Inductive, NEW p \in Proc, build(p) PROVE Inductive'
<1>1. Shared /\ started < plan.builds /\ p \in plan.procs
  BY DEF Inductive, build
<1>2. PICK r \in plan.recipes :
        /\ check_cross_stage_refs(r)
        /\ Goto(p, [Idle EXCEPT !.pc = "pull", !.recipe = r, !.stage = 1, !.fetched = world])
  BY DEF build
<1>3. /\ plan' = plan /\ world' = world /\ started' = started + 1
      /\ tags' = tags /\ cache' = cache /\ late' = late /\ mixed' = mixed
  BY DEF build, history
<1>4. /\ DOMAIN b' = Proc /\ \A q \in Proc \ {p} : b'[q] = b[q]
      /\ b'[p] = [Idle EXCEPT !.pc = "pull", !.recipe = r, !.stage = 1, !.fetched = world]
  BY <1>1, <1>2 DEF Shared, Goto
<1>0. /\ DOMAIN b'[p] = DOMAIN Idle /\ b'[p].pc = "pull" /\ b'[p].recipe = r
      /\ b'[p].stage = 1 /\ b'[p].new = <<>> /\ b'[p].produced = <<>>
      /\ b'[p].lookup = TRUE /\ b'[p].adopted = FALSE
  BY <1>4 DEF Idle
<1>5. 1 \in 1..Len(r.stages)
  <2>1. WellFormed(r)
    BY <1>1, <1>2, BuildAssumption DEF Shared
  <2> QED
    BY <2>1, SeqIs DEF WellFormed
<1>6. StagesStay(p)'
  BY <1>0, EmptyIs DEF StagesStay
<1>7. ProcInv(p)'
  BY <1>0, <1>1, <1>2, <1>3, <1>5, <1>6, EmptyIs, StageBegins
<1>8. started' \in 0..plan.builds
  BY <1>1, <1>3, BuildAssumption DEF Shared
<1>9. \A r1 \in DOMAIN tags' : HasConfig(tags'[r1])
  BY <1>1, <1>3 DEF Shared
<1>10. \A k \in DOMAIN cache' : cache'[k] # Torn => Made(plan, mixed', k, cache'[k])
  BY <1>1, <1>3 DEF Shared
<1> QED
  BY <1>3, <1>4, <1>7, <1>8, <1>9, <1>10, CalmAlone, Moves

LEMMA FailKeeps == ASSUME Inductive, NEW p \in Proc, Fail(p) PROVE Inductive'
<1>1. /\ Goto(p, Idle) /\ UNCHANGED <<tags, cache, world, plan, started, mixed>>
      /\ late' = late \ {p}
  BY DEF Fail
<1>2. b'[p] = Idle
  BY <1>1 DEF Goto, Inductive, Shared
<1> QED
  BY <1>1, <1>2, IdleFitsNext, MovesAlone
-----------------------------------------------------------------------------
(* Where a stage starts.                                                   *)

(* The parts of the invariant, as a step of p finds them.                  *)
LEMMA Parts ==
    ASSUME Inductive, NEW p \in Proc
    PROVE  /\ Shared /\ plan \in Plans /\ p \in DOMAIN b /\ ProcInv(p)
           /\ Shaped(p) /\ Placed(p) /\ ConfigFits(p) /\ StackFits(p) /\ BaseStays(p)
           /\ StagesStay(p) /\ KeyFits(p) /\ LayersFit(p)
BY DEF Inductive, Shared, ProcInv

(* Finished stages stay as long as tags only ever grow.                     *)
LEMMA StagesStayNext ==
    ASSUME NEW p, StagesStay(p), b[p].pc # "idle", b'[p].recipe = b[p].recipe,
           b'[p].stage = b[p].stage, b'[p].produced = b[p].produced, p \in late => p \in late',
           \A r \in DOMAIN tags : r \in DOMAIN tags' /\ tags'[r] = tags[r]
    PROVE  StagesStay(p)'
BY DEF StagesStay, At

(* A step that only fills in a stage keeps the shape.                       *)
LEMMA ShapedNext ==
    ASSUME NEW p, Shaped(p), plan' = plan, b[p].pc # "idle", b'[p].pc \in Points \ {"idle"},
           DOMAIN b'[p] = DOMAIN b[p], b'[p].lookup \in BOOLEAN, b'[p].adopted \in BOOLEAN,
           IsSeq(b'[p].new), b'[p].recipe = b[p].recipe,
           b'[p].stage = b[p].stage, b'[p].produced = b[p].produced
    PROVE  Shaped(p)'
BY DEF Shaped, At

LEMMA PullKeeps == ASSUME Inductive, NEW p \in Proc, pull_into_layout(p) PROVE Inductive'
<1> DEFINE absent == Needs(p) \ DOMAIN tags
<1>1. /\ Shared /\ plan \in Plans /\ p \in DOMAIN b /\ Shaped(p) /\ StagesStay(p) /\ LayersFit(p)
  BY Parts
<1>2. /\ b[p].pc = "pull" /\ absent \subseteq DOMAIN Registry
      /\ tags' = [r \in DOMAIN tags \cup absent |-> IF r \in absent THEN Registry[r] ELSE tags[r]]
      /\ Goto(p, [b[p] EXCEPT !.pc = "resolve"])
      /\ cache' = cache /\ world' = world /\ plan' = plan /\ started' = started
      /\ late' = late /\ mixed' = mixed
  BY DEF pull_into_layout, At, history
<1> HIDE DEF absent
<1>3. /\ DOMAIN b' = Proc /\ \A q \in Proc \ {p} : b'[q] = b[q]
      /\ b'[p] = [b[p] EXCEPT !.pc = "resolve"]
  BY <1>1, <1>2 DEF Goto, Shared
<1>4. /\ DOMAIN b'[p] = DOMAIN b[p] /\ b'[p].pc = "resolve"
      /\ \A x \in DOMAIN Idle : x # "pc" => b'[p][x] = b[p][x]
  BY <1>1, <1>3, FieldsAre DEF Shaped
<1>5. /\ b'[p].recipe = b[p].recipe /\ b'[p].stage = b[p].stage /\ b'[p].new = b[p].new
      /\ b'[p].produced = b[p].produced /\ b'[p].lookup = b[p].lookup
      /\ b'[p].adopted = b[p].adopted /\ b'[p].base = b[p].base /\ b'[p].cfg0 = b[p].cfg0
      /\ b'[p].fetched = b[p].fetched
  BY <1>4, FieldsAre
<1>6. \A r \in DOMAIN tags : r \in DOMAIN tags' /\ tags'[r] = tags[r]
  BY <1>2 DEF absent
<1>a. \A q : Calm(q)
  BY <1>2, <1>6 DEF Calm
<1>7. \A r \in DOMAIN tags' : HasConfig(tags'[r])
  <2>1. \A r \in DOMAIN tags : HasConfig(tags[r])
    BY <1>1 DEF Shared
  <2>2. \A r \in DOMAIN tags' : (r \in absent /\ tags'[r] = Registry[r]) \/ r \in DOMAIN tags
    BY <1>2
  <2> QED
    BY <1>2, <1>6, <2>1, <2>2, BuildAssumption
<1>8. Shaped(p)'
  BY <1>1, <1>2, <1>4, <1>5, ShapedNext DEF Shaped, Points
<1>9. StagesStay(p)'
  BY <1>1, <1>2, <1>5, <1>6, StagesStayNext
<1>10. LayersFit(p)'
  BY <1>1, <1>2, <1>5, <1>a, LayersStay DEF At
<1>11. ProcInv(p)'
  BY <1>4, <1>8, <1>9, <1>10
     DEF ProcInv, Placed, ConfigFits, StackFits, BaseStays, KeyFits, At
<1>12. \A k \in DOMAIN cache' : cache'[k] # Torn => Made(plan, mixed', k, cache'[k])
  BY <1>1, <1>2 DEF Shared
<1>13. started' \in 0..plan.builds
  BY <1>1, <1>2 DEF Shared
<1> QED
  BY <1>2, <1>3, <1>a, <1>7, <1>11, <1>12, <1>13, Moves

LEMMA ResolveKeeps == ASSUME Inductive, NEW p \in Proc, resolve_base_image(p) PROVE Inductive'
<1>1. /\ Shared /\ plan \in Plans /\ p \in DOMAIN b /\ Shaped(p) /\ StagesStay(p)
  BY Parts
<1>2. b[p].pc = "resolve" /\ UNCHANGED <<tags, cache, world, plan, started, late, mixed>>
  BY DEF resolve_base_image, At, history
<1>3. PICK base, cfg :
        /\ Goto(p, [b[p] EXCEPT !.pc = "mount", !.base = base, !.cfg0 = cfg, !.cfg = cfg,
                       !.new = <<>>, !.upper = <<>>, !.adopted = FALSE, !.step = 1])
        /\ IsConfig(cfg)
        /\ IF Stage(p).from = "scratch" THEN base = <<>>
           ELSE /\ Stage(p).from \in DOMAIN tags
                /\ base = Select(tags[Stage(p).from], b[p].recipe.arch).layers
  <2>1. CASE Stage(p).from = "scratch"
    <3>1. IsConfig([env |-> "none", cwd |-> "none"])
      BY DEF IsConfig
    <3> QED
      BY <2>1, <3>1 DEF resolve_base_image
  <2>2. CASE Stage(p).from # "scratch"
    <3> DEFINE image == tags[Stage(p).from]
               base == Select(image, b[p].recipe.arch)
    <3>1. /\ Stage(p).from \in DOMAIN tags /\ Matches(image, b[p].recipe.arch)
          /\ Goto(p, [b[p] EXCEPT !.pc = "mount", !.base = base.layers,
                   !.cfg0 = base.cfg, !.cfg = base.cfg,
                   !.new = <<>>, !.upper = <<>>, !.adopted = FALSE, !.step = 1])
      BY <2>2 DEF resolve_base_image
    <3>2. HasConfig(image)
      BY <1>1, <3>1 DEF Shared
    <3>3. IsConfig(base.cfg)
      BY <3>1, <3>2 DEF HasConfig, Select, Matches
    <3> QED
      BY <2>2, <3>1, <3>3
  <2> QED
    BY <2>1, <2>2
<1>4. b'[p] = [b[p] EXCEPT !.pc = "mount", !.base = base, !.cfg0 = cfg, !.cfg = cfg,
                       !.new = <<>>, !.upper = <<>>, !.adopted = FALSE, !.step = 1]
  BY <1>1, <1>3 DEF Goto
<1>5. /\ DOMAIN b'[p] = DOMAIN b[p] /\ b'[p].pc = "mount" /\ b'[p].base = base
      /\ b'[p].cfg0 = cfg /\ b'[p].cfg = cfg /\ b'[p].new = <<>> /\ b'[p].upper = <<>>
      /\ b'[p].adopted = FALSE /\ b'[p].step = 1
      /\ b'[p].recipe = b[p].recipe /\ b'[p].stage = b[p].stage
      /\ b'[p].produced = b[p].produced /\ b'[p].lookup = b[p].lookup
  BY <1>1, <1>4, FieldsAre DEF Shaped
<1>6. Shaped(p)'
  BY <1>1, <1>2, <1>5, EmptyIs, ShapedNext DEF Shaped, Points
<1>7. StagesStay(p)'
  BY <1>1, <1>2, <1>5, StagesStayNext
<1>8. LayersFit(p)'
  BY <1>5, EmptyIs DEF LayersFit
<1>9. ConfigFits(p)'
  <2>1. EnvAt(p, 1)' = b'[p].cfg0.env
    BY DEF EnvAt
  <2> QED
    BY <1>3, <1>5, <2>1 DEF ConfigFits
<1>10. BaseStays(p)'
  <2>1. Stage(p)' = Stage(p)
    BY <1>5, SameStage
  <2> QED
    BY <1>2, <1>3, <1>5, <2>1 DEF BaseStays
<1>11. ProcInv(p)'
  BY <1>5, <1>6, <1>7, <1>8, <1>9, <1>10 DEF ProcInv, Placed, StackFits, KeyFits, At
<1> QED
  BY <1>2, <1>3, <1>11, MovesAlone

LEMMA FromImageKeeps == ASSUME Inductive, NEW p \in Proc, from_image(p) PROVE Inductive'
<1>1. /\ Shared /\ plan \in Plans /\ p \in DOMAIN b /\ Shaped(p) /\ Placed(p) /\ ConfigFits(p)
      /\ BaseStays(p) /\ StagesStay(p)
  BY Parts
<1>2. b[p].pc = "mount" /\ UNCHANGED <<tags, cache, world, plan, started, late, mixed>>
  BY DEF from_image, At, history
<1>3. PICK bundle : /\ Goto(p, [b[p] EXCEPT !.pc = "step", !.bundle = bundle])
                    /\ bundle = b[p].base \/ p \in late
  BY <1>1, <1>2 DEF from_image, BaseStays, At
<1>4. b'[p] = [b[p] EXCEPT !.pc = "step", !.bundle = bundle]
  BY <1>1, <1>3 DEF Goto
<1>5. /\ DOMAIN b'[p] = DOMAIN b[p] /\ b'[p].pc = "step" /\ b'[p].bundle = bundle
      /\ b'[p].base = b[p].base /\ b'[p].cfg0 = b[p].cfg0 /\ b'[p].cfg = b[p].cfg
      /\ b'[p].new = <<>> /\ b'[p].upper = <<>> /\ b'[p].adopted = b[p].adopted
      /\ b'[p].step = 1 /\ b'[p].recipe = b[p].recipe /\ b'[p].stage = b[p].stage
      /\ b'[p].produced = b[p].produced /\ b'[p].lookup = b[p].lookup
      /\ b[p].step = 1
  BY <1>1, <1>2, <1>4, FieldsAre DEF Shaped, Placed, At
<1>6. Shaped(p)'
  BY <1>1, <1>2, <1>5, EmptyIs, ShapedNext DEF Shaped, Points
<1>7. StagesStay(p)'
  BY <1>1, <1>2, <1>5, StagesStayNext
<1>8. LayersFit(p)'
  BY <1>5, EmptyIs DEF LayersFit
<1>9. Steps(p)' = Steps(p) /\ LayerSteps(p)' = LayerSteps(p) /\ EnvAt(p, 1)' = EnvAt(p, 1)
  BY <1>5, SameStage
<1>10. ConfigFits(p)'
  BY <1>1, <1>2, <1>5, <1>9 DEF ConfigFits
<1>11. Placed(p)'
  <2>1. Len(Steps(p)) \in Nat
    BY <1>1, <1>2, RecipeIs DEF At
  <2>2. LayersBefore(p, 1)' = {}
    BY <1>9, <2>1 DEF LayersBefore, LayerSteps
  <2>3. Cardinality(LayersBefore(p, 1)') = 0
    BY <2>2, FS_EmptySet
  <2> QED
    BY <1>5, <1>9, <2>1, <2>3, EmptyIs DEF Placed, At
<1>12. ProcInv(p)'
  BY <1>2, <1>3, <1>5, <1>6, <1>7, <1>8, <1>10, <1>11 DEF ProcInv, StackFits, BaseStays, KeyFits, At
<1> QED
  BY <1>2, <1>3, <1>12, MovesAlone
-----------------------------------------------------------------------------
(* Steps of a stage.                                                       *)

(* Where a step stands, and what it is past when it is done.               *)
LEMMA AtStepIs ==
    ASSUME NEW p, plan \in Plans, ProcInv(p), AtStep(p)
    PROVE  /\ b[p].pc = "step" /\ ~At(p, "idle") /\ Len(Steps(p)) \in Nat
           /\ b[p].step \in 1..Len(Steps(p)) /\ Step(p) = Steps(p)[b[p].step]
           /\ b[p].step \in LayerSteps(p) <=> Step(p).op # "ENV"
<1>1. Shaped(p) /\ Placed(p) /\ b[p].pc = "step" /\ ~At(p, "idle") /\ b[p].step <= Len(Steps(p))
  BY DEF ProcInv, AtStep, At
<1>2. Len(Steps(p)) \in Nat
  BY <1>1, RecipeIs
<1>3. b[p].step \in 1..Len(Steps(p))
  BY <1>1, <1>2 DEF Placed, At
<1> QED
  BY <1>1, <1>2, <1>3 DEF Step, LayerSteps

(* adopt_cached_layer: the entry of a key is the layer of the step, or      *)
(* absent.                                                                  *)
LEMMA AdoptKeeps == ASSUME Inductive, NEW p \in Proc, adopt_cached_layer(p) PROVE Inductive'
<1> DEFINE l == cache[Key(p)]
           i == b[p].step
<1>1. /\ Shared /\ plan \in Plans /\ p \in DOMAIN b /\ ProcInv(p) /\ Shaped(p)
      /\ ConfigFits(p) /\ StackFits(p) /\ StagesStay(p)
  BY Parts
<1>2. /\ AtStep(p) /\ Step(p).op \in Cached /\ Hit(p) /\ HasKey(p)
      /\ Goto(p, [b[p] EXCEPT !.new = Append(@, l), !.adopted = TRUE, !.step = @ + 1])
      /\ UNCHANGED <<tags, cache, world, plan, started, late, mixed>>
  BY DEF adopt_cached_layer, AtCached, history
<1>3. /\ b[p].pc = "step" /\ ~At(p, "idle") /\ i \in 1..Len(Steps(p)) /\ Len(Steps(p)) \in Nat
      /\ i \in LayerSteps(p) /\ Step(p) = Steps(p)[i] /\ Step(p).op # "ENV"
  BY <1>1, <1>2, AtStepIs DEF Cached
<1>4. Made(plan, mixed, Key(p), l)
  BY <1>1, <1>2 DEF Hit, Shared
<1>5. /\ RunFits(p, i, b[p].new, l \in mixed, l)
      /\ AddFits(p, i, p \in late \/ l \in mixed, l)
  BY <1>1, <1>2, <1>4, MadeFits
<1>a. /\ RunFits(p, i, b[p].new, l \in mixed', l)
      /\ AddFits(p, i, p \in late' \/ l \in mixed', l)
  BY <1>2, <1>5, Zenon DEF RunFits, AddFits
<1> HIDE DEF l
<1>6. /\ DOMAIN b'[p] = DOMAIN b[p] /\ b'[p].pc = "step" /\ b'[p].bundle = b[p].bundle
      /\ b'[p].base = b[p].base /\ b'[p].cfg0 = b[p].cfg0 /\ b'[p].cfg = b[p].cfg
      /\ b'[p].new = Append(b[p].new, l) /\ b'[p].adopted = TRUE
      /\ b'[p].step = i + 1 /\ b'[p].recipe = b[p].recipe /\ b'[p].stage = b[p].stage
      /\ b'[p].produced = b[p].produced /\ b'[p].lookup = b[p].lookup
      /\ b'[p].fetched = b[p].fetched
  <2>1. b'[p] = [b[p] EXCEPT !.new = Append(@, l), !.adopted = TRUE, !.step = @ + 1]
    BY <1>1, <1>2 DEF Goto
  <2> QED
    BY <1>1, <1>3, <2>1, FieldsAre DEF Shaped
<1>7. /\ IsSeq(b'[p].new) /\ LayersFit(p)'
      /\ Len(b'[p].new) = Cardinality(LayersBefore(p, i + 1))
  BY <1>1, <1>2, <1>3, <1>6, <1>a, CalmAlone, Appended
<1>8. /\ Steps(p)' = Steps(p) /\ \A k : LayersBefore(p, k)' = LayersBefore(p, k)
      /\ \A k : EnvAt(p, k)' = EnvAt(p, k)
  BY <1>6, SameStage
<1>9. Shaped(p)'
  BY <1>1, <1>2, <1>3, <1>6, <1>7, ShapedNext DEF Shaped, Points
<1>10. StagesStay(p)'
  BY <1>1, <1>2, <1>3, <1>6, StagesStayNext
<1>11. ConfigFits(p)'
  BY <1>1, <1>3, <1>6, <1>8, EnvNext DEF ConfigFits
<1>12. Placed(p)'
  BY <1>3, <1>6, <1>7, <1>8 DEF Placed, At
<1>13. StackFits(p)'
  BY <1>1, <1>2, <1>3, <1>6 DEF StackFits, At
<1>14. ProcInv(p)'
  BY <1>6, <1>7, <1>9, <1>10, <1>11, <1>12, <1>13 DEF ProcInv, BaseStays, KeyFits, At
<1> QED
  BY <1>2, <1>14, MovesAlone

(* RebuildWithoutCache starts the stage again, without lookups.             *)
LEMMA RebuildKeeps ==
    ASSUME Inductive, NEW p \in Proc, RebuildWithoutCache(p)
    PROVE  Inductive'
<1>1. /\ Shared /\ plan \in Plans /\ p \in DOMAIN b /\ Shaped(p) /\ StagesStay(p) /\ LayersFit(p)
  BY Parts
<1>2. /\ b[p].pc = "step" /\ UNCHANGED <<tags, cache, world, plan, started, late, mixed>>
      /\ Goto(p, [b[p] EXCEPT !.pc = "resolve", !.lookup = FALSE])
  BY DEF RebuildWithoutCache, AtCached, AtStep, At, history
<1>3. b'[p] = [b[p] EXCEPT !.pc = "resolve", !.lookup = FALSE]
  BY <1>1, <1>2 DEF Goto
<1>4. /\ DOMAIN b'[p] = DOMAIN b[p] /\ b'[p].pc = "resolve" /\ b'[p].lookup = FALSE
      /\ b'[p].base = b[p].base /\ b'[p].cfg0 = b[p].cfg0 /\ b'[p].new = b[p].new
      /\ b'[p].adopted = b[p].adopted /\ b'[p].recipe = b[p].recipe
      /\ b'[p].stage = b[p].stage /\ b'[p].produced = b[p].produced
      /\ b'[p].fetched = b[p].fetched
  BY <1>1, <1>3, FieldsAre DEF Shaped
<1>5. Shaped(p)'
  BY <1>1, <1>2, <1>4, ShapedNext DEF Shaped, Points
<1>6. StagesStay(p)'
  BY <1>1, <1>2, <1>4, StagesStayNext
<1>7. LayersFit(p)'
  BY <1>1, <1>2, <1>4, CalmAlone, LayersStay DEF At
<1>8. ProcInv(p)'
  BY <1>4, <1>5, <1>6, <1>7
     DEF ProcInv, Placed, ConfigFits, StackFits, BaseStays, KeyFits, At
<1> QED
  BY <1>2, <1>8, MovesAlone

(* A key does not depend on where its process stands.                      *)
LEMMA KeyStays ==
    ASSUME NEW p, tags' = tags, world' = world, Step(p).op \in Cached,
           b'[p].recipe = b[p].recipe, b'[p].stage = b[p].stage, b'[p].step = b[p].step,
           b'[p].base = b[p].base, b'[p].new = b[p].new, b'[p].cfg = b[p].cfg,
           b'[p].cfg0 = b[p].cfg0, b'[p].produced = b[p].produced, b'[p].fetched = b[p].fetched
    PROVE  Key(p)' = Key(p) /\ Key(p).op = Step(p).op /\ (HasKey(p) => HasKey(p)')
<1>1. Step(p)' = Step(p) /\ \A n : Producer(p, n)' = Producer(p, n)
  BY SameStage
<1>2. parent_state(p)' = parent_state(p)
  BY DEF parent_state
<1>3. CASE Step(p).op = "RUN"
  BY <1>1, <1>2, <1>3 DEF Key, HasKey, run_cache_key
<1>4. CASE Step(p).op = "ADD"
  BY <1>1, <1>2, <1>4 DEF Key, HasKey, add_cache_key, add_source_digest
<1>5. CASE Step(p).op = "ADD-URL"
  BY <1>1, <1>2, <1>5 DEF Key, HasKey, url_add_cache_key
<1>6. CASE Step(p).op = "ADD-OCI"
  BY <1>1, <1>2, <1>6 DEF Key, HasKey, oci_image_add_cache_key
<1>7. CASE Step(p).op = "ADD-FROM"
  BY <1>1, <1>2, <1>7 DEF Key, HasKey, cross_stage_add_cache_key
<1> QED
  BY <1>3, <1>4, <1>5, <1>6, <1>7 DEF Cached

LEMMA MissKeeps == ASSUME Inductive, NEW p \in Proc, Miss(p) PROVE Inductive'
<1>1. /\ Shared /\ plan \in Plans /\ p \in DOMAIN b /\ ProcInv(p) /\ Shaped(p) /\ Placed(p)
      /\ ConfigFits(p) /\ StackFits(p) /\ StagesStay(p) /\ LayersFit(p)
  BY Parts
<1>2. /\ AtStep(p) /\ Step(p).op \in Cached /\ HasKey(p) /\ ~(Step(p).op = "RUN" /\ b[p].adopted)
      /\ Goto(p, [b[p] EXCEPT !.pc = "make", !.key = Key(p)])
      /\ UNCHANGED <<tags, cache, world, plan, started, late, mixed>>
  BY DEF Miss, AtCached, history
<1>3. b[p].pc = "step" /\ ~At(p, "idle") /\ b[p].step \in 1..Len(Steps(p))
  BY <1>1, <1>2, AtStepIs
<1>4. b'[p] = [b[p] EXCEPT !.pc = "make", !.key = Key(p)]
  BY <1>1, <1>2 DEF Goto
<1>5. /\ DOMAIN b'[p] = DOMAIN b[p] /\ b'[p].pc = "make" /\ b'[p].key = Key(p)
      /\ b'[p].base = b[p].base /\ b'[p].cfg0 = b[p].cfg0 /\ b'[p].cfg = b[p].cfg
      /\ b'[p].new = b[p].new /\ b'[p].upper = b[p].upper /\ b'[p].bundle = b[p].bundle
      /\ b'[p].adopted = b[p].adopted /\ b'[p].step = b[p].step
      /\ b'[p].recipe = b[p].recipe /\ b'[p].stage = b[p].stage
      /\ b'[p].produced = b[p].produced /\ b'[p].lookup = b[p].lookup
      /\ b'[p].fetched = b[p].fetched
  BY <1>1, <1>4, FieldsAre DEF Shaped
<1>6. Key(p)' = Key(p) /\ Key(p).op = Step(p).op /\ HasKey(p)'
  BY <1>2, <1>5, KeyStays
<1>7. /\ Steps(p)' = Steps(p) /\ \A k : LayersBefore(p, k)' = LayersBefore(p, k)
      /\ \A k : EnvAt(p, k)' = EnvAt(p, k) /\ Step(p)' = Step(p)
  BY <1>5, SameStage
<1>8. Shaped(p)'
  BY <1>1, <1>2, <1>3, <1>5, ShapedNext DEF Shaped, Points
<1>9. StagesStay(p)'
  BY <1>1, <1>2, <1>3, <1>5, StagesStayNext
<1>10. LayersFit(p)'
  BY <1>1, <1>2, <1>3, <1>5, CalmAlone, LayersStay DEF At
<1>11. Placed(p)'
  BY <1>1, <1>2, <1>3, <1>5, <1>7 DEF Placed, At
<1>12. ConfigFits(p)' /\ StackFits(p)'
  BY <1>1, <1>2, <1>3, <1>5, <1>7 DEF ConfigFits, StackFits, At
<1>13. KeyFits(p)'
  BY <1>5, <1>6, <1>7 DEF KeyFits, At
<1>14. ProcInv(p)'
  BY <1>5, <1>8, <1>9, <1>10, <1>11, <1>12, <1>13 DEF ProcInv, BaseStays, At
<1> QED
  BY <1>2, <1>14, MovesAlone
-----------------------------------------------------------------------------
(* Layers made, stored and emitted.                                        *)

(* What holds while a layer is made.                                       *)
LEMMA MakingIs ==
    ASSUME Inductive, NEW p \in Proc, At(p, "make")
    PROVE  /\ b[p].pc = "make" /\ b[p].step \in 1..Len(Steps(p)) /\ Step(p).op \in Cached
           /\ Step(p) = Steps(p)[b[p].step] /\ b[p].step \in LayerSteps(p)
           /\ Step(p) \in StepsOf(plan) /\ b[p].key.op = Step(p).op
           /\ p \notin late \/ Step(p).op \in {"RUN", "ADD", "ADD-URL"} =>
                 b[p].key = Key(p) /\ HasKey(p)
<1>1. Shaped(p) /\ Placed(p) /\ KeyFits(p) /\ ~At(p, "idle")
  BY Parts DEF At
<1>2. b[p].pc = "make" /\ b[p].step \in 1..Len(Steps(p)) /\ Step(p).op \in Cached
  BY <1>1 DEF Placed, At
<1>3. Step(p) = Steps(p)[b[p].step]
  BY DEF Step
<1>4. b[p].step \in LayerSteps(p)
  BY <1>2, <1>3 DEF LayerSteps, Cached
<1>5. Step(p) \in StepsOf(plan)
  BY <1>1, <1>2, <1>3, StepIn
<1> QED
  BY <1>1, <1>2, <1>3, <1>4, <1>5 DEF KeyFits

(* A layer that fits its step, and its key, goes on the chain.             *)
LEMMA PushKeeps ==
    ASSUME Inductive, NEW p \in Proc, At(p, "make"),
           UNCHANGED <<tags, blobs, cache, world, plan, started, late>>,
           NEW l, push_new_layer(p, l), Made(plan, mixed', b[p].key, l),
           RunFits(p, b[p].step, b[p].new, l \in mixed', l),
           AddFits(p, b[p].step, p \in late' \/ l \in mixed', l)
    PROVE  Inductive'
<1> DEFINE i == b[p].step
<1>1. /\ Shared /\ plan \in Plans /\ p \in DOMAIN b /\ ProcInv(p) /\ Shaped(p) /\ Placed(p)
      /\ ConfigFits(p) /\ StackFits(p) /\ StagesStay(p) /\ LayersFit(p)
  BY Parts
<1>2. b[p].pc = "make" /\ i \in 1..Len(Steps(p)) /\ Step(p).op \in Cached /\ i \in LayerSteps(p)
  BY MakingIs
<1>3. /\ Goto(p, [b[p] EXCEPT !.pc = "truncate", !.new = Append(@, l), !.upper = Append(@, l)])
      /\ mixed \subseteq mixed'
  BY DEF push_new_layer
<1>a. Calm(p)
  BY <1>3, CalmAlone
<1>4. b'[p] = [b[p] EXCEPT !.pc = "truncate", !.new = Append(@, l), !.upper = Append(@, l)]
  BY <1>1, <1>3 DEF Goto
<1>5. /\ DOMAIN b'[p] = DOMAIN b[p] /\ b'[p].pc = "truncate" /\ b'[p].key = b[p].key
      /\ b'[p].base = b[p].base /\ b'[p].cfg0 = b[p].cfg0 /\ b'[p].cfg = b[p].cfg
      /\ b'[p].new = Append(b[p].new, l) /\ b'[p].upper = Append(b[p].upper, l)
      /\ b'[p].bundle = b[p].bundle
      /\ b'[p].adopted = b[p].adopted /\ b'[p].step = b[p].step
      /\ b'[p].recipe = b[p].recipe /\ b'[p].stage = b[p].stage
      /\ b'[p].produced = b[p].produced /\ b'[p].lookup = b[p].lookup
      /\ b'[p].fetched = b[p].fetched
  BY <1>1, <1>4, FieldsAre DEF Shaped
<1>6. /\ IsSeq(b'[p].new) /\ LayersFit(p)'
      /\ Len(b'[p].new) = Cardinality(LayersBefore(p, i)) + 1
      /\ b'[p].new[Len(b'[p].new)] = l
  BY <1>1, <1>2, <1>5, <1>a, Appended
<1>7. /\ Steps(p)' = Steps(p) /\ \A k : LayersBefore(p, k)' = LayersBefore(p, k)
      /\ \A k : EnvAt(p, k)' = EnvAt(p, k) /\ Step(p)' = Step(p)
  BY <1>5, SameStage
<1>8. Shaped(p)'
  BY <1>1, <1>2, <1>5, <1>6, ShapedNext DEF Shaped, Points
<1>9. StagesStay(p)'
  BY <1>1, <1>2, <1>5, StagesStayNext
<1>10. Placed(p)'
  BY <1>1, <1>2, <1>5, <1>6, <1>7 DEF Placed, At
<1>11. ConfigFits(p)' /\ StackFits(p)'
  BY <1>1, <1>2, <1>5, <1>7 DEF ConfigFits, StackFits, At
<1>12. KeyFits(p)'
  BY <1>5, <1>6 DEF KeyFits, At
<1>13. ProcInv(p)'
  BY <1>5, <1>6, <1>8, <1>9, <1>10, <1>11, <1>12 DEF ProcInv, BaseStays, At
<1> QED
  BY <1>3, <1>13, MovesAlone

(* apply_run executes on the layers made so far, adopted ones being ruled   *)
(* out.                                                                     *)
LEMMA RunKeeps == ASSUME Inductive, NEW p \in Proc, apply_run(p) PROVE Inductive'
<1>1. /\ At(p, "make") /\ Step(p).op = "RUN"
      /\ UNCHANGED <<tags, blobs, cache, world, plan, started, late>>
  BY DEF apply_run, Making
<1>2. PICK outcome \in plan.outcomes : push_new_layer(p, Ran(p, outcome))
  BY DEF apply_run
<1>3. b[p].key = Key(p) /\ Step(p) = Steps(p)[b[p].step] /\ b[p].pc = "make"
  BY <1>1, MakingIs
<1>4. /\ b[p].bundle = b[p].base \/ p \in late
      /\ b[p].upper = b[p].new
      /\ b[p].cfg.env = EnvAt(p, b[p].step)
  BY <1>1, <1>3, Parts DEF StackFits, ConfigFits
<1>a. Ran(p, outcome).base = b[p].base \/ Ran(p, outcome) \in mixed'
  BY <1>2, <1>4 DEF Ran, push_new_layer
<1>5. RunMade(mixed', run_cache_key(p), Ran(p, outcome))
  BY <1>4, <1>a DEF RunMade, run_cache_key, parent_state, Ran
<1>6. Made(plan, mixed', b[p].key, Ran(p, outcome))
  <2>1. b[p].key = run_cache_key(p) /\ run_cache_key(p).op = "RUN"
    BY <1>1, <1>3 DEF Key, run_cache_key
  <2> QED
    BY <1>5, <2>1 DEF Made
<1>7. RunFits(p, b[p].step, b[p].new, Ran(p, outcome) \in mixed', Ran(p, outcome))
  BY <1>3, <1>4, <1>a DEF RunFits, Ran
<1>8. AddFits(p, b[p].step, p \in late' \/ Ran(p, outcome) \in mixed', Ran(p, outcome))
  BY <1>1, <1>3 DEF AddFits
<1> QED
  BY <1>1, <1>2, <1>6, <1>7, <1>8, PushKeeps

LEMMA AddKeeps == ASSUME Inductive, NEW p \in Proc, apply_add(p) PROVE Inductive'
<1> DEFINE t == Step(p)
           l == Copied(world[t.src.id], compute_add_destination(t.dst, t.src))
<1>1. /\ At(p, "make") /\ t.op = "ADD" /\ push_new_layer(p, l)
      /\ UNCHANGED <<tags, blobs, cache, world, plan, started, late>>
  BY DEF apply_add, Making
<1>2. b[p].key = Key(p) /\ t = Steps(p)[b[p].step] /\ t \in StepsOf(plan)
  BY <1>1, MakingIs
<1>3. l.content = world[t.src.id]
  BY DEF Copied
<1>4. AddMade(plan, add_cache_key(p), l)
  BY <1>1, <1>2, <1>3, Zenon DEF AddMade, add_cache_key, add_source_digest
<1>5. Made(plan, mixed', b[p].key, l)
  <2>1. b[p].key = add_cache_key(p) /\ add_cache_key(p).op = "ADD"
    BY <1>1, <1>2 DEF Key, add_cache_key
  <2> QED
    BY <1>4, <2>1 DEF Made
<1>6. CopyFits(t, world[t.src.id], l)
  BY <1>2, Zenon DEF CopyFits, Twin
<1>7. /\ RunFits(p, b[p].step, b[p].new, l \in mixed', l)
      /\ AddFits(p, b[p].step, p \in late' \/ l \in mixed', l)
  BY <1>1, <1>2, <1>6, Zenon DEF RunFits, AddFits
<1> QED
  BY <1>1, <1>5, <1>7, PushKeeps

LEMMA AddUrlKeeps == ASSUME Inductive, NEW p \in Proc, apply_add_url(p) PROVE Inductive'
<1> DEFINE t == Step(p)
           l == Copied(b[p].fetched[t.src.id], compute_add_destination(t.dst, t.src))
<1>1. /\ At(p, "make") /\ t.op = "ADD-URL" /\ push_new_layer(p, l)
      /\ UNCHANGED <<tags, blobs, cache, world, plan, started, late>>
  BY DEF apply_add_url, Making
<1>2. b[p].key = Key(p) /\ t = Steps(p)[b[p].step] /\ t \in StepsOf(plan)
  BY <1>1, MakingIs
<1>3. UrlMade(plan, url_add_cache_key(p), l)
  BY <1>1, <1>2, Zenon DEF UrlMade, url_add_cache_key
<1>4. Made(plan, mixed', b[p].key, l)
  <2>1. b[p].key = url_add_cache_key(p) /\ url_add_cache_key(p).op = "ADD-URL"
    BY <1>1, <1>2 DEF Key, url_add_cache_key
  <2> QED
    BY <1>3, <2>1 DEF Made
<1>5. CopyFits(t, b[p].fetched[t.src.id], l)
  BY <1>2, Zenon DEF CopyFits, Twin
<1>6. /\ RunFits(p, b[p].step, b[p].new, l \in mixed', l)
      /\ AddFits(p, b[p].step, p \in late' \/ l \in mixed', l)
  BY <1>1, <1>2, <1>5, Zenon DEF RunFits, AddFits
<1> QED
  BY <1>1, <1>4, <1>6, PushKeeps

(* apply_add_oci_image lays the image that the ref names now, which is the *)
(* one the key names unless the ref moved.                                 *)
LEMMA AddOciKeeps == ASSUME Inductive, NEW p \in Proc, apply_add_oci_image(p) PROVE Inductive'
<1> DEFINE t == Step(p)
           a == b[p].recipe.arch
           l == Unpacked(Select(tags[t.ref], a), "root", <<t.dst.path>>)
<1>1. /\ At(p, "make") /\ t.op = "ADD-OCI" /\ push_new_layer(p, l)
      /\ t.ref \in DOMAIN tags /\ Unpackable(tags[t.ref], a)
      /\ UNCHANGED <<tags, blobs, cache, world, plan, started, late>>
  BY DEF apply_add_oci_image, Making
<1>2. b[p].key.op = "ADD-OCI" /\ t = Steps(p)[b[p].step] /\ (p \notin late => b[p].key = Key(p))
  BY <1>1, MakingIs
<1>3. p \in late => l \in mixed'
  BY <1>1 DEF push_new_layer
<1>4. b[p].recipe \in plan.recipes
  BY <1>1, Parts DEF Shaped, At
<1>5. Made(plan, mixed', b[p].key, l)
  <2>1. ASSUME p \notin late PROVE OciMade(plan, b[p].key, l)
    <3>1. b[p].key = oci_image_add_cache_key(p)
      BY <1>1, <1>2, <2>1 DEF Key
    <3>2. b[p].key.manifest = tags[t.ref] /\ b[p].key.dst = t.dst
      BY <3>1 DEF oci_image_add_cache_key
    <3> HIDE DEF t
    <3> QED
      BY <1>1, <1>4, <3>2, Zenon DEF OciMade
  <2> QED
    BY <1>2, <1>3, <2>1 DEF Made
<1>6. ImageFits(t, l)
  BY <1>1, <1>4, Zenon DEF ImageFits
<1>7. /\ RunFits(p, b[p].step, b[p].new, l \in mixed', l)
      /\ AddFits(p, b[p].step, p \in late' \/ l \in mixed', l)
  BY <1>1, <1>2, <1>6, Zenon DEF RunFits, AddFits
<1> QED
  BY <1>1, <1>5, <1>7, PushKeeps

(* apply_add_from_stage copies from the image that the stage produced, if  *)
(* its ref still names that.                                               *)
LEMMA AddFromKeeps == ASSUME Inductive, NEW p \in Proc, apply_add_from_stage(p) PROVE Inductive'
<1> DEFINE t == Step(p)
           ref == Producer(p, t.from).ref
           at == compute_add_destination(t.dst, t.src)
           l == Unpacked(Select(tags[ref], b[p].recipe.arch), t.src.id, at)
<1>1. /\ At(p, "make") /\ t.op = "ADD-FROM" /\ push_new_layer(p, l)
      /\ UNCHANGED <<tags, blobs, cache, world, plan, started, late>>
  BY DEF apply_add_from_stage, Making
<1>2. /\ b[p].key.op = "ADD-FROM" /\ t = Steps(p)[b[p].step] /\ t \in StepsOf(plan)
      /\ b[p].step \in 1..Len(Steps(p)) /\ (p \notin late => b[p].key = Key(p))
  BY <1>1, MakingIs
<1>3. p \in late => l \in mixed'
  BY <1>1 DEF push_new_layer
<1>4. ASSUME p \notin late
      PROVE  /\ l = Unpacked(Producer(p, t.from).image, t.src.id, at)
             /\ FromMade(plan, b[p].key, l)
  <2>1. plan \in Plans /\ Shaped(p) /\ ~At(p, "idle") /\ StagesStay(p)
    BY <1>1, Parts DEF At
  <2>2. tags[ref] = Producer(p, t.from).image /\ ~IsIndex(tags[ref])
    BY <1>1, <1>2, <1>4, <2>1, ProducedIs
  <2>3. l = Unpacked(tags[ref], t.src.id, at)
    BY <2>2 DEF Select
  <2>4. b[p].key = cross_stage_add_cache_key(p)
    BY <1>1, <1>2, <1>4 DEF Key
  <2>5. FromMade(plan, cross_stage_add_cache_key(p), l)
    BY <1>1, <1>2, <2>3, Zenon DEF FromMade, cross_stage_add_cache_key
  <2> QED
    BY <2>2, <2>3, <2>4, <2>5
<1>5. Made(plan, mixed', b[p].key, l)
  BY <1>2, <1>3, <1>4 DEF Made
<1>6. /\ RunFits(p, b[p].step, b[p].new, l \in mixed', l)
      /\ AddFits(p, b[p].step, p \in late' \/ l \in mixed', l)
  BY <1>1, <1>2, <1>3, <1>4, Zenon DEF RunFits, AddFits
<1> QED
  BY <1>1, <1>5, <1>6, PushKeeps

(* Half an entry is no entry.                                              *)
LEMMA TruncateKeeps == ASSUME Inductive, NEW p \in Proc, StoreTruncate(p) PROVE Inductive'
<1>1. /\ Shared /\ plan \in Plans /\ p \in DOMAIN b /\ ProcInv(p) /\ Shaped(p) /\ Placed(p)
      /\ ConfigFits(p) /\ StackFits(p) /\ StagesStay(p) /\ LayersFit(p) /\ KeyFits(p)
  BY Parts
<1>2. /\ b[p].pc = "truncate" /\ cache' = Put(cache, b[p].key, Torn)
      /\ Goto(p, [b[p] EXCEPT !.pc = "write"])
      /\ tags' = tags /\ world' = world /\ plan' = plan /\ started' = started
      /\ late' = late /\ mixed' = mixed
  BY DEF StoreTruncate, At, history
<1>3. /\ DOMAIN b' = Proc /\ \A q \in Proc \ {p} : b'[q] = b[q]
      /\ b'[p] = [b[p] EXCEPT !.pc = "write"]
  BY <1>1, <1>2 DEF Goto, Shared
<1>4. /\ DOMAIN b'[p] = DOMAIN b[p] /\ b'[p].pc = "write" /\ b'[p].key = b[p].key
      /\ b'[p].base = b[p].base /\ b'[p].cfg0 = b[p].cfg0 /\ b'[p].cfg = b[p].cfg
      /\ b'[p].new = b[p].new /\ b'[p].upper = b[p].upper /\ b'[p].bundle = b[p].bundle
      /\ b'[p].adopted = b[p].adopted /\ b'[p].step = b[p].step
      /\ b'[p].recipe = b[p].recipe /\ b'[p].stage = b[p].stage
      /\ b'[p].produced = b[p].produced /\ b'[p].lookup = b[p].lookup
      /\ b'[p].fetched = b[p].fetched
  BY <1>1, <1>3, FieldsAre DEF Shaped
<1>5. /\ Steps(p)' = Steps(p) /\ \A k : LayersBefore(p, k)' = LayersBefore(p, k)
      /\ \A k : EnvAt(p, k)' = EnvAt(p, k) /\ Step(p)' = Step(p)
  BY <1>4, SameStage
<1>6. Shaped(p)'
  BY <1>1, <1>2, <1>4, ShapedNext DEF Shaped, Points
<1>7. StagesStay(p)'
  BY <1>1, <1>2, <1>4, StagesStayNext
<1>8. LayersFit(p)'
  BY <1>1, <1>2, <1>4, CalmAlone, LayersStay DEF At
<1>9. Placed(p)' /\ ConfigFits(p)' /\ StackFits(p)'
  BY <1>1, <1>2, <1>4, <1>5 DEF Placed, ConfigFits, StackFits, At
<1>10. KeyFits(p)'
  BY <1>1, <1>2, <1>4 DEF KeyFits, At
<1>11. ProcInv(p)'
  BY <1>4, <1>6, <1>7, <1>8, <1>9, <1>10 DEF ProcInv, BaseStays, At
<1>12. \A k \in DOMAIN cache' : cache'[k] # Torn => Made(plan, mixed', k, cache'[k])
  <2>1. \A k \in DOMAIN cache' : cache'[k] # Torn => k \in DOMAIN cache /\ cache'[k] = cache[k]
    BY <1>2 DEF Put
  <2> QED
    BY <1>1, <1>2, <2>1 DEF Shared
<1>13. started' \in 0..plan.builds /\ \A r \in DOMAIN tags' : HasConfig(tags'[r])
  BY <1>1, <1>2 DEF Shared
<1> QED
  BY <1>2, <1>3, <1>11, <1>12, <1>13, CalmAlone, Moves

(* store: an entry is written under the key of the step that made it.       *)
LEMMA StoreKeeps == ASSUME Inductive, NEW p \in Proc, store(p) PROVE Inductive'
<1> DEFINE l == b[p].new[Len(b[p].new)]
           i == b[p].step
<1>1. /\ Shared /\ plan \in Plans /\ p \in DOMAIN b /\ ProcInv(p) /\ Shaped(p) /\ Placed(p)
      /\ ConfigFits(p) /\ StackFits(p) /\ StagesStay(p) /\ LayersFit(p) /\ KeyFits(p)
  BY Parts
<1>2. /\ b[p].pc = "write" /\ cache' = Put(cache, b[p].key, l)
      /\ Goto(p, [b[p] EXCEPT !.pc = "step", !.step = @ + 1, !.key = <<>>])
      /\ tags' = tags /\ world' = world /\ plan' = plan /\ started' = started
      /\ late' = late /\ mixed' = mixed
  BY DEF store, At, history
<1>3. /\ DOMAIN b' = Proc /\ \A q \in Proc \ {p} : b'[q] = b[q]
      /\ b'[p] = [b[p] EXCEPT !.pc = "step", !.step = @ + 1, !.key = <<>>]
  BY <1>1, <1>2 DEF Goto, Shared
<1>4. /\ DOMAIN b'[p] = DOMAIN b[p] /\ b'[p].pc = "step" /\ b'[p].step = i + 1
      /\ b'[p].base = b[p].base /\ b'[p].cfg0 = b[p].cfg0 /\ b'[p].cfg = b[p].cfg
      /\ b'[p].new = b[p].new /\ b'[p].upper = b[p].upper /\ b'[p].bundle = b[p].bundle
      /\ b'[p].adopted = b[p].adopted
      /\ b'[p].recipe = b[p].recipe /\ b'[p].stage = b[p].stage
      /\ b'[p].produced = b[p].produced /\ b'[p].lookup = b[p].lookup
      /\ b'[p].fetched = b[p].fetched
  BY <1>1, <1>3, FieldsAre DEF Shaped
<1>5. /\ Steps(p)' = Steps(p) /\ \A k : LayersBefore(p, k)' = LayersBefore(p, k)
      /\ \A k : EnvAt(p, k)' = EnvAt(p, k)
  BY <1>4, SameStage
<1>6. Shaped(p)'
  BY <1>1, <1>2, <1>4, ShapedNext DEF Shaped, Points
<1>7. StagesStay(p)'
  BY <1>1, <1>2, <1>4, StagesStayNext
<1>8. LayersFit(p)'
  BY <1>1, <1>2, <1>4, CalmAlone, LayersStay DEF At
<1>9. /\ i \in 1..Len(Steps(p)) /\ IsSeq(Steps(p)) /\ Len(Steps(p)) \in Nat
      /\ Steps(p)[i].op \in Cached
  BY <1>1, <1>2, RecipeIs DEF Placed, At, Step
<1>10. Steps(p)[i].op # "ENV" /\ i \in LayerSteps(p)
  BY <1>9 DEF Cached, LayerSteps
<1>11. Placed(p)'
  <2>1. Len(b[p].new) = Cardinality(LayersBefore(p, i + 1))
    BY <1>1, <1>2, <1>9, <1>10, Counted DEF Placed
  <2> QED
    BY <1>4, <1>5, <1>9, <2>1 DEF Placed, At
<1>12. ConfigFits(p)'
  BY <1>1, <1>2, <1>4, <1>5, <1>9, <1>10, EnvNext DEF ConfigFits
<1>13. StackFits(p)'
  BY <1>1, <1>2, <1>4 DEF StackFits, At
<1>14. ProcInv(p)'
  BY <1>4, <1>6, <1>7, <1>8, <1>11, <1>12, <1>13 DEF ProcInv, BaseStays, KeyFits, At
<1>15. \A k \in DOMAIN cache' : cache'[k] # Torn => Made(plan, mixed', k, cache'[k])
  <2>1. Made(plan, mixed, b[p].key, l)
    BY <1>1, <1>2 DEF KeyFits
  <2> HIDE DEF l
  <2>2. \A k \in DOMAIN cache' :
          (k = b[p].key /\ cache'[k] = l) \/ (k \in DOMAIN cache /\ cache'[k] = cache[k])
    BY <1>2 DEF Put
  <2> QED
    BY <1>1, <1>2, <2>1, <2>2 DEF Shared
<1>16. started' \in 0..plan.builds /\ \A r \in DOMAIN tags' : HasConfig(tags'[r])
  BY <1>1, <1>2 DEF Shared
<1> QED
  BY <1>2, <1>3, <1>14, <1>15, <1>16, CalmAlone, Moves

LEMMA WorkdirKeeps == ASSUME Inductive, NEW p \in Proc, apply_workdir(p) PROVE Inductive'
<1> DEFINE l == Dir(Step(p).path)
           i == b[p].step
<1>1. /\ Shared /\ plan \in Plans /\ p \in DOMAIN b /\ ProcInv(p) /\ Shaped(p)
      /\ ConfigFits(p) /\ StackFits(p) /\ StagesStay(p)
  BY Parts
<1>2. /\ AtStep(p) /\ Step(p).op = "WORKDIR"
      /\ Goto(p, [b[p] EXCEPT !.new = Append(@, l), !.upper = Append(@, l),
                              !.cfg.cwd = Step(p).path, !.step = @ + 1])
      /\ UNCHANGED <<tags, cache, world, plan, started, late, mixed>>
  BY DEF apply_workdir, history
<1>3. /\ b[p].pc = "step" /\ ~At(p, "idle") /\ i \in 1..Len(Steps(p)) /\ Len(Steps(p)) \in Nat
      /\ i \in LayerSteps(p) /\ Step(p) = Steps(p)[i] /\ Step(p).op # "ENV"
  BY <1>1, <1>2, AtStepIs
<1>4. RunFits(p, i, b[p].new, l \in mixed', l) /\ AddFits(p, i, p \in late' \/ l \in mixed', l)
  BY <1>2, <1>3 DEF RunFits, AddFits
<1> HIDE DEF l
<1>5. b'[p] = [b[p] EXCEPT !.new = Append(@, l), !.upper = Append(@, l),
                           !.cfg.cwd = Step(p).path, !.step = @ + 1]
  BY <1>1, <1>2 DEF Goto
<1>6. /\ DOMAIN b'[p] = DOMAIN b[p] /\ b'[p].pc = "step" /\ b'[p].bundle = b[p].bundle
      /\ b'[p].base = b[p].base /\ b'[p].cfg0 = b[p].cfg0
      /\ b'[p].cfg = [b[p].cfg EXCEPT !.cwd = Step(p).path]
      /\ b'[p].new = Append(b[p].new, l) /\ b'[p].upper = Append(b[p].upper, l)
      /\ b'[p].adopted = b[p].adopted
      /\ b'[p].step = i + 1 /\ b'[p].recipe = b[p].recipe /\ b'[p].stage = b[p].stage
      /\ b'[p].produced = b[p].produced /\ b'[p].lookup = b[p].lookup
      /\ b'[p].fetched = b[p].fetched
  BY <1>1, <1>3, <1>5, FieldsAre DEF Shaped
<1>7. /\ IsSeq(b'[p].new) /\ LayersFit(p)'
      /\ Len(b'[p].new) = Cardinality(LayersBefore(p, i + 1))
  BY <1>1, <1>2, <1>3, <1>4, <1>6, CalmAlone, Appended
<1>8. /\ Steps(p)' = Steps(p) /\ \A k : LayersBefore(p, k)' = LayersBefore(p, k)
      /\ \A k : EnvAt(p, k)' = EnvAt(p, k)
  BY <1>6, SameStage
<1>9. Shaped(p)'
  BY <1>1, <1>2, <1>3, <1>6, <1>7, ShapedNext DEF Shaped, Points
<1>10. StagesStay(p)'
  BY <1>1, <1>2, <1>3, <1>6, StagesStayNext
<1>11. ConfigFits(p)'
  <2>1. IsConfig(b[p].cfg) /\ b[p].cfg.env = EnvAt(p, i)
    BY <1>1, <1>3 DEF ConfigFits
  <2>2. IsConfig(b'[p].cfg) /\ b'[p].cfg.env = b[p].cfg.env
    BY <1>6, <2>1 DEF IsConfig
  <2> QED
    BY <1>3, <1>6, <1>8, <2>1, <2>2, EnvNext DEF ConfigFits
<1>12. Placed(p)'
  BY <1>3, <1>6, <1>7, <1>8 DEF Placed, At
<1>13. StackFits(p)'
  BY <1>1, <1>2, <1>3, <1>6 DEF StackFits, At
<1>14. ProcInv(p)'
  BY <1>6, <1>7, <1>9, <1>10, <1>11, <1>12, <1>13 DEF ProcInv, BaseStays, KeyFits, At
<1> QED
  BY <1>2, <1>14, MovesAlone

LEMMA EnvKeeps == ASSUME Inductive, NEW p \in Proc, apply_env(p) PROVE Inductive'
<1> DEFINE i == b[p].step
<1>1. /\ Shared /\ plan \in Plans /\ p \in DOMAIN b /\ ProcInv(p) /\ Shaped(p) /\ Placed(p)
      /\ ConfigFits(p) /\ StackFits(p) /\ StagesStay(p) /\ LayersFit(p)
  BY Parts
<1>2. /\ AtStep(p) /\ Step(p).op = "ENV"
      /\ Goto(p, [b[p] EXCEPT !.cfg.env = Step(p).val, !.step = @ + 1])
      /\ UNCHANGED <<tags, cache, world, plan, started, late, mixed>>
  BY DEF apply_env, history
<1>3. /\ b[p].pc = "step" /\ ~At(p, "idle") /\ i \in 1..Len(Steps(p)) /\ Len(Steps(p)) \in Nat
      /\ i \notin LayerSteps(p) /\ Step(p) = Steps(p)[i]
  BY <1>1, <1>2, AtStepIs
<1>4. b'[p] = [b[p] EXCEPT !.cfg.env = Step(p).val, !.step = @ + 1]
  BY <1>1, <1>2 DEF Goto
<1>5. /\ DOMAIN b'[p] = DOMAIN b[p] /\ b'[p].pc = "step" /\ b'[p].bundle = b[p].bundle
      /\ b'[p].base = b[p].base /\ b'[p].cfg0 = b[p].cfg0
      /\ b'[p].cfg = [b[p].cfg EXCEPT !.env = Step(p).val]
      /\ b'[p].new = b[p].new /\ b'[p].upper = b[p].upper
      /\ b'[p].adopted = b[p].adopted
      /\ b'[p].step = i + 1 /\ b'[p].recipe = b[p].recipe /\ b'[p].stage = b[p].stage
      /\ b'[p].produced = b[p].produced /\ b'[p].lookup = b[p].lookup
      /\ b'[p].fetched = b[p].fetched
  BY <1>1, <1>3, <1>4, FieldsAre DEF Shaped
<1>6. /\ Steps(p)' = Steps(p) /\ \A k : LayersBefore(p, k)' = LayersBefore(p, k)
      /\ \A k : EnvAt(p, k)' = EnvAt(p, k)
  BY <1>5, SameStage
<1>7. Shaped(p)'
  BY <1>1, <1>2, <1>3, <1>5, ShapedNext DEF Shaped, Points
<1>8. StagesStay(p)'
  BY <1>1, <1>2, <1>3, <1>5, StagesStayNext
<1>9. LayersFit(p)'
  BY <1>1, <1>2, <1>3, <1>5, CalmAlone, LayersStay DEF At
<1>10. ConfigFits(p)'
  <2>1. IsConfig(b[p].cfg)
    BY <1>1, <1>3 DEF ConfigFits
  <2>2. IsConfig(b'[p].cfg) /\ b'[p].cfg.env = Step(p).val
    BY <1>5, <2>1 DEF IsConfig
  <2>3. EnvAt(p, i + 1) = Step(p).val
    BY <1>2, <1>3, EnvNext
  <2> QED
    BY <1>5, <1>6, <2>2, <2>3 DEF ConfigFits
<1>11. Placed(p)'
  <2>1. LayersBefore(p, i + 1) = LayersBefore(p, i)
    BY <1>1, <1>3, RecipeIs, Counted
  <2> QED
    BY <1>1, <1>3, <1>5, <1>6, <2>1 DEF Placed, At
<1>12. StackFits(p)'
  BY <1>1, <1>2, <1>3, <1>5 DEF StackFits, At
<1>13. ProcInv(p)'
  BY <1>5, <1>7, <1>8, <1>9, <1>10, <1>11, <1>12 DEF ProcInv, BaseStays, KeyFits, At
<1> QED
  BY <1>2, <1>13, MovesAlone

(* The image of a stage is tagged: a build that reads that ref is late     *)
(* from now on, and this build's own stages have refs of their own.        *)
LEMMA EmitKeeps == ASSUME Inductive, NEW p \in Proc, emit_image(p) PROVE Inductive'
<1> DEFINE image == [arch |-> b[p].recipe.arch, cfg |-> b[p].cfg,
                     layers |-> b[p].base \o b[p].new]
           r == b[p].recipe
           n == b[p].stage
           ref == StageRef(p)
<1>1. /\ Shared /\ plan \in Plans /\ p \in DOMAIN b /\ ProcInv(p) /\ Shaped(p)
      /\ ConfigFits(p) /\ StagesStay(p)
  BY Parts
<1>2. /\ b[p].pc = "step" /\ tags' = Put(tags, ref, image)
      /\ cache' = cache /\ world' = world /\ plan' = plan /\ started' = started
      /\ mixed' = mixed
      /\ late' = (late \cup Overtaken(p, ref, image)) \ (IF n = Len(r.stages) THEN {p} ELSE {})
  BY DEF emit_image, At
<1>3. \E f : Goto(p, f)
  BY DEF emit_image
<1>4. DOMAIN b' = Proc /\ \A q \in Proc \ {p} : b'[q] = b[q]
  BY <1>1, <1>3 DEF Goto, Shared
<1>5. /\ p \in plan.procs /\ r \in plan.recipes /\ check_cross_stage_refs(r)
      /\ n \in 1..Len(r.stages) /\ WellFormed(r) /\ Len(r.stages) \in Nat
  BY <1>1, <1>2, RecipeIs DEF Shaped, At
<1>6. ~IsIndex(image) /\ HasConfig(image)
  <2>1. IsConfig(b[p].cfg)
    BY <1>1, <1>2 DEF ConfigFits
  <2>2. DOMAIN image = {"arch", "cfg", "layers"} /\ image.cfg = b[p].cfg
    OBVIOUS
  <2> HIDE DEF image
  <2> QED
    BY <2>1, <2>2 DEF IsIndex, HasConfig
<1> HIDE DEF image
<1>8. /\ ref \in DOMAIN tags' /\ tags'[ref] = image
      /\ \A x \in DOMAIN tags : x \in DOMAIN tags' /\ (x # ref => tags'[x] = tags[x])
      /\ \A x \in DOMAIN tags' : x = ref \/ x \in DOMAIN tags
  BY <1>2 DEF Put
<1> HIDE DEF ref
<1>7. n # Len(r.stages) => (p \in late => p \in late') /\ (p \in late' => p \in late)
  BY <1>2 DEF Overtaken
<1>9. ASSUME NEW q \in Proc \ {p}, ~At(q, "idle") PROVE Calm(q)
  <2>1. q \in late => q \in late'
    BY <1>2, <1>9
  <2>2. ASSUME q \notin late', NEW x \in DOMAIN tags, ReadsRef(b[q].recipe, x)
        PROVE  x \in DOMAIN tags' /\ tags'[x] = tags[x]
    <3>1. CASE x # ref
      BY <1>8, <3>1
    <3>2. CASE x = ref
      <4>1. q \notin Overtaken(p, ref, image)
        BY <1>2, <1>9, <2>2
      <4>2. tags[ref] = image
        BY <1>9, <2>2, <3>2, <4>1 DEF Overtaken
      <4> QED
        BY <1>8, <3>2, <4>2
    <3> QED
      BY <3>1, <3>2
  <2> QED
    BY <1>2, <2>1, <2>2 DEF Calm
<1>10. \A x \in DOMAIN tags' : HasConfig(tags'[x])
  <2>1. \A x \in DOMAIN tags : HasConfig(tags[x])
    BY <1>1 DEF Shared
  <2>2. \A x \in DOMAIN tags' : tags'[x] = image \/ (x \in DOMAIN tags /\ tags'[x] = tags[x])
    BY <1>8
  <2> QED
    BY <1>6, <2>1, <2>2
<1>11. ProcInv(p)'
  <2>1. CASE n = Len(r.stages)
    <3>1. b'[p] = Idle
      BY <1>1, <2>1 DEF emit_image, Goto
    <3> QED
      BY <3>1, IdleFitsNext
  <2>2. CASE n # Len(r.stages)
    <3> DEFINE made == [name |-> Stage(p).name, ref |-> ref, image |-> image]
               s == b[p].produced
    <3>1. b'[p] = [Idle EXCEPT !.pc = "pull", !.recipe = r, !.stage = n + 1,
                               !.fetched = b[p].fetched, !.produced = Append(s, made)]
      BY <1>1, <2>2 DEF emit_image, Goto, image, ref
    <3> HIDE DEF made
    <3>2. /\ DOMAIN b'[p] = DOMAIN Idle /\ b'[p].pc = "pull" /\ b'[p].recipe = r
          /\ b'[p].stage = n + 1 /\ b'[p].new = <<>> /\ b'[p].produced = Append(s, made)
          /\ b'[p].lookup = TRUE /\ b'[p].adopted = FALSE
      BY <3>1 DEF Idle
    <3>3. IsSeq(s) /\ Len(s) = n - 1
      BY <1>1, <1>2 DEF Shaped, StagesStay, At
    <3>4. /\ IsSeq(Append(s, made)) /\ Len(Append(s, made)) = Len(s) + 1
          /\ Append(s, made)[Len(s) + 1] = made
          /\ \A k \in 1..Len(s) : Append(s, made)[k] = s[k]
      BY <3>3, AppendIs
    <3>5. Len(Append(s, made)) = n /\ Append(s, made)[n] = made
      BY <1>5, <3>3, <3>4
    <3>6. /\ made.name = r.stages[n].name /\ made.ref = ref /\ made.image = image
          /\ ref = Internal[n]
      BY <2>2 DEF made, Stage, ref, StageRef
    <3>7. \A k \in 1..(n - 1) : Internal[k] # ref
      BY <1>5, <2>2, <3>6 DEF WellFormed
    <3>8. ASSUME NEW k \in 1..n
          PROVE  LET e == Append(s, made)[k] IN
                 /\ e.name = r.stages[k].name /\ e.ref = Internal[k] /\ ~IsIndex(e.image)
                 /\ p \notin late' /\ ReadsRef(r, Internal[k]) =>
                       Internal[k] \in DOMAIN tags' /\ tags'[Internal[k]] = e.image
      <4>1. CASE k = n
        BY <1>6, <1>8, <3>5, <3>6, <4>1
      <4>2. CASE k \in 1..(n - 1)
        <5>1. Append(s, made)[k] = s[k] /\ Internal[k] # ref
          BY <3>3, <3>4, <3>7, <4>2
        <5>2. /\ s[k].name = r.stages[k].name /\ s[k].ref = Internal[k] /\ ~IsIndex(s[k].image)
              /\ p \notin late /\ ReadsRef(r, Internal[k]) =>
                    Internal[k] \in DOMAIN tags /\ tags[Internal[k]] = s[k].image
          BY <1>1, <1>2, <3>3, <4>2 DEF StagesStay, At
        <5> QED
          BY <1>7, <1>8, <2>2, <5>1, <5>2
      <4>3. k = n \/ k \in 1..(n - 1)
        BY <1>5
      <4> QED
        BY <4>1, <4>2, <4>3
    <3>9. StagesStay(p)'
      <4>1. (n + 1) - 1 = n
        BY <1>5
      <4> QED
        BY <3>2, <3>5, <3>8, <4>1 DEF StagesStay
    <3>10. n + 1 \in 1..Len(r.stages)
      BY <1>5, <2>2
    <3> HIDE DEF r, n, s
    <3> QED
      BY <1>2, <1>5, <3>2, <3>4, <3>9, <3>10, StageBegins
  <2> QED
    BY <2>1, <2>2
<1>12. \A k \in DOMAIN cache' : cache'[k] # Torn => Made(plan, mixed', k, cache'[k])
  BY <1>1, <1>2 DEF Shared
<1>13. started' \in 0..plan.builds
  BY <1>1, <1>2 DEF Shared
<1> QED
  BY <1>2, <1>4, <1>9, <1>10, <1>11, <1>12, <1>13, Moves

(* What happens around the builds.                                         *)
LEMMA EditKeeps == ASSUME Inductive, Edit PROVE Inductive'
<1>1. /\ \A p \in Proc : At(p, "idle") /\ ProcInv(p)
      /\ Shared /\ tags' = tags /\ cache' = cache /\ plan' = plan /\ started' = started /\ b' = b
      /\ mixed' = mixed
  BY DEF Edit, Inductive, history
<1>2. world' \in [DOMAIN World -> Content]
  BY <1>1 DEF Edit, Shared
<1>3. Shared'
  BY <1>1, <1>2 DEF Shared
<1>4. ASSUME NEW p \in Proc PROVE ProcInv(p)'
  <2>1. b'[p] = Idle
    BY <1>1 DEF ProcInv, Shaped
  <2> QED
    BY <2>1, IdleFitsNext
<1> QED
  BY <1>3, <1>4 DEF Inductive

(* The invariant does not speak of blobs, so neither a prune nor a step    *)
(* that leaves the rest alone disturbs it.                                 *)
LEMMA BlobsOnly ==
    ASSUME Inductive, UNCHANGED <<tags, cache, world, plan, started, b, late, mixed>>
    PROVE  Inductive'
<1>1. Shared /\ plan \in Plans /\ \A p \in Proc : ProcInv(p)
  BY DEF Inductive, Shared
<1>2. Shared'
  BY <1>1 DEF Shared
<1>3. ASSUME NEW p \in Proc PROVE ProcInv(p)'
  <2>1. CASE At(p, "idle")
    <3>1. b'[p] = Idle
      BY <1>1, <2>1 DEF ProcInv, Shaped
    <3> QED
      BY <3>1, IdleFitsNext
  <2>2. CASE ~At(p, "idle")
    BY <1>1, <2>2, CalmAlone, Untouched
  <2> QED
    BY <2>1, <2>2
<1> QED
  BY <1>2, <1>3 DEF Inductive

-----------------------------------------------------------------------------
(* The theorems.  They hold of every layout and of every overlap; what the *)
(* code does not ensure when a ref moves under a build, or when two steps  *)
(* share a key, is in the properties themselves.                           *)

(* Initially nothing is tagged, cached or being built.                      *)
LEMMA InitHolds == Init => Inductive
<1> SUFFICES ASSUME Init PROVE Inductive
  OBVIOUS
<1>1. /\ DOMAIN tags = {} /\ DOMAIN cache = {} /\ world = World /\ started = 0
      /\ plan \in Plans /\ DOMAIN b = Proc /\ \A p \in Proc : b[p] = Idle
  BY DEF Init
<1>2. Shared
  BY <1>1, BuildAssumption DEF Shared
<1> QED
  BY <1>1, <1>2, IdleFits DEF Inductive

(* Every step of the specification.                                         *)
LEMMA NextKeeps == ASSUME Inductive, [Next]_vars PROVE Inductive'
<1>2. ASSUME NEW p \in Proc, build(p) \/ Fail(p) PROVE Inductive'
  BY <1>2, BuildKeeps, FailKeeps
<1>3. ASSUME NEW p \in Proc, Advance(p) PROVE Inductive'
  BY <1>3, PullKeeps, ResolveKeeps, FromImageKeeps, AdoptKeeps, RebuildKeeps, MissKeeps,
     RunKeeps, AddKeeps, AddUrlKeeps, AddOciKeeps, AddFromKeeps, TruncateKeeps, StoreKeeps,
     WorkdirKeeps, EnvKeeps, EmitKeeps DEF Advance
<1>4. CASE Edit
  BY <1>4, EditKeeps
<1>5. CASE prune_blobs
  BY <1>5, BlobsOnly DEF prune_blobs, history
<1>6. CASE UNCHANGED vars \/ Rest
  BY <1>6, BlobsOnly DEF vars, Rest
<1> QED
  BY <1>2, <1>3, <1>4, <1>5, <1>6 DEF Next

(* Every layer of a build is the one its directive asks for.               *)
LEMMA InductiveHolds == Spec => []Inductive
<1>1. Inductive /\ [Next]_vars => Inductive'
  BY NextKeeps
<1> QED
  BY <1>1, InitHolds, PTL DEF Spec

(* The invariant implies both properties.                                   *)
LEMMA StageFollows == Inductive => StageInv /\ RunSawLayersBelow
<1> SUFFICES ASSUME Inductive PROVE StageInv /\ RunSawLayersBelow
  OBVIOUS
<1>1. Shared /\ \A p \in Proc : Shaped(p) /\ Placed(p) /\ LayersFit(p)
  BY DEF Inductive, ProcInv
<1>2. TypeOK
  BY <1>1 DEF TypeOK, Shared, Shaped, Placed
<1>3. AddAsWritten
  <2>1. \A p \in Proc : \A j \in 1..Len(b[p].new) :
          AddFits(p, StepOf(p, j), p \in late \/ b[p].new[j] \in mixed, b[p].new[j])
    BY <1>1 DEF LayersFit
  <2> QED
    BY <2>1, Zenon DEF AddAsWritten, AddFits, CopyFits, ImageFits
<1>4. RunSawLayersBelow
  BY <1>1 DEF RunSawLayersBelow, LayersFit, RunFits
<1> QED
  BY <1>2, <1>3, <1>4 DEF StageInv

(* An added layer, adopted from the step cache or copied by this build,    *)
(* holds what its source holds now, at the place that the directive or a   *)
(* directive with the same key names; one of an image is the tree that the *)
(* ref names for some architecture built here, and one of ADD --from the   *)
(* image that this very build emitted for the stage, unless a ref moved    *)
(* under the build that made it or under this one: adopt_cached_layer      *)
(* never brings in what another source, another edit or another build's    *)
(* stage left under the key.                                               *)
THEOREM LayersAsWritten == Spec => []StageInv
BY InductiveHolds, StageFollows, PTL

(* A RUN layer, adopted or executed, came from this command in this        *)
(* environment on exactly the layers that the stage has beneath it, and on *)
(* the base that its key hashed unless a ref moved under the build that    *)
(* made it, however hits, misses, prunes, torn entries, restarts of the    *)
(* stage and other builds alternate.                                       *)
THEOREM RunsOnWhatIsBelow == Spec => []RunSawLayersBelow
BY InductiveHolds, StageFollows, PTL
=============================================================================
