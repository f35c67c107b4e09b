------------------------- MODULE ContainerRunProofs -------------------------
(* The process that runs containers keeps what ContainerRun promises, for  *)
(* any set of requests, any secrets and any seccomp profile of the form of *)
(* the default one.                                                        *)
EXTENDS ContainerRun, SequenceTheorems, TLAPS

USE DEF net, Privileged, Undone

(* The invariant in two halves: who the process is, which the handshake    *)
(* settles, and what it works on, which the rest of the run does.          *)
TypeWho ==
    /\ req \in Request /\ pc \in Points /\ ns \in {"host", "given", "new"}
    /\ maps \subseteq Both
    /\ ctx \in [known : BOOLEAN, entered : BOOLEAN, host_privileged : BOOLEAN]
    /\ helper \in {"none", "waiting", "newuidmap", "newgidmap", "mapped",
                   "refused", "writing", "leaving", "exited", "reaped"}
    /\ target \in {"none", "umf", "reaper"}
    /\ go \in {"none", "sent", "broken"} /\ status \in {"none", "zero", "one"}
    /\ ends \in [umf : SUBSET {"go", "res"}, helper : SUBSET {"go", "res"}]

Bundle(n) ==
    [lowers : {"none", "merge", "erofs"}, root : {"none", "rootfs", "overlay"},
     mounts : SUBSET Secret, net : 0..n, userns : BOOLEAN,
     cgroup : {"fs", "scope"}, profile : SUBSET Block,
     confine : SUBSET {"capabilities", "no_new_privileges", "apparmor", "selinux"}]

Layer == [own : SUBSET Secret, left : SUBSET Secret, stuck : SUBSET Secret]

TypeWork ==
    /\ bundle \in Bundle(seq)
    /\ overlay \in {"none", "kernel", "fuse"} /\ upper \subseteq Secret /\ stuck \subseteq Secret
    /\ hold \in {0, seq} /\ seq \in Nat /\ veth \in BOOLEAN /\ litter \in BOOLEAN
    /\ init \in Exits \cup {"none", "created", "running", "reaped"}
    /\ at \in Nat \X Nat /\ layers \in Seq(Layer)
    /\ kept \in {"none", "rootfs", "overlay"}
    /\ out \in {"none", "err", "fatal", "0", "1", "128+n"}

Who  == TypeWho /\ HandshakeInv /\ NeverUnmapped
Work == /\ TypeWork /\ PointInv /\ BundleInv /\ MountInv /\ PrivilegeIsReal
        /\ HeldWhileRunning /\ KeptIsOnDisk /\ OwnMountpointsScrubbed

(* The halves together are what the runs check.                            *)
LEMMA InvParts == IdentityInv /\ HeldWhileRunning /\ LeavesItsResult <=> Who /\ Work
<1>1. TypeOK <=> TypeWho /\ TypeWork
  BY DEF TypeOK, TypeWho, TypeWork, Bundle, Layer
<1>2. HandshakeInv => MapsOnlyUnshared
  BY DEF HandshakeInv, MapsOnlyUnshared
<1>3. TypeWork /\ HandshakeInv /\ PointInv => NothingRunsOn
  BY DEF TypeWork, HandshakeInv, PointInv, NothingRunsOn, Before, Handshake
<1>4. QED
  BY <1>1, <1>2, <1>3 DEF IdentityInv, LeavesItsResult, Who, Work

(* The context that an operation goes by, set or derived, claims the       *)
(* host's privilege only for the host's root.                              *)
LEMMA ContextReal ==
    ASSUME Who
    PROVE  /\ context \in [known : BOOLEAN, entered : BOOLEAN, host_privileged : BOOLEAN]
           /\ context.host_privileged => Privileged
<1>1. derive_passive_context.host_privileged => Privileged
  <2>1. req.ident \in {"root", "given", "user"}
    BY ContainerAssumption DEF Who, TypeWho
  <2>2. QED
    BY <2>1 DEF derive_passive_context, IsRoot, in_initial_user_namespace, Who, HandshakeInv, Both
<1>2. derive_passive_context \in [known : BOOLEAN, entered : BOOLEAN, host_privileged : BOOLEAN]
  BY DEF derive_passive_context, IsRoot, in_initial_user_namespace
<1>3. QED
  BY <1>1, <1>2 DEF context, Who, TypeWho, HandshakeInv

(* What a bundle is when it is made.                                       *)
LEMMA SpecType ==
    ASSUME Who, NEW n \in Nat, NEW l \in {"merge", "erofs"}
    PROVE  /\ build_runtime_spec(l) \in Bundle(n)
           /\ build_runtime_spec(l).lowers = l /\ build_runtime_spec(l).root = "rootfs"
           /\ build_runtime_spec(l).net = 0 /\ build_runtime_spec(l).mounts = {}
           /\ build_runtime_spec(l).confine = Confinement
           /\ build_runtime_spec(l).profile = filtered_profile
<1>1. Confinement \subseteq {"capabilities", "no_new_privileges", "apparmor", "selinux"}
  BY DEF Confinement, resolve_apparmor, resolve_selinux
<1>2. filtered_profile \subseteq Block /\ 0 \in 0..n
  BY DEF filtered_profile
<1>3. (~context.host_privileged /\ ~context.entered) \in BOOLEAN
  OBVIOUS
<1>4. QED
  BY <1>1, <1>2, <1>3 DEF build_runtime_spec, Bundle

(* The step of a build is one of the request.                              *)
LEMMA StepType ==
    ASSUME Who, Work, at[2] <= Len(Stage)
    PROVE  Step \in RunStep
<1>1. req.stages \in Seq(Seq(RunStep)) /\ at[1] \in 1..Len(req.stages) /\ at[2] \in Nat \ {0}
  BY ContainerAssumption DEF Who, TypeWho, Work, TypeWork, PointInv
<1>2. Stage \in Seq(RunStep)
  BY <1>1, ElementOfSeq DEF Stage
<1>3. at[2] \in 1..Len(Stage)
  BY <1>1, <1>2, LenProperties
<1>4. QED
  BY <1>2, <1>3, ElementOfSeq DEF Step

(* Nothing but the bundle's maker touches what a stage is.                 *)
LEMMA ReqSame ==
    ASSUME req' = req
    PROVE  Confinement' = Confinement /\ filtered_profile' = filtered_profile
BY DEF Confinement, resolve_apparmor, resolve_selinux, filtered_profile, block_applies
----------------------------------------------------------------------------
(* The handshake leaves the work alone.                                    *)
LEMMA WorkSame ==
    ASSUME Who, Work, UNCHANGED <<req, bundle, overlay, upper, stuck, hold, seq, veth, litter, init, at, layers, kept>>,
           pc \in Before \ {"over"}, pc' \in Before,
           out' = out \/ (out' \in {"err", "fatal"} /\ pc' = "over")
    PROVE  Work'
<1>0. bundle = NoBundle /\ init = "none" /\ hold = 0 /\ ~veth /\ bundle.lowers = "none"
  BY DEF Work, TypeWork, PointInv, Before, Handshake, NoBundle
<1>1. TypeWork'
  BY DEF Work, TypeWork
<1>2. PointInv'
  BY <1>0 DEF Work, PointInv, Before, Ready, After, Handshake, Exits, Stage
<1>3. BundleInv'
  BY <1>0, ReqSame DEF Work, BundleInv, Before, Ready, Handshake, Step, Stage
<1>4. PrivilegeIsReal' /\ HeldWhileRunning'
  BY <1>0 DEF Work, PrivilegeIsReal, HeldWhileRunning
<1>5. KeptIsOnDisk' /\ OwnMountpointsScrubbed'
  BY DEF Work, KeptIsOnDisk, OwnMountpointsScrubbed
<1>m. MountInv'
  BY DEF MountInv, Before, Handshake
<1>6. QED
  BY <1>1, <1>2, <1>3, <1>4, <1>5, <1>m DEF Work

(* The steps by which the process settles who it is.                       *)
LEMMA IdentityKeeps ==
    ASSUME Who, Work, Identity PROVE Who' /\ Work'
<1> USE DEF Goto, ident, work
<1>1. CASE enter
  <2> DEFINE C == [known : BOOLEAN, entered : BOOLEAN, host_privileged : BOOLEAN]
             new == [known |-> TRUE, entered |-> ~in_initial_user_namespace,
                         host_privileged |-> in_initial_user_namespace]
  <2>a. ctx' = ctx \/ ctx' = new
    BY <1>1 DEF enter
  <2>b. new \in C
    BY DEF in_initial_user_namespace
  <2>c. ctx \in C
    BY DEF Who, TypeWho
  <2>0. ctx' \in C
    BY <2>a, <2>b, <2>c
  <2>1. TypeWho'
    BY <1>1, <2>0 DEF Who, TypeWho, Points, Handshake, Ended, Both, enter,
                      in_initial_user_namespace
  <2>2. HandshakeInv'
    BY <1>1, ContainerAssumption DEF Who, TypeWho, HandshakeInv, Handshake, Ended, Both, enter,
                                     in_initial_user_namespace
  <2>3. NeverUnmapped'
    BY <1>1 DEF Who, TypeWho, HandshakeInv, NeverUnmapped, Handshake, Ended, Both, enter,
                in_initial_user_namespace
  <2>4. Work'
    BY <1>1, WorkSame DEF Before, Handshake, enter
  <2>5. QED
    BY <2>1, <2>2, <2>3, <2>4 DEF Who
<1>2. CASE apply_subordinate_maps
  <2>1. TypeWho'
    BY <1>2 DEF Who, TypeWho, Points, Handshake, Ended, Both, apply_subordinate_maps, ForkEnds
  <2>2. HandshakeInv'
    BY <1>2, ContainerAssumption DEF Who, TypeWho, HandshakeInv, Handshake, Ended, Both,
                                     apply_subordinate_maps, ForkEnds
  <2>3. NeverUnmapped'
    BY <1>2 DEF Who, TypeWho, HandshakeInv, NeverUnmapped, Handshake, Ended, Both,
                apply_subordinate_maps, ForkEnds
  <2>4. Work'
    BY <1>2, WorkSame DEF Before, Handshake, apply_subordinate_maps
  <2>5. QED
    BY <2>1, <2>2, <2>3, <2>4 DEF Who
<1>3. CASE UnshareUser
  <2>1. TypeWho'
    BY <1>3 DEF Who, TypeWho, Points, Handshake, Ended, Both, UnshareUser
  <2>2. HandshakeInv'
    BY <1>3, ContainerAssumption DEF Who, TypeWho, HandshakeInv, Handshake, Ended, Both,
                                     UnshareUser
  <2>3. NeverUnmapped'
    BY <1>3 DEF Who, TypeWho, HandshakeInv, NeverUnmapped, Handshake, Ended, Both, UnshareUser
  <2>4. Work'
    BY <1>3, WorkSame DEF Before, Handshake, UnshareUser
  <2>5. QED
    BY <2>1, <2>2, <2>3, <2>4 DEF Who
<1>4. CASE ReapHelper
  <2>1. TypeWho'
    BY <1>4 DEF Who, TypeWho, Points, Handshake, Ended, Both, ReapHelper
  <2>2. HandshakeInv'
    BY <1>4, ContainerAssumption DEF Who, TypeWho, HandshakeInv, Handshake, Ended, Both,
                                     ReapHelper
  <2>3. NeverUnmapped'
    BY <1>4 DEF Who, TypeWho, HandshakeInv, NeverUnmapped, Handshake, Ended, Both, ReapHelper
  <2>4. Work'
    BY <1>4, WorkSame DEF Before, Handshake, ReapHelper
  <2>5. QED
    BY <2>1, <2>2, <2>3, <2>4 DEF Who
<1>5. CASE SignalHelper
  <2>1. TypeWho'
    BY <1>5 DEF Who, TypeWho, Points, Handshake, Ended, Both, SignalHelper
  <2>2. HandshakeInv'
    BY <1>5, ContainerAssumption DEF Who, TypeWho, HandshakeInv, Handshake, Ended, Both,
                                     SignalHelper
  <2>3. NeverUnmapped'
    BY <1>5 DEF Who, TypeWho, HandshakeInv, NeverUnmapped, Handshake, Ended, Both, SignalHelper
  <2>4. Work'
    BY <1>5, WorkSame DEF Before, Handshake, SignalHelper
  <2>5. QED
    BY <2>1, <2>2, <2>3, <2>4 DEF Who
<1>6. CASE ReadStatus
  <2>1. TypeWho'
    BY <1>6 DEF Who, TypeWho, Points, Handshake, Ended, Both, ReadStatus
  <2>2. HandshakeInv'
    BY <1>6, ContainerAssumption DEF Who, TypeWho, HandshakeInv, Handshake, Ended, Both,
                                     ReadStatus
  <2>3. NeverUnmapped'
    BY <1>6 DEF Who, TypeWho, HandshakeInv, NeverUnmapped, Handshake, Ended, Both, ReadStatus
  <2>4. Work'
    BY <1>6, WorkSame DEF Before, Handshake, ReadStatus
  <2>5. QED
    BY <2>1, <2>2, <2>3, <2>4 DEF Who
<1>7. CASE ReadMessage
  <2>1. TypeWho'
    BY <1>7 DEF Who, TypeWho, Points, Handshake, Ended, Both, ReadMessage
  <2>2. HandshakeInv'
    BY <1>7, ContainerAssumption DEF Who, TypeWho, HandshakeInv, Handshake, Ended, Both,
                                     ReadMessage
  <2>3. NeverUnmapped'
    BY <1>7 DEF Who, TypeWho, HandshakeInv, NeverUnmapped, Handshake, Ended, Both, ReadMessage
  <2>4. Work'
    BY <1>7, WorkSame DEF Before, Handshake, ReadMessage
  <2>5. QED
    BY <2>1, <2>2, <2>3, <2>4 DEF Who
<1>8. CASE finish_subordinate_maps
  <2>1. TypeWho'
    BY <1>8 DEF Who, TypeWho, Points, Handshake, Ended, Both, finish_subordinate_maps
  <2>2. HandshakeInv'
    BY <1>8, ContainerAssumption DEF Who, TypeWho, HandshakeInv, Handshake, Ended, Both,
                                     finish_subordinate_maps
  <2>3. NeverUnmapped'
    BY <1>8 DEF Who, TypeWho, HandshakeInv, NeverUnmapped, Handshake, Ended, Both,
                finish_subordinate_maps
  <2>4. Work'
    BY <1>8, WorkSame DEF Before, Handshake, finish_subordinate_maps
  <2>5. QED
    BY <2>1, <2>2, <2>3, <2>4 DEF Who
<1>9. CASE UnshareMount
  <2> DEFINE C == [known : BOOLEAN, entered : BOOLEAN, host_privileged : BOOLEAN]
             new == [known |-> TRUE, entered |-> TRUE, host_privileged |-> FALSE]
  <2>a. ctx' = ctx \/ ctx' = new
    BY <1>9 DEF UnshareMount
  <2>b. new \in C
    OBVIOUS
  <2>c. ctx \in C
    BY DEF Who, TypeWho
  <2>0. ctx' \in C
    BY <2>a, <2>b, <2>c
  <2>1. TypeWho'
    BY <1>9, <2>0 DEF Who, TypeWho, Points, Handshake, Ended, Both, UnshareMount
  <2>2. HandshakeInv'
    BY <1>9, ContainerAssumption DEF Who, TypeWho, HandshakeInv, Handshake, Ended, Both,
                                     UnshareMount
  <2>3. NeverUnmapped'
    BY <1>9 DEF Who, TypeWho, HandshakeInv, NeverUnmapped, Handshake, Ended, Both, UnshareMount
  <2>4. Work'
    BY <1>9, WorkSame DEF Before, Handshake, UnshareMount
  <2>5. QED
    BY <2>1, <2>2, <2>3, <2>4 DEF Who
<1>10. CASE set_egress_mode_from_arg
  <2>1. TypeWho'
    BY <1>10 DEF Who, TypeWho, Points, Handshake, Ended, Both, set_egress_mode_from_arg
  <2>2. HandshakeInv'
    BY <1>10, ContainerAssumption DEF Who, TypeWho, HandshakeInv, Handshake, Ended, Both,
                                      set_egress_mode_from_arg
  <2>3. NeverUnmapped'
    BY <1>10 DEF Who, TypeWho, HandshakeInv, NeverUnmapped, Handshake, Ended, Both,
                 set_egress_mode_from_arg
  <2>4. Work'
    BY <1>10, WorkSame DEF Before, Handshake, set_egress_mode_from_arg
  <2>5. QED
    BY <2>1, <2>2, <2>3, <2>4 DEF Who
<1>11. QED
  BY <1>1, <1>2, <1>3, <1>4, <1>5, <1>6, <1>7, <1>8, <1>9, <1>10 DEF Identity

(* What does not change leaves the work as it is.                          *)
LEMMA WorkStill ==
    ASSUME Work, UNCHANGED <<req, pc, work, out>> PROVE Work'
<1> USE DEF work
<1>1. TypeWork' /\ PointInv'
  BY DEF Work, TypeWork, PointInv, Stage
<1>2. BundleInv' /\ MountInv'
  BY ReqSame DEF Work, BundleInv, MountInv, Asked, Step, Stage, Stands
<1>3. QED
  BY <1>1, <1>2 DEF Work, PrivilegeIsReal, HeldWhileRunning, Stands, KeptIsOnDisk,
                    OwnMountpointsScrubbed

(* The helper moves only itself.                                           *)
LEMMA HelperKeeps ==
    ASSUME Who, Work, Helper \/ HelperKilled PROVE Who' /\ Work'
<1>1. CASE HelperReads
  <2>1. TypeWho'
    BY <1>1 DEF Who, TypeWho, Points, Handshake, Ended, Both, HelperReads, getppid
  <2>2. HandshakeInv'
    BY <1>1, ContainerAssumption DEF Who, TypeWho, HandshakeInv, Handshake, Ended, Both,
                                     HelperReads, getppid
  <2>3. NeverUnmapped'
    BY <1>1 DEF Who, TypeWho, HandshakeInv, NeverUnmapped, Handshake, Ended, Both, HelperReads
  <2>4. Work'
    BY <1>1, WorkStill DEF HelperReads
  <2>5. QED
    BY <2>1, <2>2, <2>3, <2>4 DEF Who
<1>2. CASE run_id_helpers
  <2>0. \/ /\ helper = "newuidmap" /\ maps' \in {maps, maps \cup {"uid"}} /\ helper' = "newgidmap"
           /\ pc # "killed" => maps' = maps \cup {"uid"}
        \/ /\ helper = "newgidmap" /\ maps' \in {maps, maps \cup {"gid"}} /\ helper' = "mapped"
           /\ pc # "killed" => maps' = maps \cup {"gid"}
        \/ /\ helper \in {"newuidmap", "newgidmap"} /\ helper' = "refused" /\ maps' = maps
    <3>1. helper \in {"newuidmap", "newgidmap"}
      BY <1>2 DEF run_id_helpers
    <3>2. pc # "killed" => target = "umf" /\ pc \notin Ended
      BY <3>1 DEF Who, HandshakeInv, Handshake, Ended
    <3>3. QED
      BY <1>2, <3>1, <3>2 DEF run_id_helpers, Mapped
  <2>d. maps \subseteq Both /\ (helper = "newgidmap" /\ pc # "killed" => "uid" \in maps)
    BY DEF Who, TypeWho, HandshakeInv
  <2>e. maps' \subseteq Both /\ maps \subseteq maps'
    BY <2>0, <2>d DEF Both
  <2>a. /\ maps' \subseteq Both /\ maps \subseteq maps'
        /\ helper' = "newgidmap" /\ pc # "killed" => "uid" \in maps'
        /\ helper' = "mapped" /\ pc # "killed" => maps' = Both
    <3>1. CASE helper = "newuidmap" /\ maps' = maps \cup {"uid"} /\ helper' = "newgidmap"
      BY <2>e, <3>1
    <3>2. CASE helper = "newgidmap" /\ maps' = maps \cup {"gid"} /\ helper' = "mapped"
      BY <2>d, <2>e, <3>2 DEF Both
    <3>3. CASE helper' = "refused" \/ pc = "killed"
      BY <2>e, <3>3
    <3>4. QED
      BY <2>0, <3>1, <3>2, <3>3
  <2>b. helper' \in {"newgidmap", "mapped", "refused"} /\ go = "sent" /\ ns = "new"
        /\ (target = "umf" \/ (target = "reaper" /\ pc = "killed"))
        /\ pc \in Handshake \cup {"killed"}
    BY <2>0 DEF Who, TypeWho, HandshakeInv
  <2>c. UNCHANGED <<req, pc, ns, target, go, status, ends, ctx, work, out>>
    BY <1>2 DEF run_id_helpers
  <2>1. TypeWho'
    BY <2>a, <2>b, <2>c DEF Who, TypeWho
  <2>2. HandshakeInv'
    BY <2>a, <2>b, <2>c DEF Who, TypeWho, HandshakeInv, Handshake
  <2>3. NeverUnmapped'
    BY <2>a, <2>c DEF Who, TypeWho, NeverUnmapped, Both
  <2>4. Work'
    BY <1>2, WorkStill DEF run_id_helpers
  <2>5. QED
    BY <2>1, <2>2, <2>3, <2>4 DEF Who
<1>3. CASE HelperReports
  <2>1. TypeWho'
    BY <1>3 DEF Who, TypeWho, Points, Handshake, Ended, Both, HelperReports
  <2>2. HandshakeInv'
    BY <1>3, ContainerAssumption DEF Who, TypeWho, HandshakeInv, Handshake, Ended, Both,
                                     HelperReports
  <2>3. NeverUnmapped'
    BY <1>3 DEF Who, TypeWho, HandshakeInv, NeverUnmapped, Handshake, Ended, Both, HelperReports
  <2>4. Work'
    BY <1>3, WorkStill DEF HelperReports
  <2>5. QED
    BY <2>1, <2>2, <2>3, <2>4 DEF Who
<1>4. CASE HelperExits
  <2>1. TypeWho'
    BY <1>4 DEF Who, TypeWho, Points, Handshake, Ended, Both, HelperExits, HelperGone
  <2>2. HandshakeInv'
    BY <1>4, ContainerAssumption DEF Who, TypeWho, HandshakeInv, Handshake, Ended, Both,
                                     HelperExits, HelperGone
  <2>3. NeverUnmapped'
    BY <1>4 DEF Who, TypeWho, HandshakeInv, NeverUnmapped, Handshake, Ended, Both, HelperExits,
                HelperGone
  <2>4. Work'
    BY <1>4, WorkStill DEF HelperExits, HelperGone
  <2>5. QED
    BY <2>1, <2>2, <2>3, <2>4 DEF Who
<1>5. CASE HelperKilled
  <2>1. TypeWho'
    BY <1>5 DEF Who, TypeWho, Points, Handshake, Ended, Both, HelperKilled, HelperGone,
                HelperLives
  <2>2. HandshakeInv'
    BY <1>5, ContainerAssumption DEF Who, TypeWho, HandshakeInv, Handshake, Ended, Both,
                                     HelperKilled, HelperGone, HelperLives
  <2>3. NeverUnmapped'
    BY <1>5 DEF Who, TypeWho, HandshakeInv, NeverUnmapped, Handshake, Ended, Both,
                HelperKilled, HelperGone, HelperLives
  <2>4. Work'
    BY <1>5, WorkStill DEF HelperKilled, HelperGone, HelperLives
  <2>5. QED
    BY <2>1, <2>2, <2>3, <2>4 DEF Who
<1>6. QED
  BY <1>1, <1>2, <1>3, <1>4, <1>5 DEF Helper
----------------------------------------------------------------------------
(* The work leaves the handshake behind.                                   *)
Working == Points \ (Handshake \cup Ended \cup {"start", "newns", "egress"})

(* Steps of the work leave who the process is alone.                       *)
LEMMA WhoSame ==
    ASSUME Who, UNCHANGED <<req, ident>>, ctx' \in {ctx, context},
           pc \in Working, pc' \in Working \cup {"over"}
    PROVE  Who'
<1>1. UNCHANGED <<req, ns, maps, helper, target, go, status, ends>>
  BY DEF ident
<1>2. pc \notin Handshake \cup {"start", "newns", "killed"} /\ pc' \in Points
      /\ pc' \notin Handshake \cup {"start", "newns", "killed"}
  BY DEF Working, Points, Ended, Handshake
<1>3. ctx' \in [known : BOOLEAN, entered : BOOLEAN, host_privileged : BOOLEAN]
      /\ (ctx'.host_privileged => Privileged)
  BY ContextReal DEF Who, TypeWho, HandshakeInv
<1>4. TypeWho'
  BY <1>1, <1>2, <1>3 DEF Who, TypeWho
<1>5. HandshakeInv'
  BY <1>1, <1>2, <1>3 DEF Who, HandshakeInv, Handshake
<1>6. NeverUnmapped'
  BY <1>1, <1>2 DEF Who, NeverUnmapped, Ended, Working
<1>7. QED
  BY <1>4, <1>5, <1>6 DEF Who

(* The bundle, the overlay and the options of a run or of a RUN step.      *)
LEMMA PrepareKeeps ==
    ASSUME Who, Work, Prepare PROVE Who' /\ Work'
<1> USE DEF Goto
<1>a. /\ context \in [known : BOOLEAN, entered : BOOLEAN, host_privileged : BOOLEAN]
      /\ context.host_privileged => Privileged
  BY ContextReal
<1>b. req \in Request /\ req.cmd \in {"run", "build"} /\ (req.keep => req.cmd = "run")
  BY ContainerAssumption DEF Who, TypeWho
<1>1. CASE from_image
  <2>1. /\ pc = "bundle" /\ UNCHANGED <<req, ident, overlay, upper, stuck, hold, seq, veth, litter, init, at, layers, kept>>
        /\ ctx' = context
        /\ \/ /\ \E l \in Lowers : bundle' = build_runtime_spec(l)
              /\ pc' = (IF req.cmd = "run" THEN "overlay" ELSE "step") /\ out' = out
           \/ bundle' = bundle /\ pc' = "drop_net" /\ out' = "err"
    BY <1>1 DEF from_image, Fail
  <2>2. /\ bundle = NoBundle /\ init = "none" /\ hold = 0 /\ ~veth /\ seq \in Nat
    BY <2>1 DEF Work, TypeWork, PointInv, Before
  <2>3. \A l \in Lowers : /\ l \in {"merge", "erofs"}
                          /\ l = "erofs" => Privileged /\ ~req.keep
    BY <1>a DEF Lowers, LayerStrategy
  <2>4. /\ bundle' \in Bundle(seq) /\ bundle'.root # "overlay"
        /\ bundle'.lowers = "erofs" => Privileged /\ ~req.keep
        /\ bundle'.lowers # "none" =>
              bundle'.confine = Confinement /\ bundle'.profile = filtered_profile
        /\ pc' # "drop_net" => bundle'.lowers # "none" /\ bundle'.mounts = {}
    <3>1. CASE bundle' = bundle /\ pc' = "drop_net"
      BY <2>2, <3>1 DEF NoBundle, Work, TypeWork
    <3>2. ASSUME NEW l \in Lowers, bundle' = build_runtime_spec(l)
          PROVE  /\ bundle' \in Bundle(seq) /\ bundle'.root # "overlay"
                 /\ bundle'.lowers = "erofs" => Privileged /\ ~req.keep
                 /\ bundle'.confine = Confinement /\ bundle'.profile = filtered_profile
                 /\ bundle'.lowers # "none" /\ bundle'.mounts = {}
      <4>1. l \in {"merge", "erofs"} /\ (l = "erofs" => Privileged /\ ~req.keep)
        BY <2>3, <3>2
      <4>2. /\ bundle' \in Bundle(seq) /\ bundle'.lowers = l /\ bundle'.root = "rootfs" /\ bundle'.mounts = {}
            /\ bundle'.confine = Confinement /\ bundle'.profile = filtered_profile
        BY <2>2, <3>2, <4>1, SpecType
      <4>3. QED
        BY <4>1, <4>2
    <3>3. QED
      BY <2>1, <3>1, <3>2
  <2>5. TypeWork'
    BY <2>1, <2>4 DEF Work, TypeWork
  <2>6. PointInv'
    BY <1>b, <2>1, <2>2 DEF Work, PointInv, Before, Ready, After, Handshake, Stage
  <2>7. BundleInv'
    BY <1>b, <2>1, <2>4, ReqSame DEF BundleInv, Ready
  <2>8. PrivilegeIsReal' /\ HeldWhileRunning'
    BY <2>1, <2>2, <2>4 DEF Work, PrivilegeIsReal, HeldWhileRunning
  <2>9. KeptIsOnDisk' /\ OwnMountpointsScrubbed'
    BY <2>1 DEF Work, KeptIsOnDisk, OwnMountpointsScrubbed
  <2>m. MountInv'
    BY <1>b, <2>1, <2>4 DEF MountInv
  <2>10. Who'
    BY <1>b, <2>1, WhoSame DEF Working, Points, Handshake, Ended
  <2>11. QED
    BY <2>5, <2>6, <2>7, <2>8, <2>9, <2>10, <2>m DEF Work
<1>2. CASE mount_run_overlay
  <2>1. /\ pc = "overlay" /\ UNCHANGED <<req, ident, ctx, stuck, hold, seq, veth, litter, init, at, layers, kept>>
        /\ pc' \in {"options", "drop_net"} /\ out' = (IF pc' = "options" THEN out ELSE "err")
    BY <1>2 DEF mount_run_overlay, Fail, mount_with_backend
  <2>2. /\ overlay' \in {"none", "kernel", "fuse"} /\ upper' \subseteq Secret
    BY <1>2 DEF mount_run_overlay, mount_with_backend, OverlayBackend, Work, TypeWork
  <2>3. \/ bundle' = bundle
        \/ bundle.lowers = "erofs" /\ bundle' = [bundle EXCEPT !.root = "overlay"]
        \/ bundle' = build_runtime_spec("merge")
    BY <1>2 DEF mount_run_overlay, mount_with_backend
  <2>4. /\ init = "none" /\ hold = 0 /\ ~veth /\ seq \in Nat /\ bundle \in Bundle(seq) /\ req.cmd = "run"
        /\ bundle.lowers # "none"
    BY <2>1 DEF Work, TypeWork, PointInv, BundleInv, Ready
  <2>5. /\ bundle' \in Bundle(seq) /\ bundle'.lowers # "none"
        /\ bundle'.lowers = "erofs" => bundle.lowers = "erofs"
        /\ bundle'.root = "overlay" => bundle'.lowers = "erofs"
        /\ bundle'.confine = Confinement /\ bundle'.profile = filtered_profile
    <3>1. CASE bundle' = bundle
      BY <2>4, <3>1 DEF Work, BundleInv
    <3>2. CASE bundle.lowers = "erofs" /\ bundle' = [bundle EXCEPT !.root = "overlay"]
      <4>1. /\ bundle' \in Bundle(seq) /\ bundle'.lowers = "erofs"
            /\ bundle'.confine = bundle.confine /\ bundle'.profile = bundle.profile
        BY <2>4, <3>2 DEF Bundle
      <4>2. QED
        BY <3>2, <4>1 DEF Work, BundleInv
    <3>3. CASE bundle' = build_runtime_spec("merge")
      BY <2>4, <3>3, SpecType
    <3>4. QED
      BY <2>3, <3>1, <3>2, <3>3
  <2>6. TypeWork'
    BY <2>1, <2>2, <2>5 DEF Work, TypeWork
  <2>7. PointInv'
    BY <2>1, <2>4 DEF Work, PointInv, Before, Ready, After, Handshake, Stage
  <2>8. BundleInv'
    BY <2>1, <2>5, ReqSame DEF Work, BundleInv, Ready
  <2>9. PrivilegeIsReal' /\ HeldWhileRunning'
    BY <2>1, <2>4, <2>5 DEF Work, PrivilegeIsReal, HeldWhileRunning
  <2>10. KeptIsOnDisk' /\ OwnMountpointsScrubbed'
    BY <2>1 DEF Work, KeptIsOnDisk, OwnMountpointsScrubbed
  <2>m. MountInv'
    BY <2>1 DEF Work, MountInv, Asked, Step, Stage
  <2>11. Who'
    BY <2>1, WhoSame DEF Working, Points, Handshake, Ended
  <2>12. QED
    BY <2>6, <2>7, <2>8, <2>9, <2>10, <2>11, <2>m DEF Work
<1>3. CASE apply_options_to_bundle
  <2>1. TypeWork'
    BY <1>3, <1>a, <1>b DEF Work, TypeWork, Bundle, Exits, work, apply_options_to_bundle, Fail,
                            cgroup_scope_path
  <2>2. PointInv'
    BY <1>3, <1>b DEF Work, TypeWork, PointInv, Before, Ready, After, Handshake, Exits, Stage,
                      work, apply_options_to_bundle, Fail, cgroup_scope_path
  <2>3. BundleInv'
    BY <1>3, <1>a, <1>b, ReqSame DEF Work, TypeWork, Bundle, PointInv, BundleInv, Ready,
                                     Stands, Step, Stage, work, apply_options_to_bundle, Fail, cgroup_scope_path
  <2>4. PrivilegeIsReal' /\ HeldWhileRunning'
    BY <1>3, <1>a DEF Work, TypeWork, Bundle, Exits, PointInv, BundleInv, PrivilegeIsReal,
                      HeldWhileRunning,
                    Stands, work, apply_options_to_bundle, Fail, cgroup_scope_path
  <2>5. KeptIsOnDisk' /\ OwnMountpointsScrubbed'
    BY <1>3, <1>b DEF Work, TypeWork, PointInv, BundleInv, KeptIsOnDisk,
                      OwnMountpointsScrubbed, work, apply_options_to_bundle, Fail, cgroup_scope_path
  <2>m. MountInv'
    BY <1>3, <1>b DEF Work, TypeWork, PointInv, Bundle, work, apply_options_to_bundle, Fail, cgroup_scope_path, MountInv, Asked,
       Step, Stage
  <2>6. Who'
    BY <1>3, WhoSame DEF Working, Points, Handshake, Ended, apply_options_to_bundle, Fail,
                         cgroup_scope_path
  <2>7. QED
    BY <2>1, <2>2, <2>3, <2>4, <2>5, <2>6, <2>m DEF Work
<1>4. CASE apply_run
  <2>1. TypeWork'
    BY <1>4, <1>a, <1>b DEF Work, TypeWork, Bundle, Exits, work, apply_run, Fail,
                            mount_with_backend, OverlayBackend
  <2>2. PointInv'
    BY <1>4, <1>b DEF Work, TypeWork, PointInv, Before, Ready, After, Handshake, Exits, Stage,
                      work, apply_run, Fail, mount_with_backend, OverlayBackend
  <2>3. BundleInv'
    BY <1>4, <1>a, <1>b, ReqSame DEF Work, TypeWork, Bundle, PointInv, BundleInv, Ready,
                                     Stands, Step, Stage, work, apply_run, Fail, mount_with_backend, OverlayBackend
  <2>4. PrivilegeIsReal' /\ HeldWhileRunning'
    BY <1>4, <1>a DEF Work, TypeWork, Bundle, Exits, PointInv, BundleInv, PrivilegeIsReal,
                      HeldWhileRunning,
                    Stands, work, apply_run, Fail, mount_with_backend, OverlayBackend
  <2>5. KeptIsOnDisk' /\ OwnMountpointsScrubbed'
    BY <1>4, <1>b DEF Work, TypeWork, PointInv, BundleInv, KeptIsOnDisk,
                      OwnMountpointsScrubbed, work, apply_run, Fail, mount_with_backend, OverlayBackend
  <2>m. MountInv'
    BY <1>4, <1>b DEF Work, TypeWork, PointInv, Bundle, work, apply_run, Fail, mount_with_backend, OverlayBackend, MountInv, Asked,
       Step, Stage
  <2>6. Who'
    BY <1>4, WhoSame DEF Working, Points, Handshake, Ended, apply_run, Fail,
                         mount_with_backend, OverlayBackend
  <2>7. QED
    BY <2>1, <2>2, <2>3, <2>4, <2>5, <2>6, <2>m DEF Work
<1>5. CASE EndStage
  <2>1. TypeWork'
    BY <1>5, <1>a, <1>b DEF Work, TypeWork, Bundle, Exits, work, EndStage
  <2>2. PointInv'
    BY <1>5, <1>b DEF Work, TypeWork, PointInv, Before, Ready, After, Handshake, Exits, Stage,
                      work, EndStage
  <2>3. BundleInv'
    BY <1>5, <1>a, <1>b, ReqSame DEF Work, TypeWork, Bundle, PointInv, BundleInv, Ready,
                                     Stands, Step, Stage, work, EndStage
  <2>4. PrivilegeIsReal' /\ HeldWhileRunning'
    BY <1>5, <1>a DEF Work, TypeWork, Bundle, Exits, PointInv, BundleInv, PrivilegeIsReal,
                      HeldWhileRunning,
                    Stands, work, EndStage
  <2>5. KeptIsOnDisk' /\ OwnMountpointsScrubbed'
    BY <1>5, <1>b DEF Work, TypeWork, PointInv, BundleInv, KeptIsOnDisk,
                      OwnMountpointsScrubbed, work, EndStage
  <2>m. MountInv'
    BY <1>5, <1>b DEF Work, TypeWork, PointInv, Bundle, work, EndStage, MountInv, Asked,
       Step, Stage
  <2>6. Who'
    BY <1>5, WhoSame DEF Working, Points, Handshake, Ended, EndStage
  <2>7. QED
    BY <2>1, <2>2, <2>3, <2>4, <2>5, <2>6, <2>m DEF Work
<1>6. CASE apply_run_spec_to_bundle
  <2>1. TypeWork'
    <3>1. Step.user # "name" => Step.secrets \subseteq Secret
      BY <1>6, <1>b, StepType DEF Work, PointInv, RunStep, apply_run_spec_to_bundle
    <3>2. bundle \in Bundle(seq) /\ cgroup_scope_path \in {"fs", "scope"}
      BY DEF Work, TypeWork, cgroup_scope_path
    <3>3. bundle' \in Bundle(seq)
      <4>1. CASE Step.user = "name"
        BY <1>6, <3>2, <4>1 DEF apply_run_spec_to_bundle
      <4>2. CASE Step.user # "name"
        <5>1. bundle' = [bundle EXCEPT !.mounts = bundle.mounts \cup Step.secrets,
                                       !.confine = bundle.confine, !.cgroup = cgroup_scope_path]
          BY <1>6, <4>2 DEF apply_run_spec_to_bundle, CopiedProcess
        <5>2. QED
          BY <3>1, <3>2, <4>2, <5>1 DEF Bundle
      <4>3. QED
        BY <4>1, <4>2
    <3>4. UNCHANGED <<overlay, upper, stuck, hold, seq, veth, litter, init, at, layers, kept>> /\ out' \in {out, "err"}
      BY <1>6 DEF apply_run_spec_to_bundle, Fail
    <3>5. QED
      BY <3>3, <3>4 DEF Work, TypeWork
  <2>2. PointInv'
    BY <1>6, <1>b, <1>a DEF Work, TypeWork, PointInv, Before, Ready, After, Handshake, Exits,
                            Stage, work, apply_run_spec_to_bundle, Fail, CopiedProcess, cgroup_scope_path
  <2>3. BundleInv'
    BY <1>6, <1>b, <1>a, ReqSame DEF Work, TypeWork, Bundle, PointInv, BundleInv, Ready,
                                     Stands, Step, Stage, work, apply_run_spec_to_bundle, Fail, CopiedProcess, cgroup_scope_path
  <2>4. PrivilegeIsReal' /\ HeldWhileRunning'
    BY <1>6, <1>a DEF Work, TypeWork, Bundle, Exits, PointInv, BundleInv, PrivilegeIsReal,
                      HeldWhileRunning,
                    Stands, work, apply_run_spec_to_bundle, Fail, CopiedProcess, cgroup_scope_path
  <2>5. KeptIsOnDisk' /\ OwnMountpointsScrubbed'
    BY <1>6, <1>b, <1>a DEF Work, TypeWork, PointInv, BundleInv, KeptIsOnDisk,
                            OwnMountpointsScrubbed, work, apply_run_spec_to_bundle, Fail, CopiedProcess, cgroup_scope_path
  <2>m. MountInv'
    <3>1. CASE Step.user = "name"
      BY <1>6, <3>1 DEF apply_run_spec_to_bundle, Fail, MountInv
    <3>2. CASE Step.user # "name"
      <4>1. /\ pc = "apply" /\ pc' = "net" /\ UNCHANGED <<req, upper, layers, at>>
            /\ bundle'.mounts = bundle.mounts \cup Step.secrets
        BY <1>6, <3>2 DEF apply_run_spec_to_bundle, Work, TypeWork, Bundle
      <4>2. /\ req.cmd = "build" => upper = {} /\ \A x \in bundle.mounts : Asked(x)
        BY <4>1 DEF Work, MountInv
      <4>3. Step' = Step /\ \A x : Asked(x) => Asked(x)'
        BY <4>1 DEF Step, Stage, Asked
      <4>4. QED
        BY <4>1, <4>2, <4>3 DEF MountInv
    <3>3. QED
      BY <3>1, <3>2
  <2>6. Who'
    BY <1>6, WhoSame DEF Working, Points, Handshake, Ended, apply_run_spec_to_bundle, Fail,
                         CopiedProcess, cgroup_scope_path
  <2>7. QED
    BY <2>1, <2>2, <2>3, <2>4, <2>5, <2>6, <2>m DEF Work
<1>7. QED
  BY <1>1, <1>2, <1>3, <1>4, <1>5, <1>6 DEF Prepare

(* The container, from its network to its deletion.                        *)
LEMMA DriveKeeps ==
    ASSUME Who, Work, Drive PROVE Who' /\ Work'
<1> USE DEF Goto
<1>a. /\ context \in [known : BOOLEAN, entered : BOOLEAN, host_privileged : BOOLEAN]
      /\ context.host_privileged => Privileged
  BY ContextReal
<1>b. req \in Request /\ req.cmd \in {"run", "build"} /\ (req.keep => req.cmd = "run")
  BY ContainerAssumption DEF Who, TypeWho
<1>1. CASE setup_rootless_net
  <2>1. TypeWork'
    BY <1>1, <1>a, <1>b DEF Work, TypeWork, Bundle, Exits, work, setup_rootless_net, Fail
  <2>2. PointInv'
    BY <1>1, <1>b DEF Work, TypeWork, PointInv, Before, Ready, After, Handshake, Exits, Stage,
                      work, setup_rootless_net, Fail
  <2>3. BundleInv'
    BY <1>1, <1>a, <1>b, ReqSame DEF Work, TypeWork, Bundle, PointInv, BundleInv, Ready,
                                     Stands, Step, Stage, work, setup_rootless_net, Fail
  <2>4. PrivilegeIsReal' /\ HeldWhileRunning'
    BY <1>1, <1>a DEF Work, TypeWork, Bundle, Exits, PointInv, BundleInv, PrivilegeIsReal,
                      HeldWhileRunning,
                    Stands, work, setup_rootless_net, Fail
  <2>5. KeptIsOnDisk' /\ OwnMountpointsScrubbed'
    BY <1>1, <1>b DEF Work, TypeWork, PointInv, BundleInv, KeptIsOnDisk,
                      OwnMountpointsScrubbed, work, setup_rootless_net, Fail
  <2>m. MountInv'
    BY <1>1, <1>b DEF Work, TypeWork, PointInv, Bundle, work, setup_rootless_net, Fail, MountInv, Asked,
       Step, Stage
  <2>6. Who'
    BY <1>1, WhoSame DEF Working, Points, Handshake, Ended, setup_rootless_net, Fail
  <2>7. QED
    BY <2>1, <2>2, <2>3, <2>4, <2>5, <2>6, <2>m DEF Work
<1>2. CASE BuildContainer
  <2>1. TypeWork'
    BY <1>2, <1>a, <1>b DEF Work, TypeWork, Bundle, Exits, work, BuildContainer, Fail
  <2>2. PointInv'
    BY <1>2, <1>b DEF Work, TypeWork, PointInv, Before, Ready, After, Handshake, Exits, Stage,
                      work, BuildContainer, Fail
  <2>3. BundleInv'
    BY <1>2, <1>a, <1>b, ReqSame DEF Work, TypeWork, Bundle, PointInv, BundleInv, Ready,
                                     Stands, Step, Stage, work, BuildContainer, Fail
  <2>4. PrivilegeIsReal' /\ HeldWhileRunning'
    BY <1>2, <1>a DEF Work, TypeWork, Bundle, Exits, PointInv, BundleInv, PrivilegeIsReal,
                      HeldWhileRunning,
                    Stands, work, BuildContainer, Fail
  <2>5. KeptIsOnDisk' /\ OwnMountpointsScrubbed'
    BY <1>2, <1>b DEF Work, TypeWork, PointInv, BundleInv, KeptIsOnDisk,
                      OwnMountpointsScrubbed, work, BuildContainer, Fail
  <2>m. MountInv'
    BY <1>2, <1>b DEF Work, TypeWork, PointInv, Bundle, work, BuildContainer, Fail, MountInv, Asked,
       Step, Stage
  <2>6. Who'
    BY <1>2, WhoSame DEF Working, Points, Handshake, Ended, BuildContainer, Fail
  <2>7. QED
    BY <2>1, <2>2, <2>3, <2>4, <2>5, <2>6, <2>m DEF Work
<1>3. CASE setup_container_network
  <2>1. TypeWork'
    <3>1. veth' \in BOOLEAN /\ litter' \in BOOLEAN
      BY <1>3 DEF setup_container_network, Work, TypeWork
    <3>2. UNCHANGED <<bundle, overlay, upper, stuck, hold, seq, init, at, layers, kept, out>>
      BY <1>3 DEF setup_container_network
    <3>3. QED
      BY <3>1, <3>2 DEF Work, TypeWork
  <2>2. PointInv'
    BY <1>3, <1>b, <1>a DEF Work, TypeWork, PointInv, Before, Ready, After, Handshake, Exits,
                            Stage, setup_container_network
  <2>3. BundleInv'
    BY <1>3, <1>b, <1>a, ReqSame DEF Work, TypeWork, Bundle, PointInv, BundleInv, Ready,
                                     Stands, Step, Stage, setup_container_network
  <2>4. PrivilegeIsReal' /\ HeldWhileRunning'
    <3>1. pc = "cnet" /\ UNCHANGED <<req, bundle, init>> /\ init = "created"
      BY <1>3 DEF setup_container_network, Work, PointInv
    <3>2. veth' \/ litter' => veth \/ litter \/ context.host_privileged
      BY <1>3 DEF setup_container_network, Work, TypeWork
    <3>3. QED
      BY <1>a, <3>1, <3>2 DEF Work, PrivilegeIsReal, HeldWhileRunning
  <2>5. KeptIsOnDisk' /\ OwnMountpointsScrubbed'
    BY <1>3, <1>b, <1>a DEF Work, TypeWork, PointInv, BundleInv, KeptIsOnDisk,
                            OwnMountpointsScrubbed, setup_container_network
  <2>m. MountInv'
    BY <1>3, <1>b, <1>a DEF Work, TypeWork, PointInv, Bundle, setup_container_network, MountInv, Asked,
       Step, Stage
  <2>6. Who'
    BY <1>3, WhoSame DEF Working, Points, Handshake, Ended, setup_container_network
  <2>7. QED
    BY <2>1, <2>2, <2>3, <2>4, <2>5, <2>6, <2>m DEF Work
<1>4. CASE Start
  <2>1. TypeWork'
    BY <1>4, <1>a, <1>b DEF Work, TypeWork, Bundle, Exits, work, Start
  <2>2. PointInv'
    BY <1>4, <1>b DEF Work, TypeWork, PointInv, Before, Ready, After, Handshake, Exits, Stage,
                      work, Start
  <2>3. BundleInv'
    BY <1>4, <1>a, <1>b, ReqSame DEF Work, TypeWork, Bundle, PointInv, BundleInv, Ready,
                                     Stands, Step, Stage, work, Start
  <2>4. PrivilegeIsReal' /\ HeldWhileRunning'
    BY <1>4, <1>a DEF Work, TypeWork, Bundle, Exits, PointInv, BundleInv, PrivilegeIsReal,
                      HeldWhileRunning,
                    Stands, work, Start
  <2>5. KeptIsOnDisk' /\ OwnMountpointsScrubbed'
    BY <1>4, <1>b DEF Work, TypeWork, PointInv, BundleInv, KeptIsOnDisk,
                      OwnMountpointsScrubbed, work, Start
  <2>m. MountInv'
    BY <1>4, <1>b DEF Work, TypeWork, PointInv, Bundle, work, Start, MountInv, Asked,
       Step, Stage
  <2>6. Who'
    BY <1>4, WhoSame DEF Working, Points, Handshake, Ended, Start
  <2>7. QED
    BY <2>1, <2>2, <2>3, <2>4, <2>5, <2>6, <2>m DEF Work
<1>5. CASE wait_for_container_exit
  <2>1. TypeWork'
    BY <1>5, <1>a, <1>b DEF Work, TypeWork, Bundle, Exits, work, wait_for_container_exit
  <2>2. PointInv'
    BY <1>5, <1>b DEF Work, TypeWork, PointInv, Before, Ready, After, Handshake, Exits, Stage,
                      work, wait_for_container_exit
  <2>3. BundleInv'
    BY <1>5, <1>a, <1>b, ReqSame DEF Work, TypeWork, Bundle, PointInv, BundleInv, Ready,
                                     Stands, Step, Stage, work, wait_for_container_exit
  <2>4. PrivilegeIsReal' /\ HeldWhileRunning'
    BY <1>5, <1>a DEF Work, TypeWork, Bundle, Exits, PointInv, BundleInv, PrivilegeIsReal,
                      HeldWhileRunning,
                    Stands, work, wait_for_container_exit
  <2>5. KeptIsOnDisk' /\ OwnMountpointsScrubbed'
    BY <1>5, <1>b DEF Work, TypeWork, PointInv, BundleInv, KeptIsOnDisk,
                      OwnMountpointsScrubbed, work, wait_for_container_exit
  <2>m. MountInv'
    BY <1>5, <1>b DEF Work, TypeWork, PointInv, Bundle, work, wait_for_container_exit, MountInv, Asked,
       Step, Stage
  <2>6. Who'
    BY <1>5, WhoSame DEF Working, Points, Handshake, Ended, wait_for_container_exit
  <2>7. QED
    BY <2>1, <2>2, <2>3, <2>4, <2>5, <2>6, <2>m DEF Work
<1>6. CASE Delete
  <2>1. TypeWork'
    BY <1>6, <1>a, <1>b DEF Work, TypeWork, Bundle, Exits, work, Delete
  <2>2. PointInv'
    BY <1>6, <1>b DEF Work, TypeWork, PointInv, Before, Ready, After, Handshake, Exits, Stage,
                      work, Delete
  <2>3. BundleInv'
    BY <1>6, <1>a, <1>b, ReqSame DEF Work, TypeWork, Bundle, PointInv, BundleInv, Ready,
                                     Stands, Step, Stage, work, Delete
  <2>4. PrivilegeIsReal' /\ HeldWhileRunning'
    BY <1>6, <1>a DEF Work, TypeWork, Bundle, Exits, PointInv, BundleInv, PrivilegeIsReal,
                      HeldWhileRunning,
                    Stands, work, Delete
  <2>5. KeptIsOnDisk' /\ OwnMountpointsScrubbed'
    BY <1>6, <1>b DEF Work, TypeWork, PointInv, BundleInv, KeptIsOnDisk,
                      OwnMountpointsScrubbed, work, Delete
  <2>m. MountInv'
    BY <1>6, <1>b DEF Work, TypeWork, PointInv, Bundle, work, Delete, MountInv, Asked,
       Step, Stage
  <2>6. Who'
    BY <1>6, WhoSame DEF Working, Points, Handshake, Ended, Delete
  <2>7. QED
    BY <2>1, <2>2, <2>3, <2>4, <2>5, <2>6, <2>m DEF Work
<1>7. QED
  BY <1>1, <1>2, <1>3, <1>4, <1>5, <1>6 DEF Drive

(* The guards, in the order in which they are dropped.                     *)
LEMMA TeardownKeeps ==
    ASSUME Who, Work, Teardown PROVE Who' /\ Work'
<1> USE DEF Goto
<1>a. /\ context \in [known : BOOLEAN, entered : BOOLEAN, host_privileged : BOOLEAN]
      /\ context.host_privileged => Privileged
  BY ContextReal
<1>b. req \in Request /\ req.cmd \in {"run", "build"} /\ (req.keep => req.cmd = "run")
  BY ContainerAssumption DEF Who, TypeWho
<1>1. CASE DropContainerNet
  <2>1. TypeWork'
    <3>1. veth' \in BOOLEAN /\ litter' \in BOOLEAN
      BY <1>1 DEF DropContainerNet, Work, TypeWork
    <3>2. UNCHANGED <<bundle, overlay, upper, stuck, hold, seq, init, at, layers, kept, out>>
      BY <1>1 DEF DropContainerNet
    <3>3. QED
      BY <3>1, <3>2 DEF Work, TypeWork
  <2>2. PointInv'
    BY <1>1, <1>b, <1>a DEF Work, TypeWork, PointInv, Before, Ready, After, Handshake, Exits,
                            Stage, DropContainerNet
  <2>3. BundleInv'
    BY <1>1, <1>b, <1>a, ReqSame DEF Work, TypeWork, Bundle, PointInv, BundleInv, Ready,
                                     Stands, Step, Stage, DropContainerNet
  <2>4. PrivilegeIsReal' /\ HeldWhileRunning'
    BY <1>1, <1>a DEF Work, TypeWork, Bundle, Exits, PointInv, BundleInv, PrivilegeIsReal,
                      HeldWhileRunning,
                    Stands, DropContainerNet
  <2>5. KeptIsOnDisk' /\ OwnMountpointsScrubbed'
    BY <1>1, <1>b, <1>a DEF Work, TypeWork, PointInv, BundleInv, KeptIsOnDisk,
                            OwnMountpointsScrubbed, DropContainerNet
  <2>m. MountInv'
    BY <1>1, <1>b, <1>a DEF Work, TypeWork, PointInv, Bundle, DropContainerNet, MountInv, Asked,
       Step, Stage
  <2>6. Who'
    BY <1>1, WhoSame DEF Working, Points, Handshake, Ended, DropContainerNet
  <2>7. QED
    BY <2>1, <2>2, <2>3, <2>4, <2>5, <2>6, <2>m DEF Work
<1>2. CASE into_persistent
  <2>1. TypeWork'
    BY <1>2, <1>a DEF Work, TypeWork, Bundle, into_persistent
  <2>2. PointInv'
    BY <1>2, <1>b, <1>a DEF Work, TypeWork, PointInv, Before, Ready, After, Handshake, Exits,
                            Stage, Bundle, into_persistent
  <2>3. BundleInv'
    BY <1>2, <1>b, <1>a, ReqSame DEF Work, TypeWork, Bundle, PointInv, BundleInv, Ready,
                                     Stands, Step, Stage, Bundle, into_persistent
  <2>4. PrivilegeIsReal' /\ HeldWhileRunning'
    BY <1>2, <1>a DEF Work, TypeWork, Bundle, Exits, PointInv, BundleInv, PrivilegeIsReal,
                      HeldWhileRunning,
                    Stands, Bundle, into_persistent
  <2>5. KeptIsOnDisk' /\ OwnMountpointsScrubbed'
    <3>1. bundle.root # "overlay"
      BY <1>2, <1>b DEF into_persistent, Work, PointInv, BundleInv
    <3>2. kept' = bundle.root /\ bundle.root \in {"none", "rootfs", "overlay"} /\ layers' = layers
      BY <1>2 DEF into_persistent, Work, TypeWork, Bundle
    <3>3. QED
      BY <3>1, <3>2 DEF Work, KeptIsOnDisk, OwnMountpointsScrubbed
  <2>m. MountInv'
    BY <1>2, <1>b DEF Work, PointInv, MountInv, Asked, into_persistent
  <2>6. Who'
    BY <1>2, WhoSame DEF Working, Points, Handshake, Ended, into_persistent
  <2>7. QED
    BY <2>1, <2>2, <2>3, <2>4, <2>5, <2>6, <2>m DEF Work
<1>3. CASE DropRootlessNet
  <2>1. TypeWork'
    BY <1>3, <1>a, <1>b DEF Work, TypeWork, Bundle, Exits, work, DropRootlessNet
  <2>2. PointInv'
    BY <1>3, <1>b DEF Work, TypeWork, PointInv, Before, Ready, After, Handshake, Exits, Stage,
                      work, DropRootlessNet
  <2>3. BundleInv'
    BY <1>3, <1>a, <1>b, ReqSame DEF Work, TypeWork, Bundle, PointInv, BundleInv, Ready,
                                     Stands, Step, Stage, work, DropRootlessNet
  <2>4. PrivilegeIsReal' /\ HeldWhileRunning'
    BY <1>3, <1>a DEF Work, TypeWork, Bundle, Exits, PointInv, BundleInv, PrivilegeIsReal,
                      HeldWhileRunning,
                    Stands, work, DropRootlessNet
  <2>5. KeptIsOnDisk' /\ OwnMountpointsScrubbed'
    BY <1>3, <1>b DEF Work, TypeWork, PointInv, BundleInv, KeptIsOnDisk,
                      OwnMountpointsScrubbed, work, DropRootlessNet
  <2>m. MountInv'
    BY <1>3, <1>b DEF Work, TypeWork, PointInv, Bundle, work, DropRootlessNet, MountInv, Asked,
       Step, Stage
  <2>6. Who'
    BY <1>3, WhoSame DEF Working, Points, Handshake, Ended, DropRootlessNet
  <2>7. QED
    BY <2>1, <2>2, <2>3, <2>4, <2>5, <2>6, <2>m DEF Work
<1>4. CASE scrub_secret_mountpoints
  <2>1. TypeWork'
    BY <1>4, <1>a, <1>b DEF Work, TypeWork, Bundle, Exits, work, scrub_secret_mountpoints, scrub
  <2>2. PointInv'
    BY <1>4, <1>b DEF Work, TypeWork, PointInv, Before, Ready, After, Handshake, Exits, Stage,
                      work, scrub_secret_mountpoints, scrub
  <2>3. BundleInv'
    BY <1>4, <1>a, <1>b, ReqSame DEF Work, TypeWork, Bundle, PointInv, BundleInv, Ready,
                                     Stands, Step, Stage, work, scrub_secret_mountpoints, scrub
  <2>4. PrivilegeIsReal' /\ HeldWhileRunning'
    BY <1>4, <1>a DEF Work, TypeWork, Bundle, Exits, PointInv, BundleInv, PrivilegeIsReal,
                      HeldWhileRunning,
                    Stands, work, scrub_secret_mountpoints, scrub
  <2>5. KeptIsOnDisk' /\ OwnMountpointsScrubbed'
    BY <1>4, <1>b DEF Work, TypeWork, PointInv, BundleInv, KeptIsOnDisk,
                      OwnMountpointsScrubbed, work, scrub_secret_mountpoints, scrub
  <2>m. MountInv'
    BY <1>4, <1>b DEF Work, TypeWork, PointInv, Bundle, work, scrub_secret_mountpoints, scrub, MountInv, Asked,
       Step, Stage
  <2>6. Who'
    BY <1>4, WhoSame DEF Working, Points, Handshake, Ended, scrub_secret_mountpoints, scrub
  <2>7. QED
    BY <2>1, <2>2, <2>3, <2>4, <2>5, <2>6, <2>m DEF Work
<1>5. CASE persist_upper
  <2>1. /\ pc = "persist" /\ UNCHANGED <<req, ident, ctx, bundle, hold, seq, veth, litter, kept>>
        /\ overlay' \in {overlay, "none"} /\ upper' \in {upper, {}} /\ stuck' \in {stuck, {}}
    BY <1>5 DEF persist_upper
  <2> DEFINE new == [own |-> Step.secrets, left |-> upper, stuck |-> stuck]
  <2>2. \/ /\ layers' = Append(layers, new)
           /\ at' = <<at[1], at[2] + 1>> /\ out' = "none" /\ init' = "none" /\ pc' = "step"
        \/ /\ UNCHANGED <<layers, at, init>> /\ out' = "err" /\ pc' = "drop_overlay"
    BY <1>5 DEF persist_upper
  <2>3. /\ req.cmd = "build" /\ ~veth /\ hold = 0 /\ init # "running"
        /\ Step \in RunStep /\ at \in Nat \X Nat
        /\ upper \subseteq Secret /\ stuck \subseteq Secret
        /\ upper \cap Step.secrets \subseteq Dotted \cup stuck
        /\ layers \in Seq(Layer)
    BY <1>b, <2>1, StepType DEF Work, TypeWork, PointInv, BundleInv
  <2>a. /\ \A x \in bundle.mounts \ Step.secrets : Asked(x)
        /\ upper \subseteq bundle.mounts
    BY <2>1, <2>3 DEF Work, MountInv
  <2>b. /\ new \in Layer /\ new.left \cap new.own \subseteq Dotted \cup new.stuck
        /\ new.own = Step.secrets
        /\ \A x \in new.left \ new.own : Asked(x)
    BY <2>3, <2>a DEF Layer, RunStep
  <2> HIDE DEF new
  <2>c. ASSUME layers' = Append(layers, new)
        PROVE  /\ layers' \in Seq(Layer) /\ OwnMountpointsScrubbed'
               /\ \A x : Asked(x) \/ x \in new.own => Asked(x)'
    <3>1. /\ layers' \in Seq(Layer) /\ Len(layers) \in Nat /\ Len(layers') = Len(layers) + 1
          /\ \A i \in 1..Len(layers) : layers'[i] = layers[i]
          /\ layers'[Len(layers) + 1] = new
      BY <2>3, <2>b, <2>c, AppendProperties, LenProperties
    <3>2. DOMAIN layers' = 1..(Len(layers) + 1) /\ DOMAIN layers = 1..Len(layers)
      BY <2>3, <3>1, LenProperties
    <3>3. ASSUME NEW i \in DOMAIN layers'
          PROVE  /\ layers'[i].left \cap layers'[i].own \subseteq Dotted \cup layers'[i].stuck
                 /\ \A x \in layers'[i].left \ layers'[i].own :
                       \E k \in 1..(i - 1) : x \in layers'[k].own
      <4>1. CASE i \in DOMAIN layers
        <5>1. /\ layers[i].left \cap layers[i].own \subseteq Dotted \cup layers[i].stuck
              /\ \A x \in layers[i].left \ layers[i].own : \E k \in 1..(i - 1) : x \in layers[k].own
          BY <4>1 DEF Work, OwnMountpointsScrubbed
        <5>2. layers'[i] = layers[i] /\ \A k \in 1..(i - 1) : layers'[k] = layers[k]
          BY <3>1, <3>2, <4>1
        <5>3. QED
          BY <5>1, <5>2
      <4>2. CASE i = Len(layers) + 1
        <5>1. layers'[i] = new /\ \A k \in 1..(i - 1) : layers'[k] = layers[k] /\ k \in DOMAIN layers
          BY <3>1, <3>2, <4>2
        <5>2. DOMAIN layers = 1..(i - 1)
          BY <3>1, <3>2, <4>2
        <5>3. QED
          BY <2>b, <5>1, <5>2 DEF Asked
      <4>3. QED
        BY <3>1, <3>2, <3>3, <4>1, <4>2
    <3>4. \A x : Asked(x) \/ x \in new.own => Asked(x)'
      <4>1. \A k \in DOMAIN layers : k \in DOMAIN layers' /\ layers'[k] = layers[k]
        BY <3>1, <3>2
      <4>2. Len(layers) + 1 \in DOMAIN layers'
        BY <3>1, <3>2
      <4>3. QED
        BY <3>1, <4>1, <4>2 DEF Asked
    <3>5. QED
      BY <3>1, <3>3, <3>4 DEF OwnMountpointsScrubbed
  <2>4. /\ layers' \in Seq(Layer) /\ OwnMountpointsScrubbed'
        /\ pc' = "step" => \A x \in bundle.mounts : Asked(x)'
    <3>1. CASE layers' = Append(layers, new)
      BY <2>a, <2>b, <2>c, <3>1
    <3>2. CASE layers' = layers /\ pc' = "drop_overlay"
      BY <2>3, <3>2 DEF Work, OwnMountpointsScrubbed
    <3>3. QED
      BY <2>2, <3>1, <3>2
  <2>5. at' \in Nat \X Nat /\ at'[1] = at[1] /\ at'[2] # 0
    BY <2>2, <2>3 DEF Work, PointInv
  <2>6. TypeWork'
    BY <2>1, <2>2, <2>4, <2>5 DEF Work, TypeWork
  <2>7. PointInv'
    BY <2>1, <2>2, <2>3, <2>5 DEF Work, PointInv, Before, Ready, After, Handshake
  <2>8. BundleInv'
    <3>1. bundle.lowers # "none"
      BY <2>1 DEF Work, BundleInv
    <3>2. QED
      BY <2>1, <2>2, <2>3, <3>1, ReqSame DEF Work, BundleInv, Ready
  <2>9. PrivilegeIsReal' /\ HeldWhileRunning'
    BY <2>1, <2>2, <2>3 DEF Work, PrivilegeIsReal, HeldWhileRunning
  <2>10. KeptIsOnDisk' /\ OwnMountpointsScrubbed'
    BY <2>1, <2>4 DEF Work, KeptIsOnDisk
  <2>m. MountInv'
    BY <2>1, <2>2, <2>4 DEF MountInv
  <2>11. Who'
    BY <2>1, <2>2, WhoSame DEF Working, Points, Handshake, Ended
  <2>12. QED
    BY <2>6, <2>7, <2>8, <2>9, <2>10, <2>11, <2>m DEF Work
<1>6. CASE DropOverlay
  <2>1. TypeWork'
    BY <1>6, <1>a, <1>b DEF Work, TypeWork, Bundle, Exits, work, DropOverlay
  <2>2. PointInv'
    BY <1>6, <1>b DEF Work, TypeWork, PointInv, Before, Ready, After, Handshake, Exits, Stage,
                      work, DropOverlay
  <2>3. BundleInv'
    BY <1>6, <1>a, <1>b, ReqSame DEF Work, TypeWork, Bundle, PointInv, BundleInv, Ready,
                                     Stands, Step, Stage, work, DropOverlay
  <2>4. PrivilegeIsReal' /\ HeldWhileRunning'
    BY <1>6, <1>a DEF Work, TypeWork, Bundle, Exits, PointInv, BundleInv, PrivilegeIsReal,
                      HeldWhileRunning,
                    Stands, work, DropOverlay
  <2>5. KeptIsOnDisk' /\ OwnMountpointsScrubbed'
    BY <1>6, <1>b DEF Work, TypeWork, PointInv, BundleInv, KeptIsOnDisk,
                      OwnMountpointsScrubbed, work, DropOverlay
  <2>m. MountInv'
    BY <1>6, <1>b DEF Work, TypeWork, PointInv, Bundle, work, DropOverlay, MountInv, Asked,
       Step, Stage
  <2>6. Who'
    BY <1>6, WhoSame DEF Working, Points, Handshake, Ended, DropOverlay
  <2>7. QED
    BY <2>1, <2>2, <2>3, <2>4, <2>5, <2>6, <2>m DEF Work
<1>7. CASE DropBundle
  <2>1. /\ pc = "drop_bundle" /\ bundle' = NoBundle
        /\ UNCHANGED <<req, ident, ctx, overlay, upper, stuck, hold, seq, veth, litter, init, kept>>
    BY <1>7 DEF DropBundle
  <2>2. \/ /\ out = "none" /\ at[1] < Len(req.stages) /\ at' = <<at[1] + 1, 1>> /\ layers' = <<>>
           /\ pc' = "bundle" /\ out' = out
        \/ /\ out' = (IF out = "none" THEN "0" ELSE out) /\ pc' = "over" /\ UNCHANGED <<at, layers>>
    BY <1>7 DEF DropBundle
  <2>3. /\ ~veth /\ hold = 0 /\ init # "running" /\ at \in Nat \X Nat /\ at[1] \in 1..Len(req.stages)
        /\ at[2] # 0 /\ (out = "none" => init = "none") /\ seq \in Nat
    BY <2>1 DEF Work, TypeWork, PointInv, After
  <2>4. NoBundle \in Bundle(seq) /\ NoBundle.lowers = "none" /\ NoBundle.root = "none"
    BY <2>3 DEF NoBundle, Bundle
  <2>5. /\ at' \in Nat \X Nat /\ at'[1] \in 1..Len(req.stages) /\ at'[2] # 0
        /\ layers' \in Seq(Layer)
    <3>1. Len(req.stages) \in Nat
      BY <1>b, ContainerAssumption, LenProperties
    <3>2. <<>> \in Seq(Layer) /\ layers \in Seq(Layer)
      BY DEF Work, TypeWork
    <3>3. CASE at' = <<at[1] + 1, 1>> /\ at[1] < Len(req.stages) /\ layers' = <<>>
      <4>1. at[1] \in Nat /\ at[1] + 1 \in 1..Len(req.stages)
        BY <2>3, <3>1, <3>3
      <4>2. at'[1] = at[1] + 1 /\ at'[2] = 1 /\ at' \in Nat \X Nat
        BY <3>3, <4>1
      <4>3. QED
        BY <3>2, <3>3, <4>1, <4>2
    <3>4. CASE UNCHANGED <<at, layers>>
      BY <2>3, <3>2, <3>4
    <3>5. QED
      BY <2>2, <3>3, <3>4
  <2>6. TypeWork'
    BY <2>1, <2>2, <2>4, <2>5 DEF Work, TypeWork
  <2>7. PointInv'
    BY <2>1, <2>2, <2>3, <2>5 DEF Work, PointInv, Before, Ready, After, Handshake
  <2>8. BundleInv'
    BY <2>1, <2>2, <2>4, ReqSame DEF BundleInv, Ready
  <2>9. PrivilegeIsReal' /\ HeldWhileRunning'
    BY <2>1, <2>3, <2>4 DEF Work, PrivilegeIsReal, HeldWhileRunning
  <2>10. KeptIsOnDisk' /\ OwnMountpointsScrubbed'
    BY <2>1, <2>2 DEF Work, KeptIsOnDisk, OwnMountpointsScrubbed
  <2>m. MountInv'
    BY <2>1, <2>2 DEF Work, MountInv, Asked, Step, Stage
  <2>11. Who'
    BY <2>1, <2>2, WhoSame DEF Working, Points, Handshake, Ended
  <2>12. QED
    BY <2>6, <2>7, <2>8, <2>9, <2>10, <2>11, <2>m DEF Work
<1>8. QED
  BY <1>1, <1>2, <1>3, <1>4, <1>5, <1>6, <1>7 DEF Teardown

(* The workload exits on its own.                                          *)
LEMMA InitKeeps ==
    ASSUME Who, Work, InitExits PROVE Who' /\ Work'
<1>1. /\ init = "running" /\ init' \in Exits
      /\ UNCHANGED <<req, pc, ident, ctx, bundle, overlay, upper, stuck, hold, seq, veth, litter, at, layers, kept, out>>
  BY DEF InitExits
<1>2. pc \in {"wait", "killed"}
  BY <1>1 DEF Work, PointInv
<1>3. TypeWork'
  BY <1>1 DEF Work, TypeWork
<1>4. PointInv'
  BY <1>1, <1>2 DEF Work, PointInv, Before, Ready, After, Handshake, Exits, Stage
<1>5. BundleInv'
  BY <1>1, <1>2, ReqSame DEF Work, BundleInv, Ready, Stands
<1>6. PrivilegeIsReal' /\ HeldWhileRunning'
  BY <1>1 DEF Work, PrivilegeIsReal, HeldWhileRunning, Exits
<1>7. KeptIsOnDisk' /\ OwnMountpointsScrubbed'
  BY <1>1 DEF Work, KeptIsOnDisk, OwnMountpointsScrubbed
<1>m. MountInv'
  BY <1>1 DEF Work, MountInv, Asked, Step, Stage
<1>8. Who'
  BY <1>1 DEF ident, Who, TypeWho, HandshakeInv, NeverUnmapped
<1>9. QED
  BY <1>3, <1>4, <1>5, <1>6, <1>7, <1>8, <1>m DEF Work

(* A killed process takes no further step, and its container runs on with  *)
(* all that it stands on.                                                  *)
LEMMA KillKeeps ==
    ASSUME Who, Work, Kill PROVE Who' /\ Work'
<1>1. /\ pc' = "killed" /\ ends' = [ends EXCEPT !.umf = {}]
      /\ UNCHANGED <<req, ns, maps, helper, target, go, status, ctx, work, out>>
  BY DEF Kill, Goto
<1>2. TypeWho'
  BY <1>1 DEF Who, TypeWho, Points, Ended
<1>3. HandshakeInv' /\ NeverUnmapped'
  BY <1>1 DEF Who, HandshakeInv, NeverUnmapped, Handshake, Ended
<1>4. TypeWork'
  BY <1>1 DEF work, Work, TypeWork
<1>5. PointInv'
  BY <1>1 DEF work, Work, PointInv, Before, Ready, After, Handshake, Stage
<1>6. BundleInv' /\ MountInv'
  BY <1>1, ReqSame DEF work, Work, BundleInv, MountInv, Ready
<1>7. PrivilegeIsReal' /\ HeldWhileRunning' /\ KeptIsOnDisk' /\ OwnMountpointsScrubbed'
  BY <1>1 DEF work, Work, PrivilegeIsReal, HeldWhileRunning, Stands, KeptIsOnDisk,
              OwnMountpointsScrubbed
<1>8. QED
  BY <1>2, <1>3, <1>4, <1>5, <1>6, <1>7 DEF Who, Work
----------------------------------------------------------------------------
(* A process starts as itself, with nothing made.                          *)
LEMMA RunInit == Init => Who /\ Work
<1> SUFFICES ASSUME Init PROVE Who /\ Work
  OBVIOUS
<1> USE DEF Init
<1>1. req.ident \in {"root", "given", "user"} /\ req.stages \in Seq(Seq(RunStep)) /\ req.stages # <<>>
  BY ContainerAssumption
<1>2. Who
  BY <1>1 DEF Who, TypeWho, Points, Handshake, HandshakeInv, NeverUnmapped, Both
<1>3. TypeWork
  <2>1. NoBundle \in Bundle(0)
    BY DEF NoBundle, Bundle
  <2>2. <<>> \in Seq(Layer) /\ <<1, 1>> \in Nat \X Nat
    OBVIOUS
  <2>3. QED
    BY <2>1, <2>2 DEF TypeWork
<1>4. PointInv
  <2>1. at[1] \in 1..Len(req.stages) /\ at[2] # 0
    <3>1. Len(req.stages) \in Nat /\ Len(req.stages) # 0
      BY <1>1, LenProperties, EmptySeq
    <3>2. QED
      BY <3>1
  <2>2. QED
    BY <2>1 DEF PointInv, Before, Ready, After, Handshake
<1>5. BundleInv /\ MountInv /\ PrivilegeIsReal /\ HeldWhileRunning /\ KeptIsOnDisk /\ OwnMountpointsScrubbed
  BY DEF BundleInv, MountInv, PrivilegeIsReal, HeldWhileRunning, KeptIsOnDisk, OwnMountpointsScrubbed,
         NoBundle, Ready
<1>6. QED
  BY <1>2, <1>3, <1>4, <1>5 DEF Work

(* Every step of the process, of its helper and of the workload.           *)
LEMMA RunStepKeeps == Who /\ Work /\ [Next]_vars => Who' /\ Work'
<1> SUFFICES ASSUME Who, Work, [Next]_vars PROVE Who' /\ Work'
  OBVIOUS
<1>1. CASE Umf
  BY <1>1, IdentityKeeps, PrepareKeeps, DriveKeeps, TeardownKeeps DEF Umf
<1>2. CASE Helper \/ HelperKilled
  BY <1>2, HelperKeeps
<1>3. CASE InitExits
  BY <1>3, InitKeeps
<1>4. CASE Kill
  BY <1>4, KillKeeps
<1>5. CASE UNCHANGED vars
  <2>1. UNCHANGED <<req, pc, work, out>> /\ UNCHANGED <<ident, ctx>>
    BY <1>5 DEF vars, work, ident
  <2>2. Work'
    BY <2>1, WorkStill
  <2>3. Who'
    BY <2>1 DEF ident, Who, TypeWho, HandshakeInv, NeverUnmapped
  <2>4. QED
    BY <2>2, <2>3
<1>6. QED
  BY <1>1, <1>2, <1>3, <1>4, <1>5 DEF Next, Over

(* The inductive invariant holds throughout.                               *)
THEOREM RunInvariant == Spec => [](Who /\ Work)
<1>1. Init => Who /\ Work
  BY RunInit
<1>2. Who /\ Work /\ [Next]_vars => (Who /\ Work)'
  BY RunStepKeeps
<1>3. QED
  BY <1>1, <1>2, PTL DEF Spec

(* However the unshare, the helper, its reports and a death of either      *)
(* process interleave, nobody works in a namespace without its maps, and   *)
(* only the host's root, or a process that could not read its uid_map,     *)
(* does what is the host root's; the setuid helpers are aimed at umf after *)
(* its unshare, or at a stranger once umf was killed with the byte sent    *)
(* (rootless.rs, run.rs).                                                  *)
THEOREM IdentityHolds == Spec => []IdentityInv
BY RunInvariant, InvParts, PTL

(* A running container has its overlay, its lowers and its network.        *)
THEOREM RunningIsHeld == Spec => []HeldWhileRunning
BY RunInvariant, InvParts, PTL

(* A process that ends leaves nothing running, keeps only a bundle that is *)
(* on disk, and ships no mountpoint of a secret but where the removal is   *)
(* refused or passed over, or of an earlier step (run.rs, libcontainer.rs, *)
(* engine_build/run.rs).                                                   *)
THEOREM ResultIsLeft == Spec => []LeavesItsResult
BY RunInvariant, InvParts, PTL

(* Every workload runs with the confinement of the host's configuration    *)
(* and with a filter that withholds mount and restricts clone              *)
(* (seccomp.rs, lsm.rs, apply_run_spec_to_bundle).                         *)
THEOREM WorkloadConfined == Spec => []Confined
<1>1. Who /\ Work => Confined
  <2> SUFFICES ASSUME Who, Work, init = "running"
               PROVE  /\ bundle.confine = Confinement
                      /\ \A b \in bundle.profile : "mount" \notin b.calls
                      /\ \A b \in bundle.profile : "clone" \in b.calls => b.args
                      /\ \E b \in bundle.profile : "clone" \in b.calls
    BY DEF Confined
  <2>1. bundle.confine = Confinement /\ bundle.profile = filtered_profile
    BY DEF Work, HeldWhileRunning, Stands, BundleInv
  <2>2. "SYS_ADMIN" \notin default_caps
    BY DEF default_caps
  <2>3. \A b \in filtered_profile : b \in Block /\ "SYS_ADMIN" \notin b.caps
    BY <2>2 DEF filtered_profile, block_applies
  <2>4. PICK b \in Block : /\ "clone" \in b.calls /\ b.caps = {} /\ b.not_caps = {"SYS_ADMIN"}
                           /\ req.arch \notin b.not_arches
                           /\ (b.arches # {} => req.arch \in b.arches)
    BY ProfileAssumption DEF Who, TypeWho
  <2>5. b \in filtered_profile
    BY <2>2, <2>4 DEF filtered_profile, block_applies
  <2>6. QED
    BY <2>1, <2>3, <2>4, <2>5, ProfileAssumption
<1>2. QED
  BY <1>1, RunInvariant, PTL
============================================================================
