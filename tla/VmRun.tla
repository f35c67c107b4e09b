-------------------------------- MODULE VmRun --------------------------------
(***************************************************************************)
(* The processes that umf run starts and the registry that umf ps reads:   *)
(* dispatch of a run, the life of a virtual machine monitor (qemu or cloud *)
(* hypervisor) under its RAII handle, the network and the record that      *)
(* surround it, and ps listing, reconciling and pruning records at any     *)
(* time.  A run, its VMM, its guest and every ps are actors of their own;  *)
(* control calls fail or time out, the VMM exits or crashes when it likes, *)
(* and a run may be killed between any two steps.                          *)
(***************************************************************************)
EXTENDS Naturals, FiniteSets

CONSTANTS
    Run,       \* invocations of umf run
    Ps,        \* invocations of umf ps, each repeated any number of times
    ProcId,    \* process ids; an id is given again once its process is gone
    Asked,     \* the command lines that a run may have
    Arch,      \* the host's architecture
    Fw         \* UEFI firmware files that the host has

ASSUME RunAssumption ==
    /\ Cardinality(Run) <= Cardinality(ProcId) /\ ProcId # {}
    /\ Arch \in {"x86_64", "aarch64"}
    /\ Fw \subseteq {"cloudhv", "single", "code", "vars"}

VARIABLES
    req,     \* the command line of a run
    stage,   \* where a run is
    pid,     \* its process id
    cached,  \* whether the bootable image has a cached disk block
    net,     \* whether the per-VM network is there
    vmm,     \* the VMM process
    child,   \* who owns its Child: nobody, the VmHandle or the wait future
    scratch, \* whether the handle's temporary directories are there
    guard,   \* whether the RunningGuard has a record to finalize
    res,     \* what the run is going to record
    rec,     \* the record file of a run
    ps       \* a listing in progress: where it is, what is left, what it read

runVars == <<req, stage, pid, cached, net, vmm, child, scratch, guard, res, rec, ps>>
vm      == <<vmm, child, scratch>>
files   == <<cached, net, rec>>

Finished  == {"zero", "nonzero", "failed"}
Up        == {"starting", "ready", "running", "halted", "wedged"}
RunPoints == {"idle", "bootable", "network", "record", "create", "daemon", "config",
              "boot", "poll", "waiting", "shutdown", "engine", "finalize", "leave",
              "over", "killed"}

Alive(r)     == stage[r] \notin {"idle", "over", "killed"}
pid_alive(p) == \E r \in Run : Alive(r) /\ pid[r] = p

RunTo(r, l) == stage' = [stage EXCEPT ![r] = l]
----------------------------------------------------------------------------
(* Dispatch.                                                               *)

(* VmmKind; an image that is bootable boots on qemu unless told otherwise.  *)
parse_vmm_backend(v) == CASE v \in {"qemu", "ch"} -> v
                          [] v = "none" -> "qemu"
                          [] OTHER -> "unknown"

Backend(r) == parse_vmm_backend(req[r].vmm)

(* Both halves of a CODE and VARS pair have to be there.                   *)
resolve_split == IF {"code", "vars"} \subseteq Fw THEN "pflash" ELSE "missing"

(* Cloud hypervisor takes its own build first, then what qemu takes; there *)
(* is no single file for aarch64.                                          *)
resolve_uefi_firmware(v) ==
    CASE v = "ch" /\ "cloudhv" \in Fw -> "bios"
      [] Arch = "x86_64" /\ "single" \in Fw -> "bios"
      [] OTHER -> resolve_split

(* qemu boots a raw disk without firmware; everything else needs one.      *)
Firmware(q) == CASE q.firmware -> "bios"
                 [] q.disk /\ q.vmm = "qemu" -> "none"
                 [] OTHER -> resolve_uefi_firmware(parse_vmm_backend(q.vmm))

vm_only_flag_set(q) == q.firmware \/ q.forward \/ q.vmflag

(* Components are not runnable, every other kind falls to the engine.      *)
dispatch_runnable(q) == q.image \in {"container", "kernelenv", "scratch", "unknown"}

(* run_run up to the first thing that it starts; over is a refusal.        *)
runPath(q) ==
    CASE q.disk -> IF q.vmm \in {"qemu", "ch"} /\ Firmware(q) # "missing"
                   THEN "network" ELSE "over"
      [] q.image = "absent" -> "over"
      [] q.image = "bootable" -> "bootable"
      [] q.vmm # "none" \/ vm_only_flag_set(q) \/ ~dispatch_runnable(q) -> "over"
      [] OTHER -> "record"

OnVm(r) == req[r].disk \/ req[r].image = "bootable"

run_run(r) ==
    /\ stage[r] = "idle"
    /\ \E p \in ProcId : ~pid_alive(p) /\ pid' = [pid EXCEPT ![r] = p]
    /\ RunTo(r, runPath(req[r]))
    /\ UNCHANGED <<req, files, vm, guard, res, ps>>

(* run_bootable: the cached block or a projection, then the backend and    *)
(* the firmware.                                                           *)
run_bootable(r) ==
    /\ stage[r] = "bootable"
    /\ \/ cached /\ UNCHANGED cached
       \/ ~cached /\ cached' = TRUE
    /\ RunTo(r, IF Backend(r) = "unknown" \/ Firmware(req[r]) = "missing"
                THEN "over" ELSE "network")
    /\ UNCHANGED <<req, pid, net, vm, guard, res, rec, ps>>

CompileFails(r) ==
    /\ stage[r] = "bootable" /\ ~cached
    /\ RunTo(r, "over")
    /\ UNCHANGED <<req, pid, files, vm, guard, res, ps>>
----------------------------------------------------------------------------
(* run_vm.                                                                 *)

NeedsNet(r) == Backend(r) = "ch" /\ req[r].forward

(* A faulty variant: the guard is not bound to a name, so that it is       *)
(* dropped in the statement that made it.                                  *)
setup_vmnetUnbound(r) ==
    /\ stage[r] = "network"
    /\ RunTo(r, "record")
    /\ UNCHANGED <<req, pid, files, vm, guard, res, ps>>

(* A VmNet for port forwards under cloud hypervisor, held in _vmnet; qemu  *)
(* forwards ports itself.                                                  *)
setup_vmnet(r) ==
    /\ stage[r] = "network"
    /\ net' = [net EXCEPT ![r] = NeedsNet(r)]
    /\ RunTo(r, "record")
    /\ UNCHANGED <<req, pid, cached, vm, guard, res, rec, ps>>

(* A bad --port-forward, or VmNet::setup failing: nothing is recorded yet. *)
VmnetFails(r) ==
    /\ stage[r] = "network" /\ req[r].forward
    /\ RunTo(r, "over")
    /\ UNCHANGED <<req, pid, files, vm, guard, res, ps>>

(* RunningGuard::start writes a running record, or is a no-op without a    *)
(* registry that can be written.                                           *)
start(r) ==
    /\ stage[r] = "record"
    /\ \/ /\ rec' = [rec EXCEPT ![r] = "running"]
          /\ guard' = [guard EXCEPT ![r] = TRUE]
       \/ UNCHANGED <<rec, guard>>
    /\ RunTo(r, IF OnVm(r) THEN "create" ELSE "engine")
    /\ UNCHANGED <<req, pid, cached, net, vm, res, ps>>

(* A faulty variant: the command is spawned without kill_on_drop.          *)
kill_on_dropUnset(v) == v

(* What dropping the Child does to the process.                            *)
kill_on_drop(v) == IF v \in Up THEN "killed" ELSE v

(* The end of run_vm's async block with a result: the handle is dropped,   *)
(* the VMM with it if the handle still owns it, and its directories.       *)
Unwind(r, result) ==
    /\ vmm' = [vmm EXCEPT ![r] = IF child[r] # "none" THEN kill_on_drop(@) ELSE @]
    /\ child' = [child EXCEPT ![r] = "none"]
    /\ scratch' = [scratch EXCEPT ![r] = FALSE]
    /\ res' = [res EXCEPT ![r] = result]
    /\ RunTo(r, "finalize")
    /\ UNCHANGED <<req, pid, files, guard, ps>>

(* The socket's directory and a writable copy of VARS are made, and the    *)
(* process is spawned.                                                     *)
spawn_qemu(r) ==
    /\ stage[r] = "create" /\ Backend(r) = "qemu"
    /\ vmm' = [vmm EXCEPT ![r] = "starting"]
    /\ child' = [child EXCEPT ![r] = "handle"]
    /\ scratch' = [scratch EXCEPT ![r] = TRUE]
    /\ RunTo(r, "boot")
    /\ UNCHANGED <<req, pid, files, guard, res, ps>>

(* Spawned into the network namespace if there is one.                     *)
spawn_cloud_hypervisor(r) ==
    /\ stage[r] = "create" /\ Backend(r) = "ch"
    /\ vmm' = [vmm EXCEPT ![r] = "starting"]
    /\ child' = [child EXCEPT ![r] = "handle"]
    /\ scratch' = [scratch EXCEPT ![r] = TRUE]
    /\ RunTo(r, "daemon")
    /\ UNCHANGED <<req, pid, files, guard, res, ps>>

(* An input that is not a file, a binary that is not there.                *)
SpawnFails(r) == stage[r] = "create" /\ Unwind(r, "failed")

(* Pings until the daemon answers one.                                     *)
wait_for_daemon(r) ==
    /\ stage[r] = "daemon" /\ vmm[r] = "ready"
    /\ RunTo(r, "config")
    /\ UNCHANGED <<req, pid, files, vm, guard, res, ps>>

(* The rest of cloud hypervisor's create: the daemon takes the             *)
(* configuration, which port forwards without a network do not have.       *)
build_vm_config(r) ==
    /\ stage[r] = "config" /\ vmm[r] = "ready"
    /\ req[r].forward => net[r]
    /\ RunTo(r, "boot")
    /\ UNCHANGED <<req, pid, files, vm, guard, res, ps>>

(* The connect loop of open_qmp, until qemu listens.                       *)
open_qmp(r) ==
    /\ stage[r] = "boot" /\ Backend(r) = "qemu" /\ vmm[r] \in Up \ {"starting", "wedged"}
    /\ RunTo(r, "poll")
    /\ UNCHANGED <<req, pid, files, vm, guard, res, ps>>

boot_vm(r) ==
    /\ stage[r] = "boot" /\ Backend(r) = "ch" /\ vmm[r] \in Up \ {"wedged"}
    /\ RunTo(r, "poll")
    /\ UNCHANGED <<req, pid, files, vm, guard, res, ps>>

(* boot's loop sees the guest running.  wait takes the Child out of the    *)
(* handle into the future that the select polls.                           *)
boot(r) ==
    /\ stage[r] = "poll" /\ vmm[r] = "running"
    /\ child' = [child EXCEPT ![r] = "wait"]
    /\ RunTo(r, "waiting")
    /\ UNCHANGED <<req, pid, files, vmm, scratch, guard, res, ps>>

(* The first exchange with the VMM: the ping, or the connection on which   *)
(* qemu greets.  The loops around it have a deadline and the await itself  *)
(* has no timeout, so that a VMM which accepts and says nothing holds it.  *)
Held(r) ==
    /\ stage[r] = "daemon" \/ (stage[r] = "boot" /\ Backend(r) = "qemu")
    /\ vmm[r] = "wedged"

(* A call that fails or times out, or a deadline that passes, in create or *)
(* boot.                                                                   *)
ControlFails(r) ==
    /\ stage[r] \in {"daemon", "config", "boot", "poll"} /\ ~Held(r)
    /\ Unwind(r, "failed")

(* A faulty variant: no code stays no code.                                *)
waitedRaw(r) ==
    /\ stage[r] = "waiting" /\ vmm[r] \notin Up
    /\ Unwind(r, IF vmm[r] = "exit1" THEN "nonzero"
                 ELSE IF vmm[r] = "exit0" THEN "zero" ELSE "signalled")

(* The wait branch: a VMM that a signal ended has no code, and is zero.    *)
waited(r) ==
    /\ stage[r] = "waiting" /\ vmm[r] \notin Up
    /\ Unwind(r, IF vmm[r] = "exit1" THEN "nonzero" ELSE "zero")

(* The Ctrl-C branch: the select drops the wait future, and with it the    *)
(* Child that it owns.                                                     *)
interrupt(r) ==
    /\ stage[r] = "waiting"
    /\ vmm' = [vmm EXCEPT ![r] = kill_on_drop(@)]
    /\ child' = [child EXCEPT ![r] = "none"]
    /\ RunTo(r, "shutdown")
    /\ UNCHANGED <<req, pid, files, scratch, guard, res, ps>>

(* A faulty variant: the connect loop has no deadline.                     *)
shutdownForever(r) ==
    /\ stage[r] = "shutdown" /\ vmm[r] \in Up
    /\ Unwind(r, "failed")

(* shutdown, as it is reached: the VMM has just been killed, so the        *)
(* connect loop runs into its deadline and the error is returned.          *)
shutdown(r) ==
    /\ stage[r] = "shutdown" /\ vmm[r] \notin Up
    /\ Unwind(r, "failed")

(* run_image, the container engine: a code, or an error that drops the     *)
(* guard; no code is one.                                                  *)
run_image(r) ==
    /\ stage[r] = "engine"
    /\ \E result \in Finished : Unwind(r, result)

(* exited, failed, or the guard's drop: the write is best effort.          *)
finalize(r) ==
    /\ stage[r] = "finalize"
    /\ \/ guard[r] /\ rec' = [rec EXCEPT ![r] = res[r]]
       \/ UNCHANGED rec
    /\ guard' = [guard EXCEPT ![r] = FALSE]
    /\ res' = [res EXCEPT ![r] = "none"]
    /\ RunTo(r, "leave")
    /\ UNCHANGED <<req, pid, cached, net, vm, ps>>

(* _vmnet is dropped last, and the process ends.                           *)
leave(r) ==
    /\ stage[r] = "leave"
    /\ net' = [net EXCEPT ![r] = FALSE]
    /\ RunTo(r, "over")
    /\ UNCHANGED <<req, pid, cached, vm, guard, res, rec, ps>>

(* The process is killed, or interrupted while it has no handler (before   *)
(* the select): nothing is dropped.                                        *)
KillRun(r) ==
    /\ Alive(r)
    /\ child' = [child EXCEPT ![r] = "none"]
    /\ guard' = [guard EXCEPT ![r] = FALSE]
    /\ RunTo(r, "killed")
    /\ UNCHANGED <<req, pid, files, vmm, scratch, res, ps>>
----------------------------------------------------------------------------
(* The VMM and its guest.                                                  *)

VmmStep(r, from, to) ==
    /\ vmm[r] = from /\ vmm' = [vmm EXCEPT ![r] = to]
    /\ UNCHANGED <<req, stage, pid, files, child, scratch, guard, res, ps>>

Listens(r) == VmmStep(r, "starting", "ready")

(* qemu starts its guest itself, cloud hypervisor is told to.              *)
GuestStarts(r) ==
    /\ Backend(r) = "qemu" \/ stage[r] = "poll"
    /\ VmmStep(r, "ready", "running")

(* It stalls: connections are still accepted, and nothing is answered.     *)
Wedges(r) == \E from \in {"ready", "running"} : VmmStep(r, from, "wedged")

(* The guest powers off and the daemon stays.                              *)
GuestHalts(r) == Backend(r) = "ch" /\ VmmStep(r, "running", "halted")

VmmEnds(r) == \E from \in Up, to \in {"exit0", "exit1", "killed"} : VmmStep(r, from, to)
----------------------------------------------------------------------------
(* umf ps.                                                                 *)

PsStep(p, new) == ps' = [ps EXCEPT ![p] = new]

(* ProcessRegistry::list reads the directory ...                           *)
list(p) ==
    /\ ps[p].at = "idle"
    /\ PsStep(p, [at |-> "read", todo |-> {r \in Run : rec[r] # "none"},
                  stale |-> {}, done |-> {}])
    /\ UNCHANGED <<req, stage, pid, files, vm, guard, res>>

(* ... then a record at a time; one that has gone is skipped ...           *)
list_read(p) ==
    /\ ps[p].at = "read"
    /\ \E r \in ps[p].todo :
          PsStep(p, [ps[p] EXCEPT
              !.at = IF rec[r] = "running" THEN "check" ELSE "read",
              !.todo = @ \ {r},
              !.stale = IF rec[r] = "running" THEN {r} ELSE {},
              !.done = IF rec[r] \in Finished THEN @ \cup {r} ELSE @])
    /\ UNCHANGED <<req, stage, pid, files, vm, guard, res>>

(* A faulty variant: every running record is taken for a stale one.        *)
list_checkNothing(p) ==
    /\ ps[p].at = "check"
    /\ PsStep(p, [ps[p] EXCEPT !.at = "write"])
    /\ UNCHANGED <<req, stage, pid, files, vm, guard, res>>

(* ... a running one whose process is gone is stale ...                    *)
list_check(p) ==
    /\ ps[p].at = "check"
    /\ \A r \in ps[p].stale :
          PsStep(p, [ps[p] EXCEPT !.at = IF pid_alive(pid[r]) THEN "read" ELSE "write"])
    /\ UNCHANGED <<req, stage, pid, files, vm, guard, res>>

(* ... and is written back as failed, best effort.                         *)
list_write(p) ==
    /\ ps[p].at = "write"
    /\ \/ rec' = [r \in Run |-> IF r \in ps[p].stale THEN "failed" ELSE rec[r]]
       \/ UNCHANGED rec
    /\ PsStep(p, [ps[p] EXCEPT !.at = "read", !.done = @ \cup ps[p].stale])
    /\ UNCHANGED <<req, stage, pid, cached, net, vm, guard, res>>

(* The filters keep a part of the list; without --prune it is printed.     *)
run_ps(p) ==
    /\ ps[p].at = "read" /\ ps[p].todo = {}
    /\ \E keep \in SUBSET ps[p].done, prune \in BOOLEAN :
          PsStep(p, [ps[p] EXCEPT !.at = IF prune THEN "prune" ELSE "idle",
                                  !.stale = {},
                                  !.done = IF prune THEN keep ELSE {}])
    /\ UNCHANGED <<req, stage, pid, files, vm, guard, res>>

(* do_prune removes the records that were listed as finished.              *)
do_prune(p) ==
    /\ ps[p].at = "prune"
    /\ \/ \E r \in ps[p].done : /\ rec' = [rec EXCEPT ![r] = "none"]
                                /\ PsStep(p, [ps[p] EXCEPT !.done = @ \ {r}])
       \/ /\ ps[p].done = {}
          /\ PsStep(p, [ps[p] EXCEPT !.at = "idle"])
          /\ UNCHANGED rec
    /\ UNCHANGED <<req, stage, pid, cached, net, vm, guard, res>>
----------------------------------------------------------------------------
RunInit ==
    /\ req \in {q \in [Run -> UNION {Asked[r] : r \in Run}] : \A r \in Run : q[r] \in Asked[r]}
    /\ stage = [r \in Run |-> "idle"]
    /\ pid = [r \in Run |-> CHOOSE p \in ProcId : TRUE]
    /\ cached = FALSE
    /\ net = [r \in Run |-> FALSE]
    /\ vmm = [r \in Run |-> "none"]
    /\ child = [r \in Run |-> "none"]
    /\ scratch = [r \in Run |-> FALSE]
    /\ guard = [r \in Run |-> FALSE]
    /\ res = [r \in Run |-> "none"]
    /\ rec = [r \in Run |-> "none"]
    /\ ps = [p \in Ps |-> [at |-> "idle", todo |-> {}, stale |-> {}, done |-> {}]]

Umf(r) ==
    \/ run_bootable(r) \/ CompileFails(r) \/ setup_vmnet(r) \/ VmnetFails(r)
    \/ start(r) \/ spawn_qemu(r) \/ spawn_cloud_hypervisor(r) \/ SpawnFails(r)
    \/ wait_for_daemon(r) \/ build_vm_config(r) \/ open_qmp(r) \/ boot_vm(r) \/ boot(r)
    \/ ControlFails(r) \/ waited(r) \/ shutdown(r) \/ finalize(r) \/ leave(r)

Host(r) == Listens(r) \/ GuestStarts(r) \/ Wedges(r) \/ GuestHalts(r) \/ VmmEnds(r)

RunNext ==
    \/ \E r \in Run : run_run(r) \/ Umf(r) \/ run_image(r) \/ interrupt(r) \/ KillRun(r)
                      \/ Host(r)
    \/ \E p \in Ps : list(p) \/ list_read(p) \/ list_check(p) \/ list_write(p)
                     \/ run_ps(p) \/ do_prune(p)

(* A run that has started goes on: its loops end by their deadlines.  The  *)
(* workload, the guest's or the container's, may run for ever.             *)
RunSpec == RunInit /\ [][RunNext]_runVars /\ \A r \in Run : WF_runVars(Umf(r))
----------------------------------------------------------------------------
RunTypeOK ==
    /\ stage \in [Run -> RunPoints]
    /\ pid \in [Run -> ProcId]
    /\ cached \in BOOLEAN
    /\ vmm \in [Run -> Up \cup {"none", "exit0", "exit1", "killed"}]
    /\ child \in [Run -> {"none", "handle", "wait"}]
    /\ \A f \in {net, scratch, guard} : f \in [Run -> BOOLEAN]
    /\ res \in [Run -> Finished \cup {"none"}]
    /\ rec \in [Run -> Finished \cup {"none", "running"}]
    /\ ps \in [Ps -> [at : {"idle", "read", "check", "write", "prune"},
                      todo : SUBSET Run, stale : SUBSET Run, done : SUBSET Run]]

(* A record that says exited or failed is about a VMM that is gone, unless *)
(* the run itself was killed: the handle is dropped before the guard is    *)
(* finalized, on every path out of run_vm and whatever ps does meanwhile.  *)
FinishedMeansGone ==
    \A r \in Run : rec[r] \in Finished /\ stage[r] # "killed" => vmm[r] \notin Up

(* The record of a run that is on its way is there and says running: no    *)
(* listing takes a live process for a stale one, and no prune removes its  *)
(* record, process ids that are given again included.                      *)
LiveRecordKept ==
    \A r \in Run : guard[r] => rec[r] = "running"

(* While a VMM that was given a tap runs, its network is there; a run that *)
(* is over has left neither the network, nor a VMM, nor scratch files.     *)
NetSpansVm ==
    \A r \in Run :
        /\ vmm[r] \in Up /\ NeedsNet(r) => net[r]
        /\ stage[r] = "over" => ~net[r] /\ ~scratch[r] /\ vmm[r] \notin Up

(* The points before a run has a record, and those where it has a VMM.     *)
Unrecorded == {"idle", "bootable", "network", "record"}
Driving    == {"daemon", "config", "boot", "poll", "waiting"}

(* The network, the scratch files and the VMM by the point of the run: a   *)
(* VMM that is up is owned by its run, unless the run was killed.          *)
LifeInv ==
    \A r \in Run :
        /\ vmm[r] \in Up => stage[r] = "killed" \/ (stage[r] \in Driving /\ child[r] # "none")
        /\ scratch[r] => stage[r] \in Driving \cup {"shutdown", "killed"}
        /\ net[r] => stage[r] \notin {"idle", "bootable", "network", "over"}
        /\ stage[r] \in Driving \cup {"create"} \/ (stage[r] = "record" /\ OnVm(r))
              => (NeedsNet(r) => net[r])

(* The records, and what a listing knows of them: a run has one only after *)
(* it has started, a process found dead stays dead, and what is listed as  *)
(* finished will not be finalized again.                                   *)
RecordInv ==
    /\ \A r \in Run :
         /\ guard[r] => stage[r] \in Driving \cup {"create", "shutdown", "engine", "finalize"}
         /\ rec[r] # "none" => stage[r] \notin Unrecorded
         /\ rec[r] \in Finished => stage[r] \in {"leave", "over", "killed"}
    /\ \A p \in Ps :
         /\ \A r \in ps[p].todo \cup ps[p].stale \cup ps[p].done : stage[r] \notin Unrecorded
         /\ ps[p].at = "check" => \E r \in Run : ps[p].stale = {r}
         /\ ps[p].at = "write" => \A r \in ps[p].stale : stage[r] \in {"over", "killed"}
         /\ \A r \in ps[p].done : ~guard[r]

(* The state of the runs: well typed, each VMM inside the life of its      *)
(* network, its handle and its running record.                             *)
VmInv == RunTypeOK /\ FinishedMeansGone /\ LiveRecordKept /\ NetSpansVm /\ LifeInv /\ RecordInv

(* From any point a run comes to its workload or to its end: connecting,   *)
(* booting and shutting down have deadlines, a VMM that stalls once it has *)
(* answered is given up, and an interrupt ends the run.  The one exception *)
(* is a VMM that accepts the first connection and never answers on it.     *)
RunsSettle ==
    \A r \in Run :
        Alive(r) ~> (stage[r] \in {"waiting", "engine", "over", "killed"} \/ Held(r))
==============================================================================
