------------------------------- MODULE HostNet -------------------------------
(***************************************************************************)
(* The host network state that umf-networking builds and takes down: the   *)
(* NAT'd egress of container RUN steps (ContainerNet) and the networks of  *)
(* VMs (VmNet).  They share the host's ip_forward switch, the names of its *)
(* links and its nftables tables, and know of each other only by these.    *)
(*                                                                         *)
(* A container network leases a /30 block by creating the veth that is     *)
(* named after it; its nft table has the block's name too.  The names of a *)
(* VM network have the id of its process.  Every step may fail, and a      *)
(* process may be killed between any two.                                  *)
(***************************************************************************)
EXTENDS Naturals

CONSTANTS
    Ctr,        \* container networks, each set up once
    Vm,         \* VM networks, each set up once
    Pid,        \* the process id that a network is set up for
    Blocks,     \* SUBNET_BLOCKS: /30 blocks in the pool
    Stale,      \* blocks whose link was left behind by someone earlier
    Other,      \* their owner
    NoNet       \* no owner

Net   == Ctr \cup Vm
Block == 0 .. Blocks - 1

ASSUME NetAssumption ==
    /\ Ctr \cap Vm = {} /\ NoNet \notin Net /\ Other \notin Net /\ Other # NoNet
    /\ Blocks \in Nat \ {0} /\ Stale \subseteq Block
    /\ Pid \in [Net -> Nat]

VARIABLES
    fwd,     \* net.ipv4.ip_forward
    posture, \* its value before the first network was set up
    veth,    \* who created the host link that is named after a block
    nat,     \* whose rules the table umf-nat-<block> has; no table if empty
    vmhost,  \* what is there of the VM networks
    pc,      \* where each network is in its setup or teardown
    tries,   \* blocks that a container network has found taken
    prior,   \* prior_ip_forward: whether it is to be turned off again
    litter,  \* networks that were killed, or had a step fail that nobody undoes
    shared   \* whether two networks have ever been there at a time

vars == <<fwd, posture, veth, nat, vmhost, pc, tries, prior, litter, shared>>
host == <<fwd, posture, veth, nat, vmhost>>

VmParts == {"netns", "link", "table", "dhcp"}

Setup    == {"claim", "host", "inside", "read", "write", "netns", "nft"}
Rollback == {"undo-table", "undo-check", "undo-restore", "undo-link"}
Teardown == {"dhcp", "table", "link", "check", "restore"}
Points   == {"idle", "up", "over", "killed"} \cup Setup \cup Rollback \cup Teardown

Active(n) == pc[n] \in Setup \cup Rollback \cup Teardown \cup {"up"}

Goto(n, l)   == pc' = [pc EXCEPT ![n] = l]
LeftBy(n, l) == Goto(n, l) /\ litter' = litter \cup {n}

(* The block a container network tries, or has got: pid % SUBNET_BLOCKS    *)
(* and on around the pool.                                                 *)
block(n) == (Pid[n] + tries[n]) % Blocks
----------------------------------------------------------------------------
(* ContainerNet::setup, VmNet::setup, VmNet::setup_policed_egress.         *)
setup(n) ==
    /\ pc[n] = "idle"
    /\ Goto(n, IF n \in Ctr THEN "claim" ELSE "read")
    /\ shared' = (shared \/ \E m \in Net : Active(m))
    /\ UNCHANGED <<host, tries, prior, litter>>

(* A faulty variant: the walk tries its first block twice.                 *)
claimOnceMore(n) ==
    /\ pc[n] = "claim"
    /\ \/ /\ veth[block(n)] = NoNet
          /\ veth' = [veth EXCEPT ![block(n)] = n]
          /\ Goto(n, "host")
          /\ UNCHANGED tries
       \/ /\ veth[block(n)] # NoNet
          /\ tries' = [tries EXCEPT ![n] = @ + 1]
          /\ IF tries[n] <= Blocks THEN UNCHANGED pc ELSE Goto(n, "over")
          /\ UNCHANGED veth
    /\ UNCHANGED <<fwd, posture, nat, vmhost, prior, litter, shared>>

(* A faulty variant: a link that is there is taken for the own one.        *)
claimAdopts(n) ==
    /\ pc[n] = "claim"
    /\ veth' = [veth EXCEPT ![block(n)] = IF @ = NoNet THEN n ELSE @]
    /\ Goto(n, "host")
    /\ UNCHANGED <<fwd, posture, nat, vmhost, tries, prior, litter, shared>>

(* The veth add of setup_host_side is the claim: LinkExists sends the walk  *)
(* to the next block, after the last one it is NoFreeSubnet.               *)
claim(n) ==
    /\ pc[n] = "claim"
    /\ \/ /\ veth[block(n)] = NoNet
          /\ veth' = [veth EXCEPT ![block(n)] = n]
          /\ Goto(n, "host")
          /\ UNCHANGED tries
       \/ /\ veth[block(n)] # NoNet
          /\ tries' = [tries EXCEPT ![n] = @ + 1]
          /\ IF tries[n] + 1 < Blocks THEN UNCHANGED pc ELSE Goto(n, "over")
          /\ UNCHANGED veth
    /\ UNCHANGED <<fwd, posture, nat, vmhost, prior, litter, shared>>

(* A bad egress policy, or a netlink error: there is nothing to undo.      *)
ClaimFails(n) ==
    /\ pc[n] = "claim"
    /\ Goto(n, "over")
    /\ UNCHANGED <<host, tries, prior, litter, shared>>

(* The rest of setup_host_side.  An error of ContainerNet's is returned    *)
(* from setup_inner before its rollback: the link stays.                   *)
setup_host_side(n) ==
    /\ pc[n] = "host"
    /\ n \in Ctr
    /\ \/ Goto(n, "inside") /\ UNCHANGED litter
       \/ LeftBy(n, "over")
    /\ UNCHANGED <<host, tries, prior, shared>>

(* configure_container_side, in the namespace of the container.            *)
configure_container_side(n) ==
    /\ pc[n] = "inside"
    /\ n \in Ctr
    /\ \E l \in {"read", "undo-table"} : Goto(n, l)
    /\ UNCHANGED <<host, tries, prior, litter, shared>>

(* A faulty variant: the value to restore is taken to be off.              *)
forward_restore_targetAlways(f) == TRUE

(* forward_restore_target: only what was off before is to be turned off.   *)
forward_restore_target(f) == f = 0

(* enable_ipv4_forwarding reads the switch; an unreadable one is left on.  *)
ReadForwarding(n) ==
    /\ pc[n] = "read"
    /\ Goto(n, "write")
    /\ \/ prior' = [prior EXCEPT ![n] = forward_restore_target(fwd)] /\ UNCHANGED litter
       \/ litter' = litter \cup {n} /\ UNCHANGED prior
    /\ UNCHANGED <<host, tries, shared>>

(* ... and writes it.  A container network rolls back when that fails, and  *)
(* has no value to restore then.                                           *)
enable_ipv4_forwarding(n) ==
    /\ pc[n] = "write"
    /\ \/ fwd' = 1 /\ Goto(n, IF n \in Ctr THEN "nft" ELSE "netns") /\ UNCHANGED prior
       \/ /\ Goto(n, IF n \in Ctr THEN "undo-table" ELSE "over")
          /\ prior' = [prior EXCEPT ![n] = FALSE]
          /\ UNCHANGED fwd
    /\ UNCHANGED <<posture, veth, nat, vmhost, tries, litter, shared>>

(* A faulty variant: an error is returned as it is.                        *)
add_masqueradeNoUndo(n) ==
    /\ pc[n] = "nft"
    /\ n \in Ctr
    /\ \/ nat' = [nat EXCEPT ![block(n)] = @ \cup {n}] /\ Goto(n, "up")
       \/ Goto(n, "over") /\ UNCHANGED nat
    /\ UNCHANGED <<fwd, posture, veth, vmhost, tries, prior, litter, shared>>

(* add_masquerade: nft -f adds to a table of the name that is there.       *)
add_masquerade(n) ==
    /\ pc[n] = "nft"
    /\ n \in Ctr
    /\ \/ nat' = [nat EXCEPT ![block(n)] = @ \cup {n}] /\ Goto(n, "up")
       \/ Goto(n, "undo-table") /\ UNCHANGED nat
    /\ UNCHANGED <<fwd, posture, veth, vmhost, tries, prior, litter, shared>>
----------------------------------------------------------------------------
Has(n, x)   == [net |-> n, part |-> x] \in vmhost
Gain(n, x)  == vmhost' = vmhost \cup {[net |-> n, part |-> x]}
Lose(n, xs) == vmhost' = vmhost \ {[net |-> n, part |-> x] : x \in xs}

(* create_netns; an error restores the switch.                             *)
create_netns(n) ==
    /\ pc[n] = "netns"
    /\ \/ Gain(n, "netns") /\ Goto(n, "host")
       \/ Goto(n, "restore") /\ UNCHANGED vmhost
    /\ UNCHANGED <<fwd, posture, veth, nat, tries, prior, litter, shared>>

(* VmNet's setup_host_side, failing before or after the link is there.     *)
VmHostSide(n) ==
    /\ pc[n] = "host"
    /\ n \in Vm
    /\ \/ Gain(n, "link") /\ \E l \in {"inside", "table"} : Goto(n, l)
       \/ Goto(n, "table") /\ UNCHANGED vmhost
    /\ UNCHANGED <<fwd, posture, veth, nat, tries, prior, litter, shared>>

(* configure_netns_side: bridge and tap, in the namespace.                 *)
configure_netns_side(n) ==
    /\ pc[n] = "inside"
    /\ n \in Vm
    /\ \E l \in {"nft", "table"} : Goto(n, l)
    /\ UNCHANGED <<host, tries, prior, litter, shared>>

(* The table with the DNAT rules, or the masquerade of a policed build,    *)
(* then spawn_dhcp, which may start nothing.                               *)
nft_apply(n) ==
    /\ pc[n] = "nft"
    /\ n \in Vm
    /\ \/ \E xs \in {{"table"}, {"table", "dhcp"}} :
            /\ vmhost' = vmhost \cup {[net |-> n, part |-> x] : x \in xs}
            /\ Goto(n, "up")
       \/ Goto(n, "table") /\ UNCHANGED vmhost
    /\ UNCHANGED <<fwd, posture, veth, nat, tries, prior, litter, shared>>
----------------------------------------------------------------------------
(* The container or the guest is gone, and the guard is dropped.           *)
Exit(n) ==
    /\ pc[n] = "up"
    /\ Goto(n, IF n \in Ctr THEN "table" ELSE "dhcp")
    /\ UNCHANGED <<host, tries, prior, litter, shared>>

(* The kernel removes the links of a network namespace that nobody is in   *)
(* any more, at a time of its own.                                         *)
Reap(n) ==
    /\ \/ /\ n \in Ctr
          /\ pc[n] \in Teardown \cup {"killed"}
          /\ veth[block(n)] = n
          /\ veth' = [veth EXCEPT ![block(n)] = NoNet]
          /\ UNCHANGED vmhost
       \/ /\ pc[n] = "killed"
          /\ Has(n, "netns") /\ ~Has(n, "dhcp")
          /\ Lose(n, {"netns", "link"})
          /\ UNCHANGED veth
    /\ UNCHANGED <<fwd, posture, nat, pc, tries, prior, litter, shared>>

(* What a step of a teardown leads to: Drop for ContainerNet, its          *)
(* rollback, which restores the switch before it removes the link, and     *)
(* VmNet's teardown, which does not look for other tables.                 *)
After(n) ==
    CASE pc[n] = "undo-table" -> "undo-check"
      [] pc[n] = "undo-check" -> "undo-link"
      [] pc[n] = "undo-restore" -> "undo-link"
      [] pc[n] = "dhcp"  -> "table"
      [] pc[n] = "table" -> "link"
      [] pc[n] = "link"  -> IF n \in Ctr THEN "check" ELSE "restore"
      [] OTHER -> "over"

(* The DHCP daemon is killed.                                              *)
KillDhcp(n) ==
    /\ pc[n] = "dhcp"
    /\ Lose(n, {"dhcp"})
    /\ Goto(n, After(n))
    /\ UNCHANGED <<fwd, posture, veth, nat, tries, prior, litter, shared>>

(* del_masquerade, and the same in teardown: the table by its name.        *)
del_masquerade(n) ==
    /\ pc[n] \in {"table", "undo-table"}
    /\ IF n \in Ctr
       THEN nat' = [nat EXCEPT ![block(n)] = {}] /\ UNCHANGED vmhost
       ELSE Lose(n, {"table"}) /\ UNCHANGED nat
    /\ Goto(n, After(n))
    /\ UNCHANGED <<fwd, posture, veth, tries, prior, litter, shared>>

(* del_link: the link by its name, if there is one.                        *)
del_link(n) ==
    /\ pc[n] \in {"link", "undo-link"}
    /\ IF n \in Ctr
       THEN veth' = [veth EXCEPT ![block(n)] = NoNet] /\ UNCHANGED vmhost
       ELSE Lose(n, {"link"}) /\ UNCHANGED veth
    /\ Goto(n, After(n))
    /\ UNCHANGED <<fwd, posture, nat, tries, prior, litter, shared>>

(* The VM tables are named umf-vmfwd-<id>: nobody counts them.             *)
umf_nat_table_present == \E b \in Block : nat[b] # {}

(* restore_ip_forward of ContainerNet: it lists the tables first.          *)
CheckTables(n) ==
    /\ pc[n] \in {"check", "undo-check"}
    /\ IF prior[n] /\ ~umf_nat_table_present
       THEN Goto(n, IF pc[n] = "check" THEN "restore" ELSE "undo-restore")
       ELSE Goto(n, After(n))
    /\ UNCHANGED <<host, tries, prior, litter, shared>>

(* A faulty variant: the switch is left on.                                *)
restore_ip_forwardLater(n) ==
    /\ pc[n] \in {"restore", "undo-restore"}
    /\ Goto(n, After(n))
    /\ IF n \in Vm THEN Lose(n, {"netns"}) ELSE UNCHANGED vmhost
    /\ UNCHANGED <<fwd, posture, veth, nat, tries, prior, litter, shared>>

(* The write; a VmNet comes here without a check, and releases its         *)
(* namespace after it.                                                     *)
restore_ip_forward(n) ==
    /\ pc[n] \in {"restore", "undo-restore"}
    /\ fwd' = IF prior[n] THEN 0 ELSE fwd
    /\ Goto(n, After(n))
    /\ IF n \in Vm THEN Lose(n, {"netns"}) ELSE UNCHANGED vmhost
    /\ UNCHANGED <<posture, veth, nat, tries, prior, litter, shared>>

(* A teardown step that fails is logged, and the next one follows; a       *)
(* failing `nft list tables` counts as a table.                            *)
TeardownFails(n) ==
    /\ pc[n] \in (Rollback \cup Teardown) \ {"dhcp"}
    /\ pc[n] \in {"check", "undo-check", "restore", "undo-restore"} => prior[n]
    /\ LeftBy(n, After(n))
    /\ IF n \in Vm /\ After(n) = "over" THEN Lose(n, {"netns"}) ELSE UNCHANGED vmhost
    /\ UNCHANGED <<fwd, posture, veth, nat, tries, prior, shared>>

(* The process is killed: no guard is dropped.                             *)
Kill(n) ==
    /\ Active(n)
    /\ LeftBy(n, "killed")
    /\ UNCHANGED <<host, tries, prior, shared>>

Step(n) ==
    \/ claim(n) \/ ClaimFails(n) \/ setup_host_side(n) \/ configure_container_side(n)
    \/ ReadForwarding(n) \/ enable_ipv4_forwarding(n) \/ add_masquerade(n)
    \/ create_netns(n) \/ VmHostSide(n) \/ configure_netns_side(n) \/ nft_apply(n)
    \/ KillDhcp(n) \/ del_masquerade(n) \/ del_link(n) \/ CheckTables(n)
    \/ restore_ip_forward(n) \/ TeardownFails(n)

(* Every network has been set up and is gone.                              *)
AllOver == \A n \in Net : pc[n] \in {"over", "killed"}
Rest    == AllOver /\ UNCHANGED vars

Next ==
    \/ \E n \in Net : setup(n) \/ Step(n) \/ Exit(n) \/ Reap(n) \/ Kill(n)
    \/ Rest

Init ==
    /\ fwd \in {0, 1}
    /\ posture = fwd
    /\ veth   = [b \in Block |-> IF b \in Stale THEN Other ELSE NoNet]
    /\ nat    = [b \in Block |-> {}]
    /\ vmhost = {}
    /\ pc     = [n \in Net |-> "idle"]
    /\ tries  = [n \in Net |-> 0]
    /\ prior  = [n \in Net |-> FALSE]
    /\ litter = {}
    /\ shared = FALSE

Spec == Init /\ [][Next]_vars
----------------------------------------------------------------------------
(* Type correctness; a walk never goes past the pool.                      *)
TypeOK ==
    /\ fwd \in {0, 1} /\ posture \in {0, 1}
    /\ veth   \in [Block -> Ctr \cup {NoNet, Other}]
    /\ nat    \in [Block -> SUBSET Ctr]
    /\ vmhost \subseteq [net : Vm, part : VmParts]
    /\ pc     \in [Net -> Points]
    /\ tries  \in [Net -> 0 .. Blocks]
    /\ prior  \in [Net -> BOOLEAN]
    /\ litter \subseteq Net
    /\ shared \in BOOLEAN

(* Whatever fails, and however setups, rollbacks and teardowns overlap and *)
(* hit each other's names: a network that is over has left no link, table, *)
(* namespace or daemon, unless it was killed, its host side failed, or a   *)
(* step of its own teardown did.                                           *)
NothingLeft ==
    \A n \in Net : pc[n] \in {"idle", "over"} /\ n \notin litter =>
        /\ \A b \in Block : veth[b] # n /\ n \notin nat[b]
        /\ \A x \in VmParts : ~Has(n, x)

(* A host that forwards anyway is never made to stop, by any overlap.      *)
PostureKept == posture = 1 => fwd = 1

(* enable_ipv4_forwarding has not been reached, or will keep the host      *)
(* forwarding until the network goes.                                      *)
BeforeRead(n) == pc[n] \in {"idle", "claim", "read"} \/ (n \in Ctr /\ pc[n] \in {"host", "inside"})
Forwards(n)   == pc[n] \in {"netns", "nft", "up"} \/ (n \in Vm /\ pc[n] \in {"host", "inside"})

(* Where a network can be and what it knows there: the walk ends with the  *)
(* pool, and only a switch that was off before all is to be turned off.    *)
PointInv ==
    \A n \in Net :
        /\ n \in Ctr => pc[n] \notin {"netns", "dhcp"}
        /\ n \in Vm  => pc[n] \notin {"claim", "check"} \cup Rollback
        /\ pc[n] \in {"idle", "claim"} => tries[n] < Blocks /\ n \notin litter
        /\ prior[n] => posture = 0 /\ ~BeforeRead(n)

(* The points where a container network has its link, and those where a    *)
(* VM network may still have a part.                                       *)
LinkPoints == {"host", "inside", "read", "write", "nft", "up", "table", "link"} \cup Rollback
PartPoints ==
    [netns |-> {"host", "inside", "nft", "up", "dhcp", "table", "link", "restore"},
     link  |-> {"inside", "nft", "up", "dhcp", "table", "link"},
     table |-> {"up", "dhcp", "table"},
     dhcp  |-> {"up", "dhcp"}]

(* What is on the host belongs to a network that is still to remove it, or *)
(* that is known to have left it; links and tables are at its own block.   *)
OwnInv ==
    /\ \A n \in Ctr, b \in Block :
         /\ veth[b] = n => b = block(n) /\ (n \in litter \/ pc[n] \in LinkPoints)
         /\ n \in nat[b] => b = block(n) /\ (n \in litter \/ pc[n] \in {"up", "table"})
    /\ \A n \in Vm, x \in VmParts : Has(n, x) => n \in litter \/ pc[n] \in PartPoints[x]

(* A VM network on its way up has the parts that it has come past.         *)
VmHas ==
    \A n \in Vm :
        /\ pc[n] \in {"host", "inside", "nft", "up"} => Has(n, "netns")
        /\ pc[n] \in {"inside", "nft", "up"} => Has(n, "link")
        /\ pc[n] = "up" => Has(n, "table")

(* As long as no two networks overlapped: a container network on its way   *)
(* up keeps what it made, the switch is on from the write to the restore,  *)
(* and each network knows whether it is for it to turn off.                *)
AloneInv ==
    ~shared =>
        /\ \A m, n \in Net : Active(m) /\ Active(n) => m = n
        /\ \A n \in Net : Forwards(n) => fwd = 1
        /\ \A n \in Ctr :
             /\ pc[n] \in (LinkPoints \cap Setup) \cup {"up"} => veth[block(n)] = n
             /\ pc[n] = "up" => n \in nat[block(n)]
        /\ litter = {} =>
             /\ (\A n \in Net : ~Active(n)) => fwd = posture
             /\ \A n \in Net : Active(n) =>
                  /\ pc[n] \in {"write", "undo-link"} \/ ~prior[n] => fwd = posture
                  /\ pc[n] = "write" => prior[n] \/ posture = 1

(* The state of the host: well typed, forwarding if it did before, and     *)
(* with nothing on it that no network answers for.                         *)
HostInv == TypeOK /\ PostureKept /\ PointInv /\ OwnInv /\ VmHas /\ AloneInv

(* Networks that come one after the other: while one is up, it has its     *)
(* link, its rules and a host that forwards, also on what killed ones left. *)
AloneHasEgress ==
    ~shared => \A n \in Net : pc[n] = "up" =>
        /\ fwd = 1
        /\ n \in Ctr => veth[block(n)] = n /\ n \in nat[block(n)]
        /\ n \in Vm => \A x \in {"netns", "link", "table"} : Has(n, x)

(* ... and when they are gone, the switch is as the first one found it.    *)
AloneRestores ==
    ~shared /\ litter = {} /\ (\A n \in Net : ~Active(n)) => fwd = posture

(* Without overlap a network serves its user and leaves the host alone.    *)
AloneServes == AloneHasEgress /\ AloneRestores
==============================================================================
