----------------------------- MODULE HostProofs ------------------------------
(* What umf puts on a host and takes off it again.  What its networks      *)
(* leave behind, for any number of container and VM networks, any process  *)
(* ids and any size of the address pool.  The VMMs, networks and records   *)
(* of umf run, for any number of runs and of listings, any command lines   *)
(* and any set of process ids, given again or not.                         *)
(*                                                                         *)
(* Each theorem is about one specification; the two are not composed.      *)
EXTENDS HostNet, VmRun, TLAPS
----------------------------------------------------------------------------
(* The networks.                                                           *)

(* The block that a network tries is one of the pool.                      *)
LEMMA BlockIn ==
    ASSUME TypeOK, NEW n \in Net
    PROVE  block(n) \in Block
BY NetAssumption DEF TypeOK, block, Block, Net

(* What Lose and Gain do to the parts of the VM networks.                  *)
LEMMA Lost ==
    ASSUME NEW m, NEW xs, Lose(m, xs)
    PROVE  \A n, x : Has(n, x)' <=> Has(n, x) /\ ~(n = m /\ x \in xs)
BY DEF Lose, Has

(* A part that a VM network gains.                                         *)
LEMMA GainedOne ==
    ASSUME NEW m, NEW y, Gain(m, y)
    PROVE  \A n, x : Has(n, x)' <=> Has(n, x) \/ (n = m /\ x = y)
BY DEF Gain, Has

(* A step that leaves the VM networks alone.                               *)
LEMMA Same ==
    ASSUME UNCHANGED vmhost
    PROVE  \A n, x : Has(n, x)' <=> Has(n, x)
BY DEF Has

(* A step of one network.                                                  *)
Act(n) == setup(n) \/ Step(n) \/ Exit(n) \/ Reap(n) \/ Kill(n)

(* Types: the walk of claim stays inside the pool because it starts inside *)
(* it.                                                                     *)
LEMMA TypeKept ==
    ASSUME TypeOK, PointInv, NEW n \in Net, Act(n)
    PROVE  TypeOK'
<1> USE DEF TypeOK, PointInv, Net, VmParts, Setup, Rollback, Teardown, Points
<1>0. block(n) \in Block
  BY BlockIn
<1>1. CASE setup(n)
  BY <1>0, <1>1, NetAssumption DEF setup, host, Goto, Active
<1>2. CASE claim(n)
  BY <1>0, <1>2, NetAssumption DEF claim, Goto
<1>3. CASE ClaimFails(n)
  BY <1>0, <1>3, NetAssumption DEF ClaimFails, host, Goto
<1>4. CASE setup_host_side(n)
  BY <1>0, <1>4, NetAssumption DEF setup_host_side, host, Goto, LeftBy
<1>5. CASE configure_container_side(n)
  BY <1>0, <1>5, NetAssumption DEF configure_container_side, host, Goto
<1>6. CASE ReadForwarding(n)
  BY <1>0, <1>6, NetAssumption DEF ReadForwarding, host, Goto, forward_restore_target
<1>7. CASE enable_ipv4_forwarding(n)
  BY <1>0, <1>7, NetAssumption DEF enable_ipv4_forwarding, Goto
<1>8. CASE add_masquerade(n)
  BY <1>0, <1>8, NetAssumption DEF add_masquerade, Goto
<1>9. CASE create_netns(n)
  BY <1>0, <1>9, NetAssumption DEF create_netns, Goto, Gain
<1>10. CASE VmHostSide(n)
  BY <1>0, <1>10, NetAssumption DEF VmHostSide, Goto, Gain
<1>11. CASE configure_netns_side(n)
  BY <1>0, <1>11, NetAssumption DEF configure_netns_side, host, Goto
<1>12. CASE nft_apply(n)
  BY <1>0, <1>12, NetAssumption DEF nft_apply, Goto
<1>13. CASE KillDhcp(n)
  BY <1>0, <1>13, NetAssumption DEF KillDhcp, Lose, Goto, After
<1>14. CASE del_masquerade(n)
  BY <1>0, <1>14, NetAssumption DEF del_masquerade, Lose, Goto, After
<1>15. CASE del_link(n)
  BY <1>0, <1>15, NetAssumption DEF del_link, Lose, Goto, After
<1>16. CASE CheckTables(n)
  BY <1>0, <1>16, NetAssumption DEF CheckTables, host, Goto, After
<1>17. CASE restore_ip_forward(n)
  BY <1>0, <1>17, NetAssumption DEF restore_ip_forward, Lose, Goto, After
<1>18. CASE TeardownFails(n)
  BY <1>0, <1>18, NetAssumption DEF TeardownFails, Lose, Goto, LeftBy, After
<1>19. CASE Exit(n)
  BY <1>0, <1>19, NetAssumption DEF Exit, host, Goto
<1>20. CASE Reap(n)
  BY <1>0, <1>20, NetAssumption DEF Reap, Lose, Has
<1>21. CASE Kill(n)
  BY <1>0, <1>21, NetAssumption DEF Kill, host, Goto, LeftBy, Active
<1>22. QED
  BY <1>1, <1>2, <1>3, <1>4, <1>5, <1>6, <1>7, <1>8, <1>9, <1>10, <1>11, <1>12, <1>13,
     <1>14, <1>15, <1>16, <1>17, <1>18, <1>19, <1>20, <1>21
  DEF Act, Step

(* The points of a network, and the switch of a host that forwards anyway: *)
(* only a network that read 0 writes 0, and then the host did not forward  *)
(* before.                                                                 *)
LEMMA PointsKept ==
    ASSUME TypeOK, PostureKept, PointInv, NEW n \in Net, Act(n)
    PROVE  PostureKept' /\ PointInv'
<1> USE DEF TypeOK, PostureKept, PointInv, BeforeRead, Net, Setup, Rollback,
            Teardown, Points
<1>0. block(n) \in Block
  BY BlockIn
<1>1. CASE setup(n)
  <2>1. n \in Ctr => pc' = [pc EXCEPT ![n] = "claim"]
    BY <1>1 DEF setup, Goto
  <2>2. n \in Vm => pc' = [pc EXCEPT ![n] = "read"]
    BY <1>1, NetAssumption DEF setup, Goto
  <2>3. tries[n] < Blocks
    BY <1>1 DEF setup
  <2>4. QED
    BY <1>1, <2>1, <2>2, <2>3, NetAssumption DEF setup, host
<1>2. CASE claim(n)
  BY <1>0, <1>2, NetAssumption DEF claim, Goto
<1>3. CASE ClaimFails(n)
  BY <1>0, <1>3, NetAssumption DEF ClaimFails, host, Goto
<1>4. CASE setup_host_side(n)
  BY <1>0, <1>4, NetAssumption DEF setup_host_side, host, Goto, LeftBy
<1>5. CASE configure_container_side(n)
  BY <1>0, <1>5, NetAssumption DEF configure_container_side, host, Goto
<1>6. CASE ReadForwarding(n)
  BY <1>0, <1>6, NetAssumption DEF ReadForwarding, host, Goto, forward_restore_target
<1>7. CASE enable_ipv4_forwarding(n)
  BY <1>0, <1>7, NetAssumption DEF enable_ipv4_forwarding, Goto
<1>8. CASE add_masquerade(n)
  BY <1>0, <1>8, NetAssumption DEF add_masquerade, Goto
<1>9. CASE create_netns(n)
  BY <1>0, <1>9, NetAssumption DEF create_netns, Goto, Gain
<1>10. CASE VmHostSide(n)
  BY <1>0, <1>10, NetAssumption DEF VmHostSide, Goto, Gain
<1>11. CASE configure_netns_side(n)
  BY <1>0, <1>11, NetAssumption DEF configure_netns_side, host, Goto
<1>12. CASE nft_apply(n)
  BY <1>0, <1>12, NetAssumption DEF nft_apply, Goto
<1>13. CASE KillDhcp(n)
  BY <1>0, <1>13, NetAssumption DEF KillDhcp, Lose, Goto, After
<1>14. CASE del_masquerade(n)
  BY <1>0, <1>14, NetAssumption DEF del_masquerade, Lose, Goto, After
<1>15. CASE del_link(n)
  BY <1>0, <1>15, NetAssumption DEF del_link, Lose, Goto, After
<1>16. CASE CheckTables(n)
  BY <1>0, <1>16, NetAssumption DEF CheckTables, host, Goto, After
<1>17. CASE restore_ip_forward(n)
  BY <1>0, <1>17, NetAssumption DEF restore_ip_forward, Lose, Goto, After
<1>18. CASE TeardownFails(n)
  BY <1>0, <1>18, NetAssumption DEF TeardownFails, Lose, Goto, LeftBy, After
<1>19. CASE Exit(n)
  BY <1>0, <1>19, NetAssumption DEF Exit, host, Goto
<1>20. CASE Reap(n)
  BY <1>0, <1>20, NetAssumption DEF Reap, Lose, Has
<1>21. CASE Kill(n)
  BY <1>0, <1>21, NetAssumption DEF Kill, host, Goto, LeftBy, Active
<1>22. QED
  BY <1>1, <1>2, <1>3, <1>4, <1>5, <1>6, <1>7, <1>8, <1>9, <1>10, <1>11, <1>12, <1>13,
     <1>14, <1>15, <1>16, <1>17, <1>18, <1>19, <1>20, <1>21
  DEF Act, Step

(* What is on the host is at its owner's block, and its owner still has    *)
(* the step before it that removes it: a block changes only while nothing  *)
(* is there.                                                               *)
LEMMA OwnersKept ==
    ASSUME TypeOK, PointInv, OwnInv, NEW n \in Net, Act(n)
    PROVE  OwnInv'
<1> USE DEF TypeOK, PointInv, OwnInv, LinkPoints, PartPoints, block, Net, VmParts,
            Setup, Rollback, Teardown, Points
<1>0. block(n) \in Block
  BY BlockIn
<1>1. CASE setup(n)
  BY <1>0, <1>1, Same, NetAssumption DEF setup, host, Goto, Active
<1>2. CASE claim(n)
  BY <1>0, <1>2, Same, NetAssumption DEF claim, Goto
<1>3. CASE ClaimFails(n)
  BY <1>0, <1>3, Same, NetAssumption DEF ClaimFails, host, Goto
<1>4. CASE setup_host_side(n)
  BY <1>0, <1>4, Same, NetAssumption DEF setup_host_side, host, Goto, LeftBy
<1>5. CASE configure_container_side(n)
  BY <1>0, <1>5, Same, NetAssumption DEF configure_container_side, host, Goto
<1>6. CASE ReadForwarding(n)
  BY <1>0, <1>6, Same, NetAssumption
  DEF ReadForwarding, host, Goto, forward_restore_target
<1>7. CASE enable_ipv4_forwarding(n)
  BY <1>0, <1>7, Same, NetAssumption DEF enable_ipv4_forwarding, Goto
<1>8. CASE add_masquerade(n)
  BY <1>0, <1>8, Same, NetAssumption DEF add_masquerade, Goto
<1>9. CASE create_netns(n)
  BY <1>0, <1>9, GainedOne, Same, NetAssumption DEF create_netns, Goto
<1>10. CASE VmHostSide(n)
  BY <1>0, <1>10, GainedOne, Same, NetAssumption DEF VmHostSide, Goto
<1>11. CASE configure_netns_side(n)
  BY <1>0, <1>11, Same, NetAssumption DEF configure_netns_side, host, Goto
<1>12. CASE nft_apply(n)
  <2>1. CASE Goto(n, "table") /\ UNCHANGED vmhost
    BY <1>0, <1>12, <2>1, Same, NetAssumption DEF nft_apply, Goto
  <2>2. CASE \E xs \in {{"table"}, {"table", "dhcp"}} :
               /\ vmhost' = vmhost \cup {[net |-> n, part |-> x] : x \in xs}
               /\ Goto(n, "up")
    <3>1. PICK xs : /\ xs \subseteq {"table", "dhcp"}
                    /\ vmhost' = vmhost \cup {[net |-> n, part |-> x] : x \in xs}
                    /\ pc' = [pc EXCEPT ![n] = "up"]
      BY <2>2 DEF Goto
    <3>2. \A m, x : Has(m, x)' <=> Has(m, x) \/ (m = n /\ x \in xs)
      BY ONLY <3>1 DEF Has
    <3>3. n \in Vm /\ UNCHANGED <<veth, nat, tries, litter>>
      BY <1>12 DEF nft_apply
    <3>4. ASSUME NEW m \in Vm, NEW x \in VmParts, Has(m, x)'
          PROVE  m \in litter' \/ pc'[m] \in PartPoints[x]
      <4>1. CASE Has(m, x)
        BY <1>12, <3>1, <3>3, <4>1 DEF nft_apply
      <4>2. CASE m = n /\ x \in xs
        BY <3>1, <4>2
      <4>3. QED
        BY <3>2, <3>4, <4>1, <4>2
    <3>5. QED
      BY <3>1, <3>3, <3>4, NetAssumption
  <2>3. QED
    BY <1>12, <2>1, <2>2 DEF nft_apply
<1>13. CASE KillDhcp(n)
  BY <1>0, <1>13, Lost, Same, NetAssumption DEF KillDhcp, Goto, After
<1>14. CASE del_masquerade(n)
  BY <1>0, <1>14, Lost, Same, NetAssumption DEF del_masquerade, Goto, After
<1>15. CASE del_link(n)
  BY <1>0, <1>15, Lost, Same, NetAssumption DEF del_link, Goto, After
<1>16. CASE CheckTables(n)
  BY <1>0, <1>16, Same, NetAssumption DEF CheckTables, host, Goto, After
<1>17. CASE restore_ip_forward(n)
  BY <1>0, <1>17, Lost, Same, NetAssumption DEF restore_ip_forward, Goto, After
<1>18. CASE TeardownFails(n)
  BY <1>0, <1>18, Lost, Same, NetAssumption DEF TeardownFails, Goto, LeftBy, After
<1>19. CASE Exit(n)
  BY <1>0, <1>19, Same, NetAssumption DEF Exit, host, Goto
<1>20. CASE Reap(n)
  BY <1>0, <1>20, Lost, Same, NetAssumption DEF Reap
<1>21. CASE Kill(n)
  BY <1>0, <1>21, Same, NetAssumption DEF Kill, host, Goto, LeftBy, Active
<1>22. QED
  BY <1>1, <1>2, <1>3, <1>4, <1>5, <1>6, <1>7, <1>8, <1>9, <1>10, <1>11, <1>12, <1>13,
     <1>14, <1>15, <1>16, <1>17, <1>18, <1>19, <1>20, <1>21
  DEF Act, Step

(* A VM network keeps what it made: the steps of others never hit its      *)
(* names.                                                                  *)
LEMMA PartsKept ==
    ASSUME TypeOK, PointInv, VmHas, NEW n \in Net, Act(n)
    PROVE  VmHas'
<1> USE DEF TypeOK, PointInv, VmHas, Net, VmParts, Setup, Rollback, Teardown, Points
<1>0. block(n) \in Block
  BY BlockIn
<1>1. CASE setup(n)
  BY <1>1, Same, NetAssumption DEF setup, host, Goto, Active
<1>2. CASE claim(n)
  BY <1>2, Same, NetAssumption DEF claim, Goto
<1>3. CASE ClaimFails(n)
  BY <1>3, Same, NetAssumption DEF ClaimFails, host, Goto
<1>4. CASE setup_host_side(n)
  BY <1>4, Same, NetAssumption DEF setup_host_side, host, Goto, LeftBy
<1>5. CASE configure_container_side(n)
  BY <1>5, Same, NetAssumption DEF configure_container_side, host, Goto
<1>6. CASE ReadForwarding(n)
  BY <1>6, Same, NetAssumption DEF ReadForwarding, host, Goto, forward_restore_target
<1>7. CASE enable_ipv4_forwarding(n)
  BY <1>7, Same, NetAssumption DEF enable_ipv4_forwarding, Goto
<1>8. CASE add_masquerade(n)
  BY <1>8, Same, NetAssumption DEF add_masquerade, Goto
<1>9. CASE create_netns(n)
  BY <1>9, GainedOne, Same, NetAssumption DEF create_netns, Goto
<1>10. CASE VmHostSide(n)
  BY <1>10, GainedOne, Same, NetAssumption DEF VmHostSide, Goto
<1>11. CASE configure_netns_side(n)
  BY <1>11, Same, NetAssumption DEF configure_netns_side, host, Goto
<1>12. CASE nft_apply(n)
  <2>1. CASE Goto(n, "table") /\ UNCHANGED vmhost
    BY <2>1, Same DEF Goto
  <2>2. CASE \E xs \in {{"table"}, {"table", "dhcp"}} :
               /\ vmhost' = vmhost \cup {[net |-> n, part |-> x] : x \in xs}
               /\ Goto(n, "up")
    <3>1. PICK xs : /\ "table" \in xs
                    /\ vmhost' = vmhost \cup {[net |-> n, part |-> x] : x \in xs}
                    /\ pc' = [pc EXCEPT ![n] = "up"]
      BY <2>2 DEF Goto
    <3>2. \A m, x : Has(m, x)' <=> Has(m, x) \/ (m = n /\ x \in xs)
      BY ONLY <3>1 DEF Has
    <3>3. QED
      BY <1>12, <3>1, <3>2 DEF nft_apply
  <2>3. QED
    BY <1>12, <2>1, <2>2 DEF nft_apply
<1>13. CASE KillDhcp(n)
  BY <1>13, Lost, Same, NetAssumption DEF KillDhcp, Goto, After
<1>14. CASE del_masquerade(n)
  BY <1>14, Lost, Same, NetAssumption DEF del_masquerade, Goto, After
<1>15. CASE del_link(n)
  BY <1>15, Lost, Same, NetAssumption DEF del_link, Goto, After
<1>16. CASE CheckTables(n)
  BY <1>16, Same, NetAssumption DEF CheckTables, host, Goto, After
<1>17. CASE restore_ip_forward(n)
  BY <1>17, Lost, Same, NetAssumption DEF restore_ip_forward, Goto, After
<1>18. CASE TeardownFails(n)
  BY <1>18, Lost, Same, NetAssumption DEF TeardownFails, Goto, LeftBy, After
<1>19. CASE Exit(n)
  BY <1>19, Same, NetAssumption DEF Exit, host, Goto
<1>20. CASE Reap(n)
  BY <1>20, Lost, Same, NetAssumption DEF Reap
<1>21. CASE Kill(n)
  BY <1>21, Same, NetAssumption DEF Kill, host, Goto, LeftBy, Active
<1>22. QED
  BY <1>1, <1>2, <1>3, <1>4, <1>5, <1>6, <1>7, <1>8, <1>9, <1>10, <1>11, <1>12, <1>13,
     <1>14, <1>15, <1>16, <1>17, <1>18, <1>19, <1>20, <1>21
  DEF Act, Step

(* Networks that come one after the other: the others are idle or gone, so *)
(* neither the switch nor a link or a table changes under the one at work. *)
LEMMA AloneKept ==
    ASSUME TypeOK, PointInv, OwnInv, AloneInv, NEW n \in Net, Act(n)
    PROVE  AloneInv'
<1> USE DEF TypeOK, PointInv, OwnInv, AloneInv, LinkPoints, BeforeRead, Forwards,
            Active, umf_nat_table_present, block, Net, Setup, Rollback, Teardown,
            Points
<1>0. block(n) \in Block
  BY BlockIn
<1>1. CASE setup(n)
  <2> SUFFICES ASSUME ~ shared' PROVE AloneInv'
    OBVIOUS
  <2>1. ~ shared /\ \A m \in Net : ~ Active(m)
    BY <1>1 DEF setup
  <2>2. n \in Ctr => pc' = [pc EXCEPT ![n] = "claim"]
    BY <1>1 DEF setup, Goto
  <2>3. n \in Vm => pc' = [pc EXCEPT ![n] = "read"]
    BY <1>1, NetAssumption DEF setup, Goto
  <2>4. UNCHANGED <<fwd, posture, veth, nat, tries, prior, litter>> /\ ~ prior[n]
    BY <1>1 DEF setup, host
  <2>5. \A m \in Net \ {n} : pc'[m] = pc[m]
    BY <2>2, <2>3
  <2>6. \A m \in Net \ {n} : ~ Active(m)' /\ ~ Forwards(m)'
    BY <2>1, <2>5
  <2>7. QED
    BY <2>1, <2>2, <2>3, <2>4, <2>5, <2>6, NetAssumption
<1>2. CASE claim(n)
  BY <1>0, <1>2, NetAssumption DEF claim, Goto
<1>3. CASE ClaimFails(n)
  BY <1>0, <1>3, NetAssumption DEF ClaimFails, host, Goto
<1>4. CASE setup_host_side(n)
  BY <1>0, <1>4, NetAssumption DEF setup_host_side, host, Goto, LeftBy
<1>5. CASE configure_container_side(n)
  BY <1>0, <1>5, NetAssumption DEF configure_container_side, host, Goto
<1>6. CASE ReadForwarding(n)
  <2>1. /\ pc[n] = "read" /\ pc' = [pc EXCEPT ![n] = "write"]
        /\ UNCHANGED <<fwd, posture, veth, nat, tries, shared>>
    BY <1>6 DEF ReadForwarding, Goto, host
  <2>2. litter' = {} => /\ litter = {} /\ \A m \in Net \ {n} : prior'[m] = prior[m]
                        /\ prior'[n] \/ fwd = 1
    <3>1. CASE litter' = litter \cup {n}
      BY <3>1
    <3>2. CASE prior' = [prior EXCEPT ![n] = (fwd = 0)] /\ litter' = litter
      BY <3>2
    <3>3. QED
      BY <1>6, <3>1, <3>2 DEF ReadForwarding, forward_restore_target
  <2>3. QED
    BY <1>0, <2>1, <2>2, NetAssumption
<1>7. CASE enable_ipv4_forwarding(n)
  BY <1>0, <1>7, NetAssumption DEF enable_ipv4_forwarding, Goto
<1>8. CASE add_masquerade(n)
  BY <1>0, <1>8, NetAssumption DEF add_masquerade, Goto
<1>9. CASE create_netns(n)
  BY <1>0, <1>9, NetAssumption DEF create_netns, Goto, Gain
<1>10. CASE VmHostSide(n)
  BY <1>0, <1>10, NetAssumption DEF VmHostSide, Goto, Gain
<1>11. CASE configure_netns_side(n)
  BY <1>0, <1>11, NetAssumption DEF configure_netns_side, host, Goto
<1>12. CASE nft_apply(n)
  BY <1>0, <1>12, NetAssumption DEF nft_apply, Goto
<1>13. CASE KillDhcp(n)
  BY <1>0, <1>13, NetAssumption DEF KillDhcp, Lose, Goto, After
<1>14. CASE del_masquerade(n)
  BY <1>0, <1>14, NetAssumption DEF del_masquerade, Lose, Goto, After
<1>15. CASE del_link(n)
  BY <1>0, <1>15, NetAssumption DEF del_link, Lose, Goto, After
<1>16. CASE CheckTables(n)
  BY <1>0, <1>16, NetAssumption DEF CheckTables, host, Goto, After
<1>17. CASE restore_ip_forward(n)
  BY <1>0, <1>17, NetAssumption DEF restore_ip_forward, Lose, Goto, After
<1>18. CASE TeardownFails(n)
  BY <1>0, <1>18, NetAssumption DEF TeardownFails, Lose, Goto, LeftBy, After
<1>19. CASE Exit(n)
  BY <1>0, <1>19, NetAssumption DEF Exit, host, Goto
<1>20. CASE Reap(n)
  <2>1. \A m \in Ctr : pc[m] \in (LinkPoints \cap Setup) \cup {"up"} /\ veth[block(m)] = m
                         => veth'[block(m)] = m
    BY <1>0, <1>20, NetAssumption, BlockIn DEF Reap
  <2>2. UNCHANGED <<fwd, posture, nat, pc, tries, prior, litter, shared>>
    BY <1>20 DEF Reap
  <2>3. QED
    BY <2>1, <2>2
<1>21. CASE Kill(n)
  BY <1>0, <1>21, NetAssumption DEF Kill, host, Goto, LeftBy
<1>22. QED
  BY <1>1, <1>2, <1>3, <1>4, <1>5, <1>6, <1>7, <1>8, <1>9, <1>10, <1>11, <1>12, <1>13,
     <1>14, <1>15, <1>16, <1>17, <1>18, <1>19, <1>20, <1>21
  DEF Act, Step
(* The initial states are clean.                                           *)
LEMMA HostInit == Init => HostInv
<1> SUFFICES ASSUME Init PROVE HostInv
  OBVIOUS
<1> USE NetAssumption DEF Init
<1>1. TypeOK
  <2>1. veth \in [Block -> Ctr \cup {NoNet, Other}] /\ nat \in [Block -> SUBSET Ctr]
    OBVIOUS
  <2>2. tries \in [Net -> 0 .. Blocks]
    OBVIOUS
  <2>3. QED
    BY <2>1, <2>2 DEF TypeOK, Points
<1>2. PostureKept /\ PointInv
  BY DEF PostureKept, PointInv, Rollback, Net
<1>3. OwnInv /\ VmHas
  BY DEF OwnInv, VmHas, Has, Net
<1>4. AloneInv
  BY DEF AloneInv, Active, Forwards, LinkPoints, Setup, Rollback, Teardown, Net
<1>5. QED
  BY <1>1, <1>2, <1>3, <1>4 DEF HostInv

(* Every step of every network keeps the invariant.                        *)
LEMMA HostStep == HostInv /\ [Next]_vars => HostInv'
<1> SUFFICES ASSUME HostInv, [Next]_vars PROVE HostInv'
  OBVIOUS
<1>0. TypeOK /\ PostureKept /\ PointInv /\ OwnInv /\ VmHas /\ AloneInv
  BY DEF HostInv
<1>1. ASSUME NEW n \in Net, Act(n) PROVE HostInv'
  BY <1>0, <1>1, TypeKept, PointsKept, OwnersKept, PartsKept, AloneKept DEF HostInv
<1>2. CASE UNCHANGED vars
  <2>1. TypeOK' /\ PostureKept' /\ PointInv'
    BY <1>0, <1>2 DEF vars, TypeOK, PostureKept, PointInv, BeforeRead
  <2>2. OwnInv' /\ VmHas'
    BY <1>0, <1>2 DEF vars, OwnInv, VmHas, Has, block
  <2>3. AloneInv'
    BY <1>0, <1>2 DEF vars, AloneInv, Active, Forwards, block
  <2>4. QED
    BY <2>1, <2>2, <2>3 DEF HostInv
<1>3. QED
  BY <1>1, <1>2 DEF Next, Act, Rest

(* ContainerNet and VmNet: well typed, walks inside the pool, a host that  *)
(* forwards anyway is never made to stop, and nothing on it is without an  *)
(* owner.                                                                  *)
THEOREM HostSafe == Spec => []HostInv
BY HostInit, HostStep, PTL DEF Spec

(* A network that is over has removed its link, its tables, its namespace  *)
(* and its daemon, unless it was killed or a step nobody undoes failed.    *)
THEOREM NetworksLeaveNothing == Spec => []NothingLeft
<1>1. HostInv => NothingLeft
  <2> SUFFICES ASSUME HostInv, NEW n \in Net, pc[n] \in {"idle", "over"}, n \notin litter
               PROVE  /\ \A b \in Block : veth[b] # n /\ n \notin nat[b]
                      /\ \A x \in VmParts : ~Has(n, x)
    BY DEF NothingLeft
  <2>1. CASE n \in Ctr
    <3>1. \A x \in VmParts : ~Has(n, x)
      BY <2>1, NetAssumption DEF HostInv, TypeOK, Has
    <3>2. QED
      BY <2>1, <3>1 DEF HostInv, OwnInv, LinkPoints, Rollback
  <2>2. CASE n \in Vm
    <3>1. \A b \in Block : veth[b] # n /\ n \notin nat[b]
      BY <2>2, NetAssumption DEF HostInv, TypeOK, Net
    <3>2. QED
      BY <2>2, <3>1 DEF HostInv, OwnInv, PartPoints, VmParts
  <2>3. QED
    BY <2>1, <2>2 DEF Net
<1>2. QED
  BY <1>1, HostInit, HostStep, PTL DEF Spec

(* Networks that come one after the other serve their users, also on what  *)
(* killed ones left, and leave ip_forward as the first one found it.       *)
THEOREM AloneIsServed == Spec => []AloneServes
<1>1. HostInv => AloneServes
  <2> SUFFICES ASSUME HostInv PROVE AloneHasEgress /\ AloneRestores
    BY DEF AloneServes
  <2>1. AloneHasEgress
    BY DEF AloneHasEgress, HostInv, AloneInv, VmHas, Forwards, Net
  <2>2. AloneRestores
    BY DEF AloneRestores, HostInv, AloneInv
  <2>3. QED
    BY <2>1, <2>2
<1>2. QED
  BY <1>1, HostInit, HostStep, PTL DEF Spec
----------------------------------------------------------------------------
(* The runs.                                                               *)

(* A step of a run or of its VMM, and a step of a listing.                 *)
RunAct(r)   == run_run(r) \/ Umf(r) \/ run_image(r) \/ interrupt(r) \/ KillRun(r) \/ Host(r)
PsAct(p) == \/ list(p) \/ list_read(p) \/ list_check(p) \/ list_write(p)
            \/ run_ps(p) \/ do_prune(p)

(* Dispatch refuses, or starts one of three things; a VM is never recorded *)
(* before its network has been looked after.                               *)
LEMMA PathType ==
    ASSUME NEW r \in Run
    PROVE  /\ runPath(req[r]) \in {"network", "bootable", "record", "over"}
           /\ runPath(req[r]) = "record" => ~OnVm(r)
BY DEF runPath, OnVm

(* The memory of a listing, and what it may say.                           *)
PsState == [at : {"idle", "read", "check", "write", "prune"},
            todo : SUBSET Run, stale : SUBSET Run, done : SUBSET Run]

Sound(l) ==
    /\ \A r \in l.todo \cup l.stale \cup l.done : stage[r] \notin Unrecorded
    /\ l.at = "check" => \E r \in Run : l.stale = {r}
    /\ l.at = "write" => \A r \in l.stale : stage[r] \in {"over", "killed"}
    /\ \A r \in l.done : ~guard[r]

(* A step of a listing leaves it sound.  It finds a process dead, or a     *)
(* record finished, only after the guard has let go of it.                 *)
LEMMA ListingSound ==
    ASSUME RunTypeOK, LiveRecordKept, RecordInv, NEW p \in Ps, PsAct(p)
    PROVE  \E new \in PsState : ps' = [ps EXCEPT ![p] = new] /\ Sound(new)
<1> DEFINE l == ps[p]
<1>0. l \in PsState /\ Sound(l)
  BY DEF RunTypeOK, RecordInv, PsState, Sound
<1>1. CASE list(p)
  <2> DEFINE new == [at |-> "read", todo |-> {r \in Run : rec[r] # "none"},
                     stale |-> {}, done |-> {}]
  <2>1. new \in PsState /\ Sound(new)
    BY DEF PsState, Sound, RecordInv
  <2>2. QED
    BY <1>1, <2>1 DEF list, PsStep
<1>2. CASE list_read(p)
  <2>1. PICK r \in l.todo :
          ps' = [ps EXCEPT ![p] = [l EXCEPT
                   !.at = IF rec[r] = "running" THEN "check" ELSE "read",
                   !.todo = @ \ {r},
                   !.stale = IF rec[r] = "running" THEN {r} ELSE {},
                   !.done = IF rec[r] \in Finished THEN @ \cup {r} ELSE @]]
    BY <1>2 DEF list_read, PsStep
  <2> DEFINE new == [l EXCEPT
                       !.at = IF rec[r] = "running" THEN "check" ELSE "read",
                       !.todo = @ \ {r},
                       !.stale = IF rec[r] = "running" THEN {r} ELSE {},
                       !.done = IF rec[r] \in Finished THEN @ \cup {r} ELSE @]
  <2>2. r \in Run /\ stage[r] \notin Unrecorded
    BY <1>0 DEF PsState, Sound
  <2>3. /\ new \in PsState
        /\ new.todo = l.todo \ {r}
        /\ new.at = "check" => new.stale = {r}
        /\ new.at \in {"check", "read"}
        /\ new.stale \subseteq {r}
        /\ new.done = l.done \/ (new.done = l.done \cup {r} /\ rec[r] \in Finished)
    BY <1>0, <2>2 DEF PsState
  <2>4. rec[r] \in Finished => ~guard[r]
    BY <2>2 DEF LiveRecordKept, Finished
  <2>5. Sound(new)
    BY <1>0, <2>2, <2>3, <2>4 DEF Sound
  <2>6. QED
    BY <2>1, <2>3, <2>5
<1>3. CASE list_check(p)
  <2>1. PICK r \in Run : l.stale = {r}
    BY <1>0, <1>3 DEF list_check, Sound
  <2>2. ps' = [ps EXCEPT ![p] =
                  [l EXCEPT !.at = IF pid_alive(pid[r]) THEN "read" ELSE "write"]]
    BY <1>3, <2>1 DEF list_check, PsStep
  <2> DEFINE new == [l EXCEPT !.at = IF pid_alive(pid[r]) THEN "read" ELSE "write"]
  <2>3. /\ new \in PsState
        /\ new.todo = l.todo /\ new.stale = {r} /\ new.done = l.done
        /\ new.at = "read" \/ (new.at = "write" /\ ~pid_alive(pid[r]))
    BY <1>0, <2>1 DEF PsState
  <2>4. stage[r] \notin Unrecorded
    BY <1>0, <2>1 DEF Sound
  <2>5. ~pid_alive(pid[r]) => stage[r] \in {"over", "killed"}
    BY <2>4 DEF pid_alive, Alive, Unrecorded
  <2>6. Sound(new)
    BY <1>0, <2>1, <2>3, <2>4, <2>5 DEF Sound
  <2>7. QED
    BY <2>2, <2>3, <2>6
<1>4. CASE list_write(p)
  <2> DEFINE new == [l EXCEPT !.at = "read", !.done = @ \cup l.stale]
  <2>1. /\ new \in PsState
        /\ new.at = "read" /\ new.todo = l.todo /\ new.stale = l.stale
        /\ new.done = l.done \cup l.stale
    BY <1>0 DEF PsState
  <2>2. \A r \in l.stale : ~guard[r]
    BY <1>0, <1>4 DEF list_write, Sound, PsState, RecordInv, Driving
  <2>3. Sound(new)
    BY <1>0, <2>1, <2>2 DEF Sound
  <2>4. QED
    BY <1>4, <2>1, <2>3 DEF list_write, PsStep
<1>5. CASE run_ps(p)
  <2>1. PICK keep \in SUBSET l.done, prune \in BOOLEAN :
          ps' = [ps EXCEPT ![p] = [l EXCEPT !.at = IF prune THEN "prune" ELSE "idle",
                                            !.stale = {},
                                            !.done = IF prune THEN keep ELSE {}]]
    BY <1>5 DEF run_ps, PsStep
  <2> DEFINE new == [l EXCEPT !.at = IF prune THEN "prune" ELSE "idle",
                              !.stale = {},
                              !.done = IF prune THEN keep ELSE {}]
  <2>2. /\ new \in PsState
        /\ new.at \in {"prune", "idle"} /\ new.todo = l.todo /\ new.stale = {}
        /\ new.done \subseteq l.done
    BY <1>0 DEF PsState
  <2>3. Sound(new)
    BY <1>0, <2>2 DEF Sound
  <2>4. QED
    BY <2>1, <2>2, <2>3
<1>6. CASE do_prune(p)
  <2>1. CASE PsStep(p, [l EXCEPT !.at = "idle"])
    <3> DEFINE new == [l EXCEPT !.at = "idle"]
    <3>1. /\ new \in PsState
          /\ new.at = "idle" /\ new.todo = l.todo /\ new.stale = l.stale /\ new.done = l.done
      BY <1>0 DEF PsState
    <3>2. Sound(new)
      BY <1>0, <3>1 DEF Sound
    <3>3. QED
      BY <2>1, <3>1, <3>2 DEF PsStep
  <2>2. CASE \E r \in l.done : PsStep(p, [l EXCEPT !.done = @ \ {r}])
    <3>1. PICK r \in l.done : ps' = [ps EXCEPT ![p] = [l EXCEPT !.done = @ \ {r}]]
      BY <2>2 DEF PsStep
    <3> DEFINE new == [l EXCEPT !.done = @ \ {r}]
    <3>2. /\ new \in PsState
          /\ new.at = "prune" /\ new.todo = l.todo /\ new.stale = l.stale
          /\ new.done \subseteq l.done
      BY <1>0, <1>6 DEF do_prune, PsState
    <3>3. Sound(new)
      BY <1>0, <3>2 DEF Sound
    <3>4. QED
      BY <3>1, <3>2, <3>3
  <2>3. QED
    BY <1>6, <2>1, <2>2 DEF do_prune
<1>7. QED
  BY <1>1, <1>2, <1>3, <1>4, <1>5, <1>6 DEF PsAct

(* Types.                                                                  *)
LEMMA RunTypeKept ==
    ASSUME RunTypeOK, NEW r \in Run, RunAct(r)
    PROVE  RunTypeOK'
<1> USE DEF RunTypeOK, RunPoints, Up, Finished
<1>1. CASE run_run(r)
  BY <1>1, PathType DEF run_run, files, vm, RunTo
<1>2. CASE run_bootable(r)
  BY <1>2 DEF run_bootable, vm, RunTo
<1>3. CASE CompileFails(r)
  BY <1>3 DEF CompileFails, files, vm, RunTo
<1>4. CASE setup_vmnet(r)
  <2>1. NeedsNet(r) \in BOOLEAN
    BY DEF NeedsNet
  <2>2. net' \in [Run -> BOOLEAN]
    BY <1>4, <2>1 DEF setup_vmnet
  <2>3. QED
    BY <1>4, <2>2 DEF setup_vmnet, vm, RunTo
<1>5. CASE VmnetFails(r)
  BY <1>5 DEF VmnetFails, files, vm, RunTo
<1>6. CASE start(r)
  <2>1. PICK l \in {"create", "engine"} : stage' = [stage EXCEPT ![r] = l]
    BY <1>6 DEF start, RunTo
  <2>2. rec' \in [Run -> Finished \cup {"none", "running"}] /\ guard' \in [Run -> BOOLEAN]
    BY <1>6 DEF start
  <2>3. QED
    BY <1>6, <2>1, <2>2 DEF start, vm
<1>7. CASE spawn_qemu(r)
  BY <1>7 DEF spawn_qemu, files, RunTo
<1>8. CASE spawn_cloud_hypervisor(r)
  BY <1>8 DEF spawn_cloud_hypervisor, files, RunTo
<1>9. CASE SpawnFails(r)
  BY <1>9 DEF SpawnFails, Unwind, files, RunTo, kill_on_drop
<1>10. CASE build_vm_config(r)
  BY <1>10 DEF build_vm_config, files, vm, RunTo
<1>11. CASE open_qmp(r)
  BY <1>11 DEF open_qmp, files, vm, RunTo
<1>12. CASE boot_vm(r)
  BY <1>12 DEF boot_vm, files, vm, RunTo
<1>13. CASE boot(r)
  BY <1>13 DEF boot, files, RunTo
<1>14. CASE ControlFails(r)
  BY <1>14 DEF ControlFails, Unwind, files, RunTo, kill_on_drop
<1>15. CASE waited(r)
  BY <1>15 DEF waited, Unwind, files, RunTo, kill_on_drop
<1>16. CASE shutdown(r)
  BY <1>16 DEF shutdown, Unwind, files, RunTo, kill_on_drop
<1>17. CASE run_image(r)
  BY <1>17 DEF run_image, Unwind, files, RunTo, kill_on_drop
<1>18. CASE finalize(r)
  BY <1>18 DEF finalize, vm, RunTo
<1>19. CASE leave(r)
  BY <1>19 DEF leave, vm, RunTo
<1>20. CASE interrupt(r)
  BY <1>20 DEF interrupt, files, RunTo, kill_on_drop
<1>21. CASE KillRun(r)
  BY <1>21 DEF KillRun, Alive, files, RunTo
<1>22. CASE Listens(r)
  BY <1>22 DEF Listens, VmmStep, files
<1>23. CASE GuestStarts(r)
  BY <1>23 DEF GuestStarts, VmmStep, files
<1>24. CASE GuestHalts(r)
  BY <1>24 DEF GuestHalts, VmmStep, files
<1>25. CASE VmmEnds(r)
  BY <1>25 DEF VmmEnds, VmmStep, files
<1>26. CASE wait_for_daemon(r)
  BY <1>26 DEF wait_for_daemon, files, vm, RunTo
<1>27. CASE Wedges(r)
  BY <1>27 DEF Wedges, VmmStep, files
<1>28. QED
  BY <1>1, <1>2, <1>3, <1>4, <1>5, <1>6, <1>7, <1>8, <1>9, <1>10, <1>11, <1>12, <1>13,
     <1>14, <1>15, <1>16, <1>17, <1>18, <1>19, <1>20, <1>21, <1>22, <1>23, <1>24,
     <1>25, <1>26, <1>27
  DEF RunAct, Umf, Host

(* The steps of a listing, likewise.                                       *)
LEMMA PsTypeKept ==
    ASSUME RunTypeOK, LiveRecordKept, RecordInv, NEW p \in Ps, PsAct(p)
    PROVE  RunTypeOK'
<1> USE DEF RunTypeOK, RunPoints, Up, Finished
<1>1. ps' \in [Ps -> PsState]
  <2>1. PICK new \in PsState : ps' = [ps EXCEPT ![p] = new]
    BY ListingSound
  <2>2. QED
    BY <2>1 DEF PsState
<1>2. rec' \in [Run -> Finished \cup {"none", "running"}]
  <2>1. CASE list_write(p)
    BY <2>1 DEF list_write
  <2>2. CASE do_prune(p)
    <3>1. CASE UNCHANGED rec
      BY <3>1
    <3>2. CASE \E s \in ps[p].done : rec' = [rec EXCEPT ![s] = "none"]
      BY <3>2
    <3>3. QED
      BY <2>2, <3>1, <3>2 DEF do_prune
  <2>3. QED
    BY <2>1, <2>2 DEF PsAct, list, list_read, list_check, run_ps, files
<1>3. UNCHANGED <<stage, pid, cached, net, vmm, child, scratch, guard, res>>
  BY
  DEF PsAct, list, list_read, list_check, list_write, run_ps,
      do_prune, vm, files
<1>4. QED
  BY <1>1, <1>2, <1>3 DEF PsState

(* A VMM lives inside the life of its handle and of its network: every way *)
(* out of run_vm goes through Unwind, and the network is dropped after it. *)
LEMMA LifeKept ==
    ASSUME RunTypeOK, LifeInv, NetSpansVm, NEW r \in Run, RunAct(r)
    PROVE  LifeInv' /\ NetSpansVm'
<1> USE DEF RunTypeOK, LifeInv, NetSpansVm, Driving, Up, Finished,
           NeedsNet, Backend,
            OnVm
<1>1. CASE run_run(r)
  BY <1>1, PathType DEF run_run, files, vm, RunTo
<1>2. CASE run_bootable(r)
  BY <1>2 DEF run_bootable, vm, RunTo
<1>3. CASE CompileFails(r)
  BY <1>3 DEF CompileFails, files, vm, RunTo
<1>4. CASE setup_vmnet(r)
  <2>1. net'[r] <=> NeedsNet(r)
    BY <1>4 DEF setup_vmnet
  <2>2. \A s \in Run \ {r} : net'[s] = net[s]
    BY <1>4 DEF setup_vmnet
  <2>3. QED
    BY <1>4, <2>1, <2>2 DEF setup_vmnet, vm, RunTo
<1>5. CASE VmnetFails(r)
  BY <1>5 DEF VmnetFails, files, vm, RunTo
<1>6. CASE start(r)
  BY <1>6 DEF start, vm, RunTo
<1>7. CASE spawn_qemu(r)
  BY <1>7 DEF spawn_qemu, files, RunTo
<1>8. CASE spawn_cloud_hypervisor(r)
  BY <1>8 DEF spawn_cloud_hypervisor, files, RunTo
<1>9. CASE SpawnFails(r)
  BY <1>9 DEF SpawnFails, Unwind, files, RunTo, kill_on_drop
<1>10. CASE build_vm_config(r)
  BY <1>10 DEF build_vm_config, files, vm, RunTo
<1>11. CASE open_qmp(r)
  BY <1>11 DEF open_qmp, files, vm, RunTo
<1>12. CASE boot_vm(r)
  BY <1>12 DEF boot_vm, files, vm, RunTo
<1>13. CASE boot(r)
  BY <1>13 DEF boot, files, RunTo
<1>14. CASE ControlFails(r)
  BY <1>14 DEF ControlFails, Unwind, files, RunTo, kill_on_drop
<1>15. CASE waited(r)
  BY <1>15 DEF waited, Unwind, files, RunTo, kill_on_drop
<1>16. CASE shutdown(r)
  BY <1>16 DEF shutdown, Unwind, files, RunTo, kill_on_drop
<1>17. CASE run_image(r)
  BY <1>17 DEF run_image, Unwind, files, RunTo, kill_on_drop
<1>18. CASE finalize(r)
  BY <1>18 DEF finalize, vm, RunTo
<1>19. CASE leave(r)
  BY <1>19 DEF leave, vm, RunTo
<1>20. CASE interrupt(r)
  BY <1>20 DEF interrupt, files, RunTo, kill_on_drop
<1>21. CASE KillRun(r)
  BY <1>21 DEF KillRun, Alive, files, RunTo
<1>22. CASE Listens(r)
  BY <1>22 DEF Listens, VmmStep, files
<1>23. CASE GuestStarts(r)
  BY <1>23 DEF GuestStarts, VmmStep, files
<1>24. CASE GuestHalts(r)
  BY <1>24 DEF GuestHalts, VmmStep, files
<1>25. CASE VmmEnds(r)
  BY <1>25 DEF VmmEnds, VmmStep, files
<1>26. CASE wait_for_daemon(r)
  BY <1>26 DEF wait_for_daemon, files, vm, RunTo
<1>27. CASE Wedges(r)
  BY <1>27 DEF Wedges, VmmStep, files
<1>28. QED
  BY <1>1, <1>2, <1>3, <1>4, <1>5, <1>6, <1>7, <1>8, <1>9, <1>10, <1>11, <1>12, <1>13,
     <1>14, <1>15, <1>16, <1>17, <1>18, <1>19, <1>20, <1>21, <1>22, <1>23, <1>24,
     <1>25, <1>26, <1>27
  DEF RunAct, Umf, Host

(* A listing has nothing to do with the VMMs.                              *)
LEMMA PsLifeKept ==
    ASSUME RunTypeOK, LifeInv, NetSpansVm, NEW p \in Ps, PsAct(p)
    PROVE  LifeInv' /\ NetSpansVm'
<1> USE DEF RunTypeOK, LifeInv, NetSpansVm, Driving, Up, Finished,
           NeedsNet, Backend,
            OnVm
<1>1. UNCHANGED <<req, stage, vmm, child, scratch, net>>
  BY
  DEF PsAct, list, list_read, list_check, list_write, run_ps,
      do_prune, vm, files
<1>2. QED
  BY <1>1

(* A running record is written back or pruned only when nobody will        *)
(* finalize it: a listing finds a process dead, or a record finished, only *)
(* after its guard has let go of it, and a run starts once.                *)
LEMMA RecordsKept ==
    ASSUME RunTypeOK, LifeInv, LiveRecordKept, RecordInv, NEW r \in Run, RunAct(r)
    PROVE  RecordInv' /\ LiveRecordKept'
<1> USE DEF RunTypeOK, RecordInv, LiveRecordKept, Unrecorded, Driving,
           Finished, RunPoints
<1>1. CASE run_run(r)
  BY <1>1, PathType DEF run_run, files, vm, RunTo
<1>2. CASE run_bootable(r)
  BY <1>2 DEF run_bootable, vm, RunTo
<1>3. CASE CompileFails(r)
  BY <1>3 DEF CompileFails, files, vm, RunTo
<1>4. CASE setup_vmnet(r)
  BY <1>4 DEF setup_vmnet, vm, RunTo
<1>5. CASE VmnetFails(r)
  BY <1>5 DEF VmnetFails, files, vm, RunTo
<1>6. CASE start(r)
  BY <1>6 DEF start, vm, RunTo
<1>7. CASE spawn_qemu(r)
  BY <1>7 DEF spawn_qemu, files, RunTo
<1>8. CASE spawn_cloud_hypervisor(r)
  BY <1>8 DEF spawn_cloud_hypervisor, files, RunTo
<1>9. CASE SpawnFails(r)
  BY <1>9 DEF SpawnFails, Unwind, files, RunTo, kill_on_drop
<1>10. CASE build_vm_config(r)
  BY <1>10 DEF build_vm_config, files, vm, RunTo
<1>11. CASE open_qmp(r)
  BY <1>11 DEF open_qmp, files, vm, RunTo
<1>12. CASE boot_vm(r)
  BY <1>12 DEF boot_vm, files, vm, RunTo
<1>13. CASE boot(r)
  BY <1>13 DEF boot, files, RunTo
<1>14. CASE ControlFails(r)
  BY <1>14 DEF ControlFails, Unwind, files, RunTo, kill_on_drop
<1>15. CASE waited(r)
  BY <1>15 DEF waited, Unwind, files, RunTo, kill_on_drop
<1>16. CASE shutdown(r)
  BY <1>16 DEF shutdown, Unwind, files, RunTo, kill_on_drop
<1>17. CASE run_image(r)
  BY <1>17 DEF run_image, Unwind, files, RunTo, kill_on_drop
<1>18. CASE finalize(r)
  BY <1>18 DEF finalize, vm, RunTo
<1>19. CASE leave(r)
  BY <1>19 DEF leave, vm, RunTo
<1>20. CASE interrupt(r)
  BY <1>20 DEF interrupt, files, RunTo, kill_on_drop
<1>21. CASE KillRun(r)
  BY <1>21 DEF KillRun, Alive, files, RunTo
<1>22. CASE Listens(r)
  BY <1>22 DEF Listens, VmmStep, files
<1>23. CASE GuestStarts(r)
  BY <1>23 DEF GuestStarts, VmmStep, files
<1>24. CASE GuestHalts(r)
  BY <1>24 DEF GuestHalts, VmmStep, files
<1>25. CASE VmmEnds(r)
  BY <1>25 DEF VmmEnds, VmmStep, files
<1>26. CASE wait_for_daemon(r)
  BY <1>26 DEF wait_for_daemon, files, vm, RunTo
<1>27. CASE Wedges(r)
  BY <1>27 DEF Wedges, VmmStep, files
<1>28. QED
  BY <1>1, <1>2, <1>3, <1>4, <1>5, <1>6, <1>7, <1>8, <1>9, <1>10, <1>11, <1>12, <1>13,
     <1>14, <1>15, <1>16, <1>17, <1>18, <1>19, <1>20, <1>21, <1>22, <1>23, <1>24,
     <1>25, <1>26, <1>27
  DEF RunAct, Umf, Host

(* The listing itself: what it writes and removes is of runs that are      *)
(* done.                                                                   *)
LEMMA PsRecordsKept ==
    ASSUME RunTypeOK, LifeInv, LiveRecordKept, RecordInv, NEW p \in Ps, PsAct(p)
    PROVE  RecordInv' /\ LiveRecordKept'
<1> USE DEF RunTypeOK, RecordInv, LiveRecordKept, Unrecorded, Driving,
           Finished, RunPoints
<1>1. UNCHANGED <<stage, guard>>
  BY
  DEF PsAct, list, list_read, list_check, list_write, run_ps,
      do_prune, vm, files
<1>2. PICK new \in PsState : ps' = [ps EXCEPT ![p] = new] /\ Sound(new)
  BY ListingSound
<1>3. \A r \in Run :
        \/ rec'[r] = rec[r]
        \/ ~guard[r] /\ rec'[r] = "none"
        \/ ~guard[r] /\ rec'[r] = "failed" /\ stage[r] \in {"over", "killed"}
  <2>1. CASE list_write(p)
    BY <2>1 DEF list_write
  <2>2. CASE do_prune(p)
    <3>1. CASE UNCHANGED rec
      BY <3>1
    <3>2. CASE \E s \in ps[p].done : rec' = [rec EXCEPT ![s] = "none"]
      BY <3>2
    <3>3. QED
      BY <2>2, <3>1, <3>2 DEF do_prune
  <2>3. QED
    BY <2>1, <2>2 DEF PsAct, list, list_read, list_check, run_ps, files
<1>4. \A q \in Ps : ps'[q] = ps[q] \/ ps'[q] = new
  BY <1>2
<1>5. \A q \in Ps : Sound(ps'[q])
  <2>1. \A q \in Ps : Sound(ps[q])
    BY DEF Sound
  <2>2. QED
    BY <1>2, <1>4, <2>1
<1>6. QED
  BY <1>1, <1>3, <1>5 DEF Sound

(* Initially no run has a process, a network or a record.                  *)
LEMMA VmInit == RunInit => VmInv
<1> SUFFICES ASSUME RunInit PROVE VmInv
  OBVIOUS
<1> USE DEF RunInit
<1>1. RunTypeOK
  BY RunAssumption DEF RunTypeOK, RunPoints
<1>2. LifeInv /\ NetSpansVm
  BY DEF LifeInv, NetSpansVm, Driving, Up
<1>3. RecordInv /\ LiveRecordKept /\ FinishedMeansGone
  BY DEF RecordInv, LiveRecordKept, FinishedMeansGone, Finished
<1>4. QED
  BY <1>1, <1>2, <1>3 DEF VmInv

(* A record is finished by the end of its run or after it, when the VMM is *)
(* gone.                                                                   *)
LEMMA Finishes == LifeInv /\ RecordInv => FinishedMeansGone
BY DEF LifeInv, RecordInv, FinishedMeansGone, Driving

(* Every step keeps the invariant.                                         *)
LEMMA VmStep == VmInv /\ [RunNext]_runVars => VmInv'
<1> SUFFICES ASSUME VmInv, [RunNext]_runVars PROVE VmInv'
  OBVIOUS
<1>0. RunTypeOK /\ LifeInv /\ NetSpansVm /\ RecordInv /\ LiveRecordKept
  BY DEF VmInv
<1> SUFFICES /\ RunTypeOK' /\ LifeInv' /\ NetSpansVm'
             /\ RecordInv' /\ LiveRecordKept'
  <2>1. (LifeInv /\ RecordInv => FinishedMeansGone)'
    BY Finishes, PTL
  <2>2. QED
    BY <2>1 DEF VmInv
<1>1. ASSUME NEW r \in Run, RunAct(r)
      PROVE  /\ RunTypeOK' /\ LifeInv' /\ NetSpansVm'
             /\ RecordInv' /\ LiveRecordKept'
  BY <1>0, <1>1, RunTypeKept, LifeKept, RecordsKept
<1>2. ASSUME NEW p \in Ps, PsAct(p)
      PROVE  /\ RunTypeOK' /\ LifeInv' /\ NetSpansVm'
             /\ RecordInv' /\ LiveRecordKept'
  BY <1>0, <1>2, PsTypeKept, PsLifeKept, PsRecordsKept
<1>3. CASE UNCHANGED runVars
  <2>1. RunTypeOK'
    BY <1>0, <1>3 DEF runVars, RunTypeOK
  <2>2. LifeInv' /\ NetSpansVm'
    BY <1>0, <1>3
    DEF runVars, LifeInv, NetSpansVm, NeedsNet, Backend, OnVm
  <2>3. RecordInv' /\ LiveRecordKept'
    BY <1>0, <1>3 DEF runVars, RecordInv, LiveRecordKept
  <2>4. QED
    BY <2>1, <2>2, <2>3
<1>4. QED
  BY <1>1, <1>2, <1>3 DEF RunNext, RunAct, PsAct

(* umf run and umf ps: a VMM never outlives its handle, its network or its *)
(* running record, and no listing or prune touches the record of a run     *)
(* that is on its way, whichever process ids are given again.              *)
THEOREM VmRunSafe == RunSpec => []VmInv
BY VmInit, VmStep, PTL DEF RunSpec
==============================================================================
