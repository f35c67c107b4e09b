------------------------------ MODULE MCHostNet ------------------------------
(* Two containers whose walks start on the same taken block, and a VM.     *)
EXTENDS HostNet, TLC

CONSTANTS c1, c2, v1

MCPid == (c1 :> 4) @@ (c2 :> 6) @@ (v1 :> 7)
==============================================================================
