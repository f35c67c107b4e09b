--------------------------- MODULE MCRegistryPush ---------------------------
(* An index over two images that share their config, one of them with a    *)
(* layer and a name of its own; one reference.                             *)
EXTENDS RegistryPush, TLC

CONSTANTS p1, p2, t, x, m1, m2, c, l

MCParts == (x :> <<m1, m2>>) @@ (m1 :> <<c, l>>) @@ (m2 :> <<c>>)
=============================================================================
