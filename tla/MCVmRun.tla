------------------------------- MODULE MCVmRun -------------------------------
(* A run with every kind of command line, a container run whose process id  *)
(* it may get or give, and a ps.                                           *)
EXTENDS VmRun, TLC

CONSTANTS r1, r2, p1

Image(kind) == [vmm |-> "none", disk |-> FALSE, firmware |-> FALSE,
                vmflag |-> FALSE, forward |-> FALSE, image |-> kind]
Disk(v)     == [Image("absent") EXCEPT !.vmm = v, !.disk = TRUE]

MCAsked ==
    (r1 :> {Image("absent"), Image("container"), Image("payload"), Image("bootable"),
            [Image("container") EXCEPT !.vmflag = TRUE],
            [Image("container") EXCEPT !.vmm = "qemu"],
            [Image("bootable") EXCEPT !.vmm = "xen"],
            [Image("bootable") EXCEPT !.vmm = "ch", !.forward = TRUE],
            Disk("none"), Disk("qemu")})
    @@ (r2 :> {Image("container")})
==============================================================================
