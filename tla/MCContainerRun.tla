--------------------------- MODULE MCContainerRun ---------------------------
(***************************************************************************)
(* Instances of ContainerRun: runs and two-stage builds of root, of the    *)
(* root of a namespace and of users with and without a grant.              *)
(***************************************************************************)
EXTENDS ContainerRun

Host == [helpers |-> TRUE, subuid |-> <<"other", "user">>, subgid |-> <<"user">>,
         mode |-> "native", cache |-> "auto", overlay |-> "auto", arch |-> "amd64",
         apparmor |-> "umf-default", loaded |-> {"umf-default"},
         enforcing |-> TRUE, label |-> TRUE, uidmap |-> TRUE, stderr |-> "short"]

Run  == [cmd |-> "run", keep |-> FALSE, entrypoint |-> <<>>, args |-> <<>>,
         image |-> [entrypoint |-> <<>>, cmd |-> <<"c">>],
         stages |-> <<<<>>>>, supplied |-> {}]

S(x) == [secrets |-> x, user |-> "none"]
Build == [Run EXCEPT !.cmd = "build", !.supplied = {"s", "t"},
                     !.stages = <<<<S({"s"}), S({"t"}), S({})>>, <<S({})>>>>]
Named == [Build EXCEPT !.stages = <<<<[secrets |-> {}, user |-> "name"]>>>>]
Unsupplied == [Build EXCEPT !.supplied = {"s"}]

Commands == {Run, [Run EXCEPT !.keep = TRUE], Build, Named, Unsupplied,
             [Run EXCEPT !.image = [entrypoint |-> <<>>, cmd |-> <<>>]],
             [Run EXCEPT !.entrypoint = <<"e">>], [Run EXCEPT !.args = <<"a">>]}

Hosts == {Host, [Host EXCEPT !.mode = "pasta", !.apparmor = "unconfined"],
          [Host EXCEPT !.mode = "none", !.cache = "unpack", !.arch = "arm64"],
          [Host EXCEPT !.overlay = "kernel", !.enforcing = FALSE],
          [Host EXCEPT !.overlay = "fuse", !.loaded = {}],
          [Host EXCEPT !.mode = "unknown"],
          [Host EXCEPT !.uidmap = FALSE, !.stderr = "long"], [Host EXCEPT !.stderr = "flood"],
          [Host EXCEPT !.subuid = <<"malformed", "user">>],
          [Host EXCEPT !.subuid = <<"root", "user">>, !.subgid = <<"user", "root">>]}

MCRequest == {[ident |-> i] @@ h @@ c : i \in {"root", "given", "user"},
                                        h \in Hosts, c \in Commands}

B(calls, args) == [calls |-> calls, args |-> args, caps |-> {}, not_caps |-> {},
                   arches |-> {}, not_arches |-> {}]
MCBlock == {B({"read"}, FALSE),
            [B({"mount", "clone"}, FALSE) EXCEPT !.caps = {"SYS_ADMIN"}],
            [B({"clone"}, TRUE) EXCEPT !.not_caps = {"SYS_ADMIN"}, !.not_arches = {"s390x"}],
            [B({"clone"}, TRUE) EXCEPT !.not_caps = {"SYS_ADMIN"}, !.arches = {"s390x"}],
            [B({"chroot"}, FALSE) EXCEPT !.caps = {"SYS_CHROOT"}],
            [B({"arch_prctl"}, FALSE) EXCEPT !.arches = {"amd64"}]}
============================================================================
