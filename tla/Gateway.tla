------------------------------ MODULE Gateway ------------------------------
(***************************************************************************)
(* The network of one rootless RUN step.  Its owner creates a network      *)
(* namespace, pins it, and starts one of three kinds of egress in it.  The *)
(* native kind is a thread that reads the container's frames off a tap,    *)
(* learns the ports they are for, terminates the connections in a user-    *)
(* space TCP/IP stack and re-originates each from a host socket.  The      *)
(* container, the servers and the owner all act while the thread works;    *)
(* connects and writes fail, servers close or say nothing, and the whole   *)
(* process may be killed.                                                  *)
(***************************************************************************)
EXTENDS Naturals, Sequences, FiniteSets

CONSTANTS
    Conn,        \* TCP connections that the container may open
    Dgram,       \* UDP datagrams that it may send
    PortOf,      \* the destination port of each
    Denied,      \* those whose destination the egress policy denies
    Modes,       \* the egress modes to consider
    Jobs,        \* what a step may send: sets of connections and datagrams
    LISTENERS_PER_PORT, MAX_LEARNED_PORTS, UDP_RELAY_SLOTS,
    SPLICE_CHUNK,  \* what one read of a host socket returns at most
    FLOW_BUF,      \* what the stack's send buffer of a flow holds
    MaxBytes,      \* what either end of each connection sends at most
    RX_BURST,      \* frames that one turn takes off the tap at most
    MaxFrames      \* frames in the tap

ASSUME GatewayAssumption ==
    /\ Conn \cap Dgram = {} /\ IsFiniteSet(Conn) /\ IsFiniteSet(Dgram)
    /\ DOMAIN PortOf = Conn \cup Dgram
    /\ Denied \subseteq Conn \cup Dgram /\ Modes \subseteq {"none", "pasta", "native"}
    /\ {LISTENERS_PER_PORT, MAX_LEARNED_PORTS, UDP_RELAY_SLOTS, SPLICE_CHUNK, FLOW_BUF,
        RX_BURST, MaxFrames} \subseteq Nat \ {0}
    /\ MaxBytes \in [Conn -> Nat] /\ Jobs \subseteq SUBSET (Conn \cup Dgram)

VARIABLES
    own,      \* where the owner of the network is
    mode,     \* its egress mode
    job,      \* what its step sends
    ns, pin, tap, pasta,   \* what exists: namespace, pin file, tap, pasta daemon
    left,     \* history: what the owner tried to remove and could not
    thr,      \* where the gateway thread is
    stop,     \* the stop channel: open or signalled
    fd, rx,   \* frames in the tap and in the device's queue
    learned, relays,       \* TCP ports with listeners, UDP ports with a relay
    free,     \* sockets in LISTEN by port
    pend,     \* connections that sit in the queue of listeners
    flows,    \* connections that have been promoted to flows
    todo,     \* flows that this turn has yet to service
    con,      \* everything else about a connection
    dg        \* where a datagram is

owner  == <<own, mode, job, ns, pin, pasta, left>>
device == <<fd, rx>>
tables == <<learned, relays, free, pend, flows>>
vars   == <<own, mode, job, ns, pin, pasta, left, tap, thr, stop, fd, rx, learned, relays, free,
            pend, flows, todo, con, dg>>

Port    == {PortOf[x] : x \in Conn \cup Dgram}
Least(a, b) == IF a < b THEN a ELSE b
(* cl: the container's end.  sock: the stack's socket.  srv: the host socket *)
(* and its server.  shut: the host socket's write side.  cut: a write to it *)
(* failed.                                                                 *)
Closed0 == [cl |-> "idle", sent |-> 0, seen |-> 0, sock |-> "none", rxb |-> 0, got |-> 0,
            srv |-> "none", hp |-> 0, out |-> 0, tx |-> 0, lost |-> 0, shut |-> FALSE,
            cut |-> FALSE]
Running == thr \notin {"off", "over"}
----------------------------------------------------------------------------
(* The owner: RootlessNet.                                                 *)

Init ==
    /\ own = "create" /\ mode \in Modes /\ job \in Jobs
    /\ ns = FALSE /\ pin = FALSE /\ tap = FALSE /\ pasta = FALSE /\ left = {}
    /\ thr = "off" /\ stop = FALSE /\ fd = <<>> /\ rx = <<>>
    /\ learned = {} /\ relays = {} /\ free = [p \in Port |-> 0]
    /\ pend = {} /\ flows = {} /\ todo = {}
    /\ con = [c \in Conn |-> Closed0] /\ dg = [d \in Dgram |-> "idle"]

inside == <<fd, rx, tables, todo, con, dg>>

(* The namespace is an open descriptor; it goes with it on any failure.    *)
create_netns(ok) ==
    /\ own = "create"
    /\ ns' = ok /\ own' = IF ok THEN "pin" ELSE "failed"
    /\ UNCHANGED <<mode, job, pin, tap, pasta, left, thr, stop, inside>>

bind_mount_netns(ok) ==
    /\ own = "pin"
    /\ pin' = ok /\ ns' = ok /\ own' = IF ok THEN "start" ELSE "failed"
    /\ UNCHANGED <<mode, job, tap, pasta, left, thr, stop, inside>>

(* Dropping the namespace's guard unmounts and removes the pin as far as   *)
(* the kernel lets it, errors being ignored; the descriptor closes.        *)
OwnedNetnsDropped ==
    /\ ns' = FALSE
    /\ \/ pin' = FALSE /\ left' = left
       \/ pin' = pin /\ left' = left \cup {"pin"}

setup_none ==
    /\ own = "start" /\ mode = "none" /\ own' = "up"
    /\ UNCHANGED <<mode, job, ns, pin, tap, pasta, left, thr, stop, inside>>

(* The daemon has detached by the time its pid file is read: if the file    *)
(* cannot be read, setup fails and the daemon stays.                       *)
setup_pasta(run, pid) ==
    /\ own = "start" /\ mode = "pasta" /\ pasta' = run
    /\ IF run /\ pid THEN own' = "up" /\ UNCHANGED <<ns, pin, left>>
                     ELSE own' = "failed" /\ OwnedNetnsDropped
    /\ UNCHANGED <<mode, job, tap, thr, stop, inside>>

(* The tap lives as long as its descriptor, which moves to the thread.     *)
setup_native(ok) ==
    /\ own = "start" /\ mode = "native"
    /\ IF ok THEN own' = "up" /\ tap' = TRUE /\ thr' = "begin" /\ UNCHANGED <<ns, pin, left>>
             ELSE own' = "failed" /\ OwnedNetnsDropped /\ UNCHANGED <<tap, thr>>
    /\ UNCHANGED <<mode, job, pasta, stop, inside>>

(* Fields drop in declaration order: the egress, then the namespace.  The  *)
(* daemon is sent a signal, and nobody looks whether it ends.              *)
drop_pasta ==
    /\ own = "up" /\ mode = "pasta" /\ own' = "release"
    /\ \/ pasta' = FALSE /\ left' = left
       \/ pasta' = pasta /\ left' = left \cup {"pasta"}
    /\ UNCHANGED <<mode, job, ns, pin, tap, thr, stop, inside>>
drop_native ==
    /\ own = "up" /\ mode = "native" /\ stop' = TRUE /\ own' = "join"
    /\ UNCHANGED <<mode, job, ns, pin, tap, pasta, left, thr, inside>>
join_nativeDetached ==
    /\ own = "join" /\ own' = "release"
    /\ UNCHANGED <<mode, job, ns, pin, tap, pasta, left, thr, stop, inside>>
join_native ==
    /\ own = "join" /\ thr = "over" /\ own' = "release"
    /\ UNCHANGED <<mode, job, ns, pin, tap, pasta, left, thr, stop, inside>>
drop_none ==
    /\ own = "up" /\ mode = "none" /\ own' = "release"
    /\ UNCHANGED <<mode, job, ns, pin, tap, pasta, left, thr, stop, inside>>
drop_netns ==
    /\ own = "release" /\ own' = "gone" /\ OwnedNetnsDropped
    /\ UNCHANGED <<mode, job, tap, pasta, thr, stop, inside>>

(* A killed process leaves its pin file and its pasta daemon behind.       *)
crash ==
    /\ own \notin {"gone", "failed", "killed"} /\ own' = "killed"
    /\ ns' = FALSE /\ tap' = FALSE
    /\ thr' = IF thr = "off" THEN "off" ELSE "over"
    /\ UNCHANGED <<mode, job, pin, pasta, left, stop, inside>>
----------------------------------------------------------------------------
(* The container and the servers.                                          *)

Frame(x, k)  == [of |-> x, kind |-> k]
Emit(x, k)   == tap /\ Len(fd) < MaxFrames /\ fd' = Append(fd, Frame(x, k))
OnlyCon(c, r) == con' = [con EXCEPT ![c] = r]
container == <<owner, tap, thr, stop, rx, tables, todo, dg>>

dial(c) ==
    /\ c \in job /\ con[c].cl = "idle" /\ Emit(c, "syn")
    /\ OnlyCon(c, [con[c] EXCEPT !.cl = "syn"]) /\ UNCHANGED container
(* The container's kernel answers the stack's SYN-ACK.                     *)
acknowledge(c) ==
    /\ con[c].cl = "synack" /\ Emit(c, "ack")
    /\ OnlyCon(c, [con[c] EXCEPT !.cl = "est"]) /\ UNCHANGED container
write(c) ==
    /\ con[c].cl = "est" /\ con[c].sent < MaxBytes[c] /\ Emit(c, "data")
    /\ OnlyCon(c, [con[c] EXCEPT !.sent = @ + 1]) /\ UNCHANGED container
finish(c) ==
    /\ con[c].cl = "est" /\ Emit(c, "fin")
    /\ OnlyCon(c, [con[c] EXCEPT !.cl = "fin"]) /\ UNCHANGED container
read(c) ==
    /\ con[c].cl \in {"est", "fin"} /\ con[c].tx > 0 /\ tap
    /\ OnlyCon(c, [con[c] EXCEPT !.tx = @ - 1])
    /\ UNCHANGED <<owner, tap, thr, stop, fd, rx, tables, todo, dg>>

(* The last acknowledgement of the stack's own FIN.                        *)
last_ack(c) ==
    /\ con[c].sock = "lastack" /\ con[c].tx = 0 /\ con[c].cl = "fin" /\ tap
    /\ OnlyCon(c, [con[c] EXCEPT !.sock = "closed"])
    /\ UNCHANGED <<owner, tap, thr, stop, fd, rx, tables, todo, dg>>

query(d) ==
    /\ d \in job /\ dg[d] = "idle" /\ Emit(d, "udp") /\ dg' = [dg EXCEPT ![d] = "sent"]
    /\ UNCHANGED <<owner, tap, thr, stop, rx, tables, todo, con>>

server == <<owner, tap, thr, stop, fd, rx, tables, todo>>
respond(c) ==
    /\ Running /\ con[c].srv = "open" /\ con[c].out < MaxBytes[c]
    /\ OnlyCon(c, [con[c] EXCEPT !.out = @ + 1, !.hp = @ + 1]) /\ UNCHANGED <<server, dg>>
hang_up(c) ==
    /\ Running /\ con[c].srv = "open"
    /\ OnlyCon(c, [con[c] EXCEPT !.srv = "eof"]) /\ UNCHANGED <<server, dg>>
answer(d) ==
    /\ Running /\ dg[d] = "flow" /\ dg' = [dg EXCEPT ![d] = "answered"] /\ UNCHANGED <<server, con>>
----------------------------------------------------------------------------
(* The thread: one turn is fill, learn, poll, service.                     *)

Turn(a, b) == thr = a /\ thr' = b
gateway == <<owner, stop>>

(* The interface may fail to come up; the thread then ends and its tap     *)
(* with it, and the container runs on without egress.                      *)
new_gateway(ok) ==
    /\ thr = "begin" /\ thr' = (IF ok THEN "fill" ELSE "over") /\ tap' = ok
    /\ UNCHANGED <<gateway, inside>>

(* What is left in the tap is for the next turn.                           *)
fill_rx ==
    LET n == Least(Len(fd), RX_BURST) IN
    /\ Turn("fill", "learn")
    /\ rx' = rx \o SubSeq(fd, 1, n) /\ fd' = SubSeq(fd, n + 1, Len(fd))
    /\ UNCHANGED <<gateway, tap, tables, todo, con, dg>>

(* The ports that the first n queued frames ask for: SYNs or datagrams.    *)
peek_l4_dst(kind, n) == {PortOf[rx[i].of] : i \in {j \in 1..n : rx[j].kind = kind}}

(* Ports are learned in order of arrival until the cap; none is forgotten. *)
LearnUpTo(known, kind) ==
    known \cup {PortOf[rx[i].of] : i \in {j \in DOMAIN rx :
        /\ rx[j].kind = kind
        /\ Cardinality(known \cup peek_l4_dst(kind, j - 1)) < MAX_LEARNED_PORTS}}

(* The connections that sit in the listeners of a port.                    *)
Pending(p) == {c \in pend : PortOf[c] = p}

replenishBlind(l) ==
    [p \in Port |-> IF p \in l THEN LISTENERS_PER_PORT ELSE free[p]]
replenish(l) ==
    [p \in Port |-> IF p \in l
        THEN LET have == free[p] + Cardinality(Pending(p))
             IN  IF have < LISTENERS_PER_PORT THEN free[p] + LISTENERS_PER_PORT - have ELSE free[p]
        ELSE free[p]]

learn_portsAfter ==
    /\ Turn("learn", "poll") /\ learned' = LearnUpTo(learned, "syn")
    /\ relays' = LearnUpTo(relays, "udp")
    /\ free' = replenish(learned)
    /\ UNCHANGED <<gateway, tap, fd, rx, pend, flows, todo, con, dg>>

learn_ports ==
    /\ Turn("learn", "poll")
    /\ learned' = LearnUpTo(learned, "syn")
    /\ relays' = LearnUpTo(relays, "udp")
    /\ free' = replenish(learned')
    /\ UNCHANGED <<gateway, tap, fd, rx, pend, flows, todo, con, dg>>

(* The stack, one queued frame after the other.  A SYN takes a listener or *)
(* is refused; a frame for a socket that is gone is answered by a reset.   *)
Received(r, k) ==
    CASE k = "ack" /\ r.sock = "synrcvd" -> [r EXCEPT !.sock = "est"]
      [] k = "data" /\ r.sock \in {"est", "finwait"} -> [r EXCEPT !.rxb = @ + 1, !.seen = @ + 1]
      [] k = "fin" /\ r.sock = "est" -> [r EXCEPT !.sock = "closewait"]
      [] k = "fin" /\ r.sock = "finwait" -> [r EXCEPT !.sock = "closed"]
      [] OTHER -> [r EXCEPT !.cl = "reset"]

InRelay(p) == {d \in Dgram : dg[d] = "relay" /\ PortOf[d] = p}
poll_frame ==
    /\ thr = "poll" /\ rx # <<>> /\ rx' = Tail(rx)
    /\ LET x == Head(rx).of
           k == Head(rx).kind
           p == PortOf[x]
       IN  CASE k = "syn" /\ free[p] > 0 ->
                  /\ OnlyCon(x, [con[x] EXCEPT !.sock = "synrcvd", !.cl = "synack"])
                  /\ free' = [free EXCEPT ![p] = @ - 1] /\ pend' = pend \cup {x} /\ UNCHANGED dg
             [] k = "syn" /\ free[p] = 0 ->
                  /\ OnlyCon(x, [con[x] EXCEPT !.cl = "refused"]) /\ UNCHANGED <<free, pend, dg>>
             [] k = "udp" ->
                  /\ dg' = [dg EXCEPT ![x] = IF p \in relays /\ Cardinality(InRelay(p)) < UDP_RELAY_SLOTS
                                             THEN "relay" ELSE "dropped"]
                  /\ UNCHANGED <<free, pend, con>>
             [] OTHER -> OnlyCon(x, Received(con[x], k)) /\ UNCHANGED <<free, pend, dg>>
    /\ UNCHANGED <<gateway, thr, tap, fd, learned, relays, flows, todo>>

poll_done ==
    /\ Turn("poll", "promote") /\ rx = <<>> /\ UNCHANGED <<gateway, tap, inside>>

(* A listener whose handshake is complete becomes a flow once the policy   *)
(* lets the destination pass and the host connects; otherwise its socket   *)
(* is removed.                                                             *)
Promotable == {c \in pend : con[c].sock = "est"}
check(x)   == x \notin Denied
open_host_tcpUnchecked(c, ok) == ok
open_host_tcp(c, ok) == check(c) /\ ok

promote(c, ok) ==
    /\ thr = "promote" /\ c \in Promotable
    /\ pend' = pend \ {c}
    /\ IF open_host_tcp(c, ok)
       THEN flows' = flows \cup {c} /\ OnlyCon(c, [con[c] EXCEPT !.srv = "open"])
       ELSE OnlyCon(c, [con[c] EXCEPT !.sock = "none"]) /\ UNCHANGED flows
    /\ UNCHANGED <<gateway, thr, tap, fd, rx, learned, relays, free, todo, dg>>

promote_done ==
    /\ Turn("promote", "splice") /\ Promotable = {} /\ todo' = flows
    /\ UNCHANGED <<gateway, tap, fd, rx, tables, con, dg>>

(* Container to host: everything buffered, or the flow ends: the host      *)
(* socket does not block, so a write of which it takes only a part fails.  *)
(* Host to container: chunk by chunk while the send buffer has room; what  *)
(* does not fit of a chunk is dropped.  Of h bytes that do not all fit,    *)
(* whole chunks go in until part is left of the room; if that is not       *)
(* nothing, one more chunk is read and cut.                                *)
pull(h, room) ==
    LET part == room % SPLICE_CHUNK
        cut  == IF part = 0 THEN 0 ELSE Least(h - (room - part), SPLICE_CHUNK)
    IN  IF h <= room THEN [left |-> 0, in |-> h, lost |-> 0]
        ELSE [left |-> h - (room - part) - cut, in |-> room, lost |-> cut - part]

HostToStackOverrun(r) == [r EXCEPT !.hp = 0, !.tx = @ + r.hp]
HostToStackNoClose(r) ==
    IF r.sock \notin {"est", "closewait"} THEN r
    ELSE LET m == pull(r.hp, FLOW_BUF - r.tx)
         IN  [r EXCEPT !.hp = m.left, !.tx = @ + m.in, !.lost = @ + m.lost]
HostToStack(r) ==
    IF r.sock \notin {"est", "closewait"} THEN r
    ELSE LET m == pull(r.hp, FLOW_BUF - r.tx)
             q == [r EXCEPT !.hp = m.left, !.tx = @ + m.in, !.lost = @ + m.lost]
         IN  IF m.left = 0 /\ q.tx < FLOW_BUF /\ r.srv = "eof"
             THEN [q EXCEPT !.sock = IF r.sock = "est" THEN "finwait" ELSE "lastack"]
             ELSE q

(* The container's end of stream is passed on once its bytes have been.    *)
may_recv(r) == r.sock \in {"est", "finwait"} \/ r.rxb > 0
HalfClose(r) == IF ~may_recv(r) THEN [r EXCEPT !.shut = TRUE] ELSE r
SplicedWhileOpen(r) ==
    IF r.sock = "closewait" THEN [HostToStack(r) EXCEPT !.shut = TRUE]
    ELSE HostToStack([r EXCEPT !.got = @ + r.rxb, !.rxb = 0])
Spliced(r) == HalfClose(HostToStack([r EXCEPT !.got = @ + r.rxb, !.rxb = 0]))

splice_tcp(c) ==
    /\ thr = "splice" /\ c \in todo /\ todo' = todo \ {c}
    /\ OnlyCon(c, Spliced(con[c]))
    /\ flows' = IF Spliced(con[c]).sock = "closed" THEN flows \ {c} ELSE flows
    /\ UNCHANGED <<gateway, thr, tap, fd, rx, learned, relays, free, pend, dg>>

(* A write fails, or takes only the first n bytes: the flow is removed and  *)
(* its host socket dropped, so that is all the server ever reads.          *)
splice_fails(c, n) ==
    /\ thr = "splice" /\ c \in todo /\ n < con[c].rxb
    /\ todo' = todo \ {c} /\ flows' = flows \ {c}
    /\ OnlyCon(c, [con[c] EXCEPT !.sock = "none", !.srv = "eof", !.got = @ + n, !.rxb = 0,
                                 !.cut = TRUE])
    /\ UNCHANGED <<gateway, thr, tap, fd, rx, learned, relays, free, pend, dg>>

splice_done ==
    /\ Turn("splice", "udp") /\ todo = {} /\ UNCHANGED <<gateway, tap, inside>>

(* One host socket for each datagram; it is given up with the first reply. *)
forward_udp(d, ok) ==
    /\ thr = "udp" /\ dg[d] = "relay"
    /\ dg' = [dg EXCEPT ![d] = IF check(d) /\ ok THEN "flow" ELSE "refused"]
    /\ UNCHANGED <<gateway, thr, tap, fd, rx, tables, todo, con>>

pump_udp ==
    /\ Turn("udp", "check") /\ {d \in Dgram : dg[d] = "relay"} = {}
    /\ dg' = [d \in Dgram |-> IF dg[d] = "answered" THEN "replied" ELSE dg[d]]
    /\ UNCHANGED <<gateway, tap, fd, rx, tables, todo, con>>

(* A signal, or the sender being gone, ends the loop; with the thread goes *)
(* the tap.  Otherwise the loop waits for a readable descriptor, fifty     *)
(* milliseconds at most.                                                   *)
doneNever == FALSE
done == stop
run_until ==
    /\ thr = "check"
    /\ IF done THEN thr' = "over" /\ tap' = FALSE ELSE thr' = "fill" /\ UNCHANGED tap
    /\ UNCHANGED <<gateway, inside>>
----------------------------------------------------------------------------
Owner ==
    \/ \E ok \in BOOLEAN : create_netns(ok) \/ bind_mount_netns(ok) \/ setup_native(ok)
    \/ \E run, pid \in BOOLEAN : setup_pasta(run, pid)
    \/ setup_none \/ drop_pasta \/ drop_native \/ drop_none \/ join_native \/ drop_netns

Container ==
    \/ \E c \in Conn : dial(c) \/ write(c)
    \/ \E d \in Dgram : query(d)
Kernel == \E c \in Conn : acknowledge(c) \/ finish(c) \/ read(c) \/ last_ack(c)

Server ==
    \/ \E c \in Conn : respond(c) \/ hang_up(c)
    \/ \E d \in Dgram : answer(d)

Thread ==
    \/ \E ok \in BOOLEAN : new_gateway(ok)
    \/ fill_rx \/ learn_ports \/ poll_frame \/ poll_done
    \/ \E c \in Conn, ok \in BOOLEAN : promote(c, ok)
    \/ promote_done
    \/ \E c \in Conn : splice_tcp(c) \/ \E n \in 0..MaxBytes[c] : splice_fails(c, n)
    \/ splice_done
    \/ \E d \in Dgram, ok \in BOOLEAN : forward_udp(d, ok)
    \/ pump_udp \/ run_until

Next == Owner \/ Container \/ Kernel \/ Server \/ Thread \/ crash

(* The thread runs on, and so does the owner once it has begun to set up or *)
(* to tear down; the container's kernel acknowledges.  No program has to   *)
(* read, no server to answer, and no RUN step to end.                      *)
Spec ==
    /\ Init /\ [][Next]_vars
    /\ WF_vars(Thread) /\ WF_vars(join_native \/ drop_netns)
    /\ \A c \in Conn : WF_vars(acknowledge(c)) /\ WF_vars(last_ack(c))
----------------------------------------------------------------------------
Frames == [of : Conn, kind : {"syn", "ack", "data", "fin"}] \cup [of : Dgram, kind : {"udp"}]
Connection ==
    [cl : {"idle", "syn", "synack", "est", "fin", "refused", "reset"},
     sock : {"none", "synrcvd", "est", "closewait", "finwait", "lastack", "closed"},
     srv : {"none", "open", "eof"}, tx : 0..FLOW_BUF, shut : BOOLEAN, cut : BOOLEAN,
     sent : Nat, seen : Nat, rxb : Nat, got : Nat, hp : Nat, out : Nat, lost : Nat]

TypeOK ==
    /\ own \in {"create", "pin", "start", "up", "join", "release", "gone", "failed", "killed"}
    /\ mode \in Modes /\ job \in Jobs /\ {ns, pin, tap, pasta, stop} \subseteq BOOLEAN
    /\ left \subseteq {"pin", "pasta"}
    /\ thr \in {"off", "begin", "fill", "learn", "poll", "promote", "splice", "udp", "check", "over"}
    /\ {fd, rx} \subseteq Seq(Frames) /\ Len(fd) <= MaxFrames
    /\ learned \cup relays \subseteq Port /\ free \in [Port -> 0..LISTENERS_PER_PORT]
    /\ pend \cup flows \cup todo \subseteq Conn
    /\ con \in [Conn -> Connection]
    /\ dg \in [Dgram -> {"idle", "sent", "relay", "dropped", "flow", "refused", "answered", "replied"}]

(* The policy decides on what leaves the host: no connection and no        *)
(* datagram to a destination it denies is ever re-originated, whichever    *)
(* listener or relay took it (gateway.rs open_host_tcp, forward_udp).      *)
Policed ==
    /\ \A c \in Denied \cap Conn : con[c].srv = "none" /\ c \notin flows /\ con[c].got = 0
    /\ \A d \in Denied \cap Dgram : dg[d] \notin {"flow", "answered", "replied"}

(* The server reads the end of the stream when its socket's write side is  *)
(* shut, or the socket is dropped with its flow.                           *)
Eof(c) == con[c].srv # "none" /\ (con[c].shut \/ c \notin flows)

(* The server reads the container's end of stream only after all that the  *)
(* container has written (splice_tcp: may_recv, then shutdown; service_tcp *)
(* reaps what is Closed), as long as the gateway is there and none of its  *)
(* writes to that server has failed: such a flow is dropped, and a stream  *)
(* that is cut short looks to the server like one that has ended.          *)
EofLast ==
    Running => \A c \in Conn : Eof(c) /\ ~con[c].cut =>
        con[c].cl \in {"fin", "reset"} /\ con[c].got = con[c].sent

(* A connection is refused only when its port could not be learned, or     *)
(* when as many connections as a port has listeners are ahead of it: the   *)
(* first dial to a port is never lost to the port being unknown            *)
(* (step: learn, then poll).                                               *)
RefusedOnlyWhenFull ==
    [][\A c \in Conn : con[c].cl # "refused" /\ con'[c].cl = "refused" =>
          LET p == PortOf[c]
          IN  \/ p \notin learned /\ Cardinality(learned) = MAX_LEARNED_PORTS
              \/ Cardinality(Pending(p)) = LISTENERS_PER_PORT]_vars

(* What a hostile or busy step can make the stack hold is bounded.         *)
Bounded ==
    /\ Cardinality(learned) <= MAX_LEARNED_PORTS /\ Cardinality(relays) <= MAX_LEARNED_PORTS
    /\ \A p \in Port : /\ free[p] + Cardinality(Pending(p)) <= LISTENERS_PER_PORT
                       /\ Cardinality(InRelay(p)) <= UDP_RELAY_SLOTS

(* The thread works in a namespace that exists, and an owner that is gone  *)
(* has left no thread or tap behind, nor a daemon or pin that could be     *)
(* removed (RootlessNet's field order, NativeEgress::drop).                *)
NetOutlivesGateway ==
    /\ Running => ns /\ pin
    /\ own \in {"gone", "failed"} => ~Running /\ ~tap /\ ~ns /\ (pin => "pin" \in left)
    /\ own = "gone" /\ pasta => "pasta" \in left

(* The egress of each mode by the point of its owner.                      *)
OwnerInv ==
    /\ own \in {"start", "up", "join", "release"} => ns /\ pin
    /\ own \in {"create", "pin"} => ~pin
    /\ own \in {"create", "pin", "start", "failed"} => thr = "off"
    /\ thr # "off" => mode = "native"
    /\ Running => own \in {"up", "join"}
    /\ tap => Running
    /\ pasta => mode = "pasta" /\ own \in {"up", "release", "gone", "failed", "killed"}
    /\ pasta /\ own \in {"release", "gone"} => "pasta" \in left
    /\ own = "join" => mode = "native"

(* Who is where in the tables; and, while frames are delivered, every port *)
(* that is learned has all its listeners free or taken, and a SYN to one   *)
(* that is not has met the cap.                                            *)
TableInv ==
    /\ pend \cap flows = {} /\ todo \subseteq flows
    /\ \A c \in pend  : con[c].sock # "none"
    /\ \A c \in flows : con[c].sock \notin {"none", "synrcvd"}
    /\ \A c \in Conn \ flows : con[c].srv = "none" \/ con[c].shut \/ con[c].cut
    /\ thr = "poll" =>
         /\ \A p \in learned : free[p] + Cardinality(Pending(p)) = LISTENERS_PER_PORT
         /\ \A i \in DOMAIN rx : rx[i].kind = "syn" =>
              PortOf[rx[i].of] \in learned \/ Cardinality(learned) = MAX_LEARNED_PORTS

(* A connection with record r among the frames w that are under way.  Its  *)
(* SYN is alone, and none has another kind of frame before it is answered. *)
Receiving == {"synrcvd", "est", "finwait"}
Ended     == {"closewait", "lastack", "closed"}
SynAlone(c, r, w) ==
    /\ r.cl \in {"idle", "synack"} => \A i \in DOMAIN w : w[i].of # c
    /\ \A i \in DOMAIN w : w[i].of = c => (r.cl = "syn" <=> w[i].kind = "syn")
    /\ \A i, j \in DOMAIN w : w[i] = Frame(c, "syn") /\ w[j].of = c => i = j

(* Until it is established, the acknowledgement comes first; then none is. *)
AckFirst(c, r, w) ==
    /\ r.sock = "synrcvd" /\ r.cl # "synack" =>
         \E i \in DOMAIN w :
             /\ w[i] = Frame(c, "ack")
             /\ \A j \in DOMAIN w : w[j].of = c => i = j \/ (i < j /\ w[j] # Frame(c, "ack"))
    /\ r.sock \in {"est", "finwait"} => \A i \in DOMAIN w : w[i] # Frame(c, "ack")

(* The FIN comes last, and nothing after it.                               *)
FinLast(c, r, w) ==
    /\ r.sock \in Receiving =>
         \A i, j \in DOMAIN w : w[i] = Frame(c, "fin") /\ w[j].of = c => r.cl = "fin" /\ j <= i
    /\ r.sock \in Ended => r.cl = "fin" /\ \A i \in DOMAIN w : w[i].of # c

(* What has been sent has been seen or is data under way; what has been    *)
(* seen is buffered or has been passed on; end of stream follows it all.   *)
DataOf(c, w) == {i \in DOMAIN w : w[i] = Frame(c, "data")}
Balanced(c, r, w) ==
    /\ r.cl \in {"idle", "syn"} =>
         r.sock = "none" /\ r.sent = 0 /\ r.seen = 0 /\ r.rxb = 0 /\ r.got = 0
    /\ r.cl = "synack" => r.sock = "synrcvd"
    /\ r.sock # "none" => r.cl \in {"synack", "est", "fin"} /\ r.got + r.rxb = r.seen
    /\ r.sock \in Receiving => r.sent = r.seen + Cardinality(DataOf(c, w))
    /\ r.sock \in Ended => r.sent = r.seen
    /\ r.shut => r.sock \in Ended /\ r.rxb = 0

StreamOK(c, r, w) ==
    SynAlone(c, r, w) /\ AckFirst(c, r, w) /\ FinLast(c, r, w) /\ Balanced(c, r, w)

(* Every stream is in order from the container's end to the stack's.       *)
StreamInv == \A c \in Conn : StreamOK(c, con[c], rx \o fd)

(* The state of the gateway: well typed, bounded, its streams in order, and *)
(* within the life of its network.                                         *)
GatewayInv ==
    /\ TypeOK /\ Bounded /\ EofLast /\ NetOutlivesGateway
    /\ OwnerInv /\ TableInv /\ StreamInv

(* Dropping the network returns, however the container and the servers     *)
(* behave meanwhile (run_until looks at the channel once a turn).          *)
TeardownEnds == own = "join" ~> own \in {"gone", "killed"}

(* A flow both of whose ends have closed is given up, unless the thread    *)
(* is over first (splice_tcp's Done), provided that the program goes on    *)
(* reading: with the send buffer full the host socket is not read, and     *)
(* nothing times a flow out.                                               *)
FlowsReaped ==
    \A c \in Conn : []<>(con[c].tx = 0) =>
        (c \in flows /\ con[c].cl = "fin" /\ con[c].srv = "eof" ~> c \notin flows \/ ~Running)
==============================================================================
