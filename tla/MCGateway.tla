------------------------------ MODULE MCGateway ------------------------------
(* Connections a and b dial one port, b where the policy denies it; c dials *)
(* another.  Both queries go to one port, r's to a denied resolver.        *)
EXTENDS Gateway

Ports == [x \in Conn \cup Dgram |-> CASE x \in {"a", "b"} -> 80 [] x = "c" -> 443 [] OTHER -> 53]
Sizes == [x \in Conn |-> IF x = "a" THEN 2 ELSE 0]
(* The loop that pull stands for, one read after the other.                *)
readLoop[h \in 0..6, room \in 0..6] ==
    IF h = 0 \/ room = 0 THEN [left |-> h, in |-> 0, lost |-> 0]
    ELSE LET n == Least(h, SPLICE_CHUNK)
             s == Least(n, room)
         IN  IF s < n THEN [left |-> h - n, in |-> s, lost |-> n - s]
             ELSE LET r == readLoop[h - n, room - s] IN [r EXCEPT !.in = @ + s]
ASSUME \A h, room \in 0..6 : pull(h, room) = readLoop[h, room]

Steps == {{"a", "b"}, {"a", "c"}, {"q", "r"}}
==============================================================================
