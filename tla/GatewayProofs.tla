--------------------------- MODULE GatewayProofs ---------------------------
(* The rootless gateway keeps its streams in order, its tables bounded and *)
(* its thread within its network, for any connections and datagrams, any   *)
(* policy and any limits.                                                  *)
EXTENDS Gateway, FiniteSetTheorems, SequenceTheorems, WellFoundedInduction, TLAPS

----------------------------------------------------------------------------
(* Frames under way.                                                       *)

(* A frame is of a connection or, if its kind is udp, of a datagram.       *)
LEMMA FrameFacts ==
    ASSUME NEW f \in Frames
    PROVE  /\ f.of \in Conn \cup Dgram
           /\ f.kind \in {"syn", "ack", "data", "fin", "udp"}
           /\ f = Frame(f.of, f.kind)
           /\ f.kind = "udp" <=> f.of \in Dgram
           /\ f.kind # "udp" <=> f.of \in Conn
BY GatewayAssumption DEF Frames, Frame

(* One more frame at the end of a queue, by its indices.                   *)
LEMMA AppendFacts ==
    ASSUME NEW w \in Seq(Frames), NEW f \in Frames
    PROVE  /\ Append(w, f) \in Seq(Frames) /\ Len(w) \in Nat
           /\ DOMAIN w = 1..Len(w) /\ DOMAIN Append(w, f) = 1..(Len(w) + 1)
           /\ \A i \in 1..Len(w) : Append(w, f)[i] = w[i] /\ w[i] \in Frames
           /\ Append(w, f)[Len(w) + 1] = f
BY AppendProperties, LenProperties, ElementOfSeq

(* The queue without its first frame, by its indices.                      *)
LEMMA TailFacts ==
    ASSUME NEW w \in Seq(Frames), w # <<>>
    PROVE  /\ Tail(w) \in Seq(Frames) /\ Len(w) \in Nat \ {0} /\ Head(w) = w[1]
           /\ DOMAIN w = 1..Len(w) /\ DOMAIN Tail(w) = 1..(Len(w) - 1)
           /\ \A i \in 1..(Len(w) - 1) : Tail(w)[i] = w[i + 1]
           /\ \A i \in 1..Len(w) : w[i] \in Frames
<1>1. Len(w) \in Nat \ {0}
  BY EmptySeq, LenProperties
<1>2. QED
  BY <1>1, HeadTailProperties, LenProperties, ElementOfSeq

(* The frames under way are one queue: the tap is emptied to its end, and  *)
(* the stack takes from its front.                                         *)
LEMMA WireFacts ==
    ASSUME NEW a \in Seq(Frames), NEW b \in Seq(Frames), NEW f \in Frames
    PROVE  /\ a \o b \in Seq(Frames)
           /\ a \o Append(b, f) = Append(a \o b, f)
           /\ (a \o b) \o <<>> = a \o b
           /\ a # <<>> => /\ Tail(a) \o b = Tail(a \o b) /\ a \o b # <<>>
                          /\ Head(a \o b) = Head(a)
OBVIOUS

(* What of a connection is under way: more by a frame of data, less by it. *)
LEMMA DataFinite ==
    ASSUME NEW c, NEW w \in Seq(Frames)
    PROVE  IsFiniteSet(DataOf(c, w)) /\ Cardinality(DataOf(c, w)) \in Nat
<1>1. DataOf(c, w) \in SUBSET (1..Len(w)) /\ Len(w) \in Nat
  BY LenProperties DEF DataOf
<1>2. IsFiniteSet(1..Len(w))
  BY <1>1, FS_Interval
<1>3. QED
  BY <1>1, <1>2, FS_Subset, FS_CardinalityType

(* A frame of data at the end adds one to what is under way.               *)
LEMMA DataAppend ==
    ASSUME NEW c, NEW w \in Seq(Frames), NEW f \in Frames
    PROVE  Cardinality(DataOf(c, Append(w, f))) =
             IF f = Frame(c, "data") THEN Cardinality(DataOf(c, w)) + 1
                                     ELSE Cardinality(DataOf(c, w))
<1>1. DataOf(c, Append(w, f)) =
        IF f = Frame(c, "data") THEN DataOf(c, w) \cup {Len(w) + 1} ELSE DataOf(c, w)
  BY AppendFacts DEF DataOf
<1>2. Len(w) + 1 \notin DataOf(c, w)
  BY AppendFacts DEF DataOf
<1>3. QED
  BY <1>1, <1>2, DataFinite, FS_AddElement

(* A frame of data taken from the front takes one from it.                 *)
LEMMA DataTail ==
    ASSUME NEW c, NEW w \in Seq(Frames), w # <<>>
    PROVE  Cardinality(DataOf(c, w)) =
             IF Head(w) = Frame(c, "data") THEN Cardinality(DataOf(c, Tail(w))) + 1
                                           ELSE Cardinality(DataOf(c, Tail(w)))
<1> DEFINE S == DataOf(c, w) \ {1}
           T == DataOf(c, Tail(w))
           g == [i \in T |-> i + 1]
<1>1. \A i : i \in T <=> i \in 1..(Len(w) - 1) /\ w[i + 1] = Frame(c, "data")
  BY TailFacts DEF DataOf
<1>2. \A i : i \in S <=> i \in 2..Len(w) /\ w[i] = Frame(c, "data")
  BY TailFacts DEF DataOf
<1>3. g \in Bijection(T, S)
  <2>1. Len(w) \in Nat
    BY TailFacts
  <2>2. \A i \in T : i \in Nat /\ g[i] = i + 1 /\ i + 1 \in S
    BY <1>1, <1>2, <2>1
  <2>3. \A j \in S : j - 1 \in T /\ g[j - 1] = j
    <3> SUFFICES ASSUME NEW j \in S PROVE j - 1 \in T /\ g[j - 1] = j
      OBVIOUS
    <3>1. j \in 2..Len(w) /\ w[j] = Frame(c, "data")
      BY <1>2
    <3>2. j - 1 \in 1..(Len(w) - 1) /\ (j - 1) + 1 = j
      BY <2>1, <3>1
    <3>3. j - 1 \in T
      BY <1>1, <3>1, <3>2
    <3>4. QED
      BY <3>2, <3>3
  <2>4. g \in [T -> S] /\ \A i, j \in T : g[i] = g[j] => i = j
    BY <2>2
  <2>5. QED
    BY <2>3, <2>4 DEF Bijection, Injection, Surjection, IsInjective
<1>4. Cardinality(S) = Cardinality(T) /\ IsFiniteSet(T)
  <2>1. IsFiniteSet(T)
    BY DataFinite, TailFacts
  <2>2. ExistsBijection(T, S)
    BY <1>3 DEF ExistsBijection
  <2>3. QED
    BY <2>1, <2>2, FS_Bijection
<1>5. 1 \in DataOf(c, w) <=> Head(w) = Frame(c, "data")
  BY TailFacts DEF DataOf
<1>6. Cardinality(S) = IF 1 \in DataOf(c, w) THEN Cardinality(DataOf(c, w)) - 1
                                             ELSE Cardinality(DataOf(c, w))
  BY DataFinite, FS_RemoveElement
<1>7. Cardinality(DataOf(c, w)) \in Nat /\ Cardinality(T) \in Nat
  BY DataFinite, TailFacts
<1>8. QED
  BY <1>4, <1>5, <1>6, <1>7
----------------------------------------------------------------------------
(* Streams.  A frame of another connection does not matter.                *)

(* Another's frame at the end of the queue leaves a stream in order,       *)
LEMMA OtherAppended ==
    ASSUME NEW c, NEW r, NEW w \in Seq(Frames), NEW f \in Frames, f.of # c, StreamOK(c, r, w)
    PROVE  StreamOK(c, r, Append(w, f))
<1>1. Cardinality(DataOf(c, Append(w, f))) = Cardinality(DataOf(c, w))
  BY DataAppend DEF Frame
<1>2. \A i \in DOMAIN Append(w, f) : \/ i \in DOMAIN w /\ Append(w, f)[i] = w[i]
                                     \/ Append(w, f)[i].of # c
  BY AppendFacts
<1>3. \A i \in DOMAIN w : i \in DOMAIN Append(w, f) /\ Append(w, f)[i] = w[i] /\ 1..i \subseteq DOMAIN w
  BY AppendFacts
<1>4. \A k : Frame(c, k).of = c
  BY DEF Frame
<1>a. SynAlone(c, r, Append(w, f))
  BY <1>1, <1>2, <1>3, <1>4 DEF StreamOK, SynAlone
<1>b. AckFirst(c, r, Append(w, f))
  BY <1>1, <1>2, <1>3, <1>4 DEF StreamOK, AckFirst
<1>c. FinLast(c, r, Append(w, f))
  BY <1>1, <1>2, <1>3, <1>4 DEF StreamOK, FinLast
<1>d. Balanced(c, r, Append(w, f))
  BY <1>1, <1>2, <1>3, <1>4 DEF StreamOK, Balanced
<1> QED
  BY <1>a, <1>b, <1>c, <1>d DEF StreamOK

(* ... and so does another's frame taken from its front.                   *)
LEMMA OtherTaken ==
    ASSUME NEW c, NEW r, NEW w \in Seq(Frames), w # <<>>, Head(w).of # c, StreamOK(c, r, w)
    PROVE  StreamOK(c, r, Tail(w))
<1> DEFINE n == Len(w)
           t == Tail(w)
<1>1. Cardinality(DataOf(c, t)) = Cardinality(DataOf(c, w))
  BY DataTail DEF Frame
<1>2. /\ n \in Nat /\ DOMAIN t = 1..(n - 1) /\ DOMAIN w = 1..n /\ w[1].of # c
      /\ \A i \in 1..(n - 1) : t[i] = w[i + 1] /\ i + 1 \in 1..n
  BY TailFacts
<1>3. \A i \in 1..n : w[i].of = c => i - 1 \in 1..(n - 1) /\ t[i - 1] = w[i]
  <2> SUFFICES ASSUME NEW i \in 1..n, w[i].of = c PROVE i - 1 \in 1..(n - 1) /\ t[i - 1] = w[i]
    OBVIOUS
  <2>1. i # 1
    BY <1>2
  <2>2. i - 1 \in 1..(n - 1) /\ (i - 1) + 1 = i
    BY <1>2, <2>1
  <2>3. QED
    BY <1>2, <2>2
<1>4. \A k : Frame(c, k).of = c
  BY DEF Frame
<1> HIDE DEF n, t
<1>8. \A i \in DOMAIN t : i \in Nat /\ i + 1 \in DOMAIN w /\ t[i] = w[i + 1]
  BY <1>2
<1>a. SynAlone(c, r, t)
  <2>1. SynAlone(c, r, w)
    BY DEF StreamOK
  <2>2. \A i, j \in DOMAIN t : t[i] = Frame(c, "syn") /\ t[j].of = c => i + 1 = j + 1
    BY <1>8, <2>1 DEF SynAlone
  <2>3. QED
    BY <1>8, <2>1, <2>2 DEF SynAlone
<1>b. AckFirst(c, r, t)
  <2>1. AckFirst(c, r, w)
    BY DEF StreamOK
  <2>2. ASSUME r.sock = "synrcvd", r.cl # "synack"
        PROVE  \E i \in DOMAIN t :
                 /\ t[i] = Frame(c, "ack")
                 /\ \A j \in DOMAIN t : t[j].of = c => i = j \/ (i < j /\ t[j] # Frame(c, "ack"))
    <3>1. PICK i \in DOMAIN w :
             /\ w[i] = Frame(c, "ack")
             /\ \A j \in DOMAIN w : w[j].of = c => i = j \/ (i < j /\ w[j] # Frame(c, "ack"))
      BY <2>1, <2>2 DEF AckFirst
    <3>2. i - 1 \in DOMAIN t /\ t[i - 1] = Frame(c, "ack")
      BY <1>2, <1>3, <1>4, <3>1
    <3>3. ASSUME NEW j \in DOMAIN t, t[j].of = c
          PROVE  i - 1 = j \/ (i - 1 < j /\ t[j] # Frame(c, "ack"))
      <4>1. i = j + 1 \/ (i < j + 1 /\ t[j] # Frame(c, "ack"))
        BY <1>8, <3>1, <3>3
      <4>2. i \in Nat /\ j \in Nat
        BY <1>2
      <4>3. QED
        BY <4>1, <4>2
    <3>4. QED
      BY <3>2, <3>3
  <2>3. QED
    BY <1>8, <2>1, <2>2 DEF AckFirst
<1>c. FinLast(c, r, t)
  <2>1. FinLast(c, r, w)
    BY DEF StreamOK
  <2>2. ASSUME r.sock \in Receiving, NEW i \in DOMAIN t, NEW j \in DOMAIN t,
               t[i] = Frame(c, "fin"), t[j].of = c
        PROVE  r.cl = "fin" /\ j <= i
    <3>1. r.cl = "fin" /\ j + 1 <= i + 1
      BY <1>8, <2>1, <2>2 DEF FinLast
    <3>2. QED
      BY <1>8, <3>1
  <2>3. QED
    BY <1>8, <2>1, <2>2 DEF FinLast
<1>d. Balanced(c, r, t)
  BY <1>1 DEF StreamOK, Balanced
<1> QED
  BY <1>a, <1>b, <1>c, <1>d DEF StreamOK, t

(* The stack's half of two records is the same.                            *)
Alike(q, r) ==
    q.sock = r.sock /\ q.seen = r.seen /\ q.rxb = r.rxb /\ q.got = r.got /\ q.shut = r.shut

(* ... and so is what its host socket has come to.                         *)
Hosted(q, r) == (r.srv = "none" => q.srv = "none") /\ q.shut = r.shut /\ q.cut = r.cut

(* Frames that the container sends: a SYN, the acknowledgement, data, FIN. *)
LEMMA Emitted ==
    ASSUME NEW c \in Conn, NEW r \in Connection, NEW q, Alike(q, r), NEW k, NEW w \in Seq(Frames),
           StreamOK(c, r, w),
           \/ k = "syn"  /\ r.cl = "idle"   /\ q.cl = "syn" /\ q.sent = r.sent
           \/ k = "ack"  /\ r.cl = "synack" /\ q.cl = "est" /\ q.sent = r.sent
           \/ k = "data" /\ r.cl = "est"    /\ q.cl = "est" /\ q.sent = r.sent + 1
           \/ k = "fin"  /\ r.cl = "est"    /\ q.cl = "fin" /\ q.sent = r.sent
    PROVE  Frame(c, k) \in Frames /\ StreamOK(c, q, Append(w, Frame(c, k)))
<1> DEFINE n == Len(w)
           a == Append(w, Frame(c, k))
<1>1. /\ Frame(c, k) \in Frames /\ Frame(c, k).of = c /\ Frame(c, k).kind = k
      /\ \A x, y : Frame(c, x) = Frame(c, y) <=> x = y
  BY DEF Frame, Frames
<1>2. /\ n \in Nat /\ DOMAIN w = 1..n /\ DOMAIN a = 1..(n + 1) /\ a[n + 1] = Frame(c, k)
      /\ \A i \in 1..n : a[i] = w[i] /\ w[i] = Frame(w[i].of, w[i].kind)
  BY <1>1, AppendFacts, FrameFacts
<1>3. Cardinality(DataOf(c, a)) = IF k = "data" THEN Cardinality(DataOf(c, w)) + 1
                                                ELSE Cardinality(DataOf(c, w))
  BY <1>1, DataAppend
<1> HIDE DEF n, a
<1>4. /\ r.sent \in Nat /\ r.seen \in Nat /\ Cardinality(DataOf(c, w)) \in Nat
  BY DataFinite DEF Connection
<1>5. SynAlone(c, r, w) /\ AckFirst(c, r, w) /\ FinLast(c, r, w) /\ Balanced(c, r, w)
  BY DEF StreamOK
<1>6. r.sock \notin Ended /\ ~r.shut
  BY <1>5 DEF FinLast, Balanced
<1>7. SynAlone(c, q, a)
  <2>1. CASE k = "syn"
    <3>1. \A i \in 1..n : w[i].of # c
      BY <1>2, <1>5, <2>1 DEF SynAlone
    <3>2. \A i \in 1..(n + 1) : a[i].of = c => i = n + 1
      BY <1>2, <3>1
    <3>3. QED
      BY <1>1, <1>2, <2>1, <3>2 DEF SynAlone
  <2>2. CASE k # "syn"
    <3>1. \A i \in 1..n : w[i].of = c => w[i].kind # "syn"
      BY <1>2, <1>5, <2>2 DEF SynAlone
    <3>2. \A i \in 1..(n + 1) : a[i].of = c => a[i].kind # "syn"
      BY <1>1, <1>2, <2>2, <3>1
    <3>3. Frame(c, "syn").of = c /\ Frame(c, "syn").kind = "syn"
      BY DEF Frame
    <3>4. \A i \in 1..(n + 1) : a[i] # Frame(c, "syn")
      BY <3>2, <3>3
    <3>5. q.cl \in {"est", "fin"}
      BY <2>2
    <3> QED
      BY <1>2, <3>2, <3>4, <3>5 DEF SynAlone
  <2>3. QED
    BY <2>1, <2>2
<1>8. AckFirst(c, q, a)
  <2>1. CASE k = "syn"
    BY <2>1, <1>5 DEF AckFirst, Balanced, Alike
  <2>2. CASE k = "ack"
    <3>1. q.sock = "synrcvd" /\ \A i \in 1..n : w[i].of # c
      BY <2>2, <1>2, <1>5 DEF Balanced, Alike, SynAlone
    <3>2. \A j \in 1..(n + 1) : a[j].of = c => n + 1 = j
      BY <1>2, <3>1
    <3>3. n + 1 \in DOMAIN a
      BY <1>2
    <3>4. QED
      BY <1>2, <2>2, <3>1, <3>2, <3>3 DEF AckFirst
  <2>3. CASE k \in {"data", "fin"}
    <3>1. r.cl = "est" /\ Frame(c, k) # Frame(c, "ack")
      BY <1>1, <2>3
    <3>2. ASSUME q.sock = "synrcvd"
          PROVE  \E i \in DOMAIN a :
                   /\ a[i] = Frame(c, "ack")
                   /\ \A j \in DOMAIN a : a[j].of = c => i = j \/ (i < j /\ a[j] # Frame(c, "ack"))
      <4>1. PICK i \in DOMAIN w :
              /\ w[i] = Frame(c, "ack")
              /\ \A j \in DOMAIN w : w[j].of = c => i = j \/ (i < j /\ w[j] # Frame(c, "ack"))
        BY <1>5, <3>1, <3>2 DEF AckFirst, Alike
      <4>2. i \in DOMAIN a /\ a[i] = Frame(c, "ack") /\ i < n + 1
        BY <1>2, <4>1
      <4>3. \A j \in DOMAIN a : j = n + 1 \/ (j \in DOMAIN w /\ a[j] = w[j])
        BY <1>2
      <4>4. QED
        BY <1>2, <3>1, <4>1, <4>2, <4>3
    <3>3. q.sock \in {"est", "finwait"} => \A i \in DOMAIN a : a[i] # Frame(c, "ack")
      BY <1>2, <1>5, <3>1 DEF AckFirst, Alike
    <3>4. QED
      BY <3>2, <3>3 DEF AckFirst
  <2>4. QED
    BY <2>1, <2>2, <2>3
<1>9. FinLast(c, q, a)
  <2>1. q.sock \notin Ended
    BY <1>6 DEF Alike
  <2>2. ASSUME q.sock \in Receiving, NEW i \in DOMAIN a, NEW j \in DOMAIN a,
               a[i] = Frame(c, "fin"), a[j].of = c
        PROVE  q.cl = "fin" /\ j <= i
    <3>1. \A x \in 1..n : w[x] # Frame(c, "fin")
      <4>1. r.sock \in Receiving /\ r.cl # "fin"
        BY <2>2 DEF Alike
      <4>2. Frame(c, "fin").of = c
        BY DEF Frame
      <4>3. QED
        BY <1>2, <1>5, <4>1, <4>2 DEF FinLast
    <3>2. i = n + 1 /\ k = "fin"
      BY <1>1, <1>2, <2>2, <3>1
    <3>3. QED
      BY <1>2, <3>2
  <2>3. QED
    BY <2>1, <2>2 DEF FinLast
<1>10. Balanced(c, q, a)
  BY <1>3, <1>4, <1>5, <1>6 DEF Balanced, Alike
<1> QED
  BY <1>1, <1>7, <1>8, <1>9, <1>10 DEF StreamOK, a

(* Frames that the stack takes: a SYN, which it accepts or refuses,        *)
LEMMA SynTaken ==
    ASSUME NEW c \in Conn, NEW r \in Connection, NEW q \in Connection, NEW w \in Seq(Frames),
           w # <<>>, Head(w) = Frame(c, "syn"), StreamOK(c, r, w),
           q.sent = r.sent, q.seen = r.seen, q.rxb = r.rxb, q.got = r.got, q.shut = r.shut,
           \/ q.cl = "synack"  /\ q.sock = "synrcvd"
           \/ q.cl = "refused" /\ q.sock = r.sock
    PROVE  StreamOK(c, q, Tail(w)) /\ r.sock = "none"
<1> DEFINE t == Tail(w)
<1>1. /\ Len(w) \in Nat \ {0} /\ DOMAIN w = 1..Len(w) /\ w[1] = Frame(c, "syn")
      /\ \A i \in DOMAIN t : i \in Nat \ {0} /\ i + 1 \in DOMAIN w /\ t[i] = w[i + 1]
      /\ t \in Seq(Frames)
  BY TailFacts
<1>2. Frame(c, "syn").of = c /\ Frame(c, "syn").kind = "syn" /\ 1 \in DOMAIN w
      /\ \A k : Frame(c, k).of = c
  BY <1>1 DEF Frame
<1>3. SynAlone(c, r, w) /\ Balanced(c, r, w)
  BY DEF StreamOK
<1>4. \A i \in DOMAIN t : t[i].of # c
  <2> SUFFICES ASSUME NEW i \in DOMAIN t, t[i].of = c PROVE FALSE
    OBVIOUS
  <2>1. 1 = i + 1
    BY <1>1, <1>2, <1>3 DEF SynAlone
  <2>2. QED
    BY <1>1, <2>1
<1>5. DataOf(c, t) = {}
  BY <1>2, <1>4 DEF DataOf
<1>6. r.cl = "syn"
  BY <1>1, <1>2, <1>3 DEF SynAlone
<1>7. r.sock = "none" /\ r.sent = 0 /\ r.seen = 0 /\ r.rxb = 0 /\ r.got = 0 /\ ~r.shut
  BY <1>3, <1>6 DEF Balanced, Ended
<1> HIDE DEF t
<1>8. SynAlone(c, q, t) /\ AckFirst(c, q, t) /\ FinLast(c, q, t)
  BY <1>2, <1>4, <1>7 DEF SynAlone, AckFirst, FinLast, Ended
<1>9. Balanced(c, q, t)
  BY <1>5, <1>7, FS_EmptySet DEF Balanced, Ended
<1>10. QED
  BY <1>7, <1>8, <1>9 DEF StreamOK, t

(* ... or what follows it.  Whatever reaches a live socket is expected.    *)
LEMMA FrameTaken ==
    ASSUME NEW c \in Conn, NEW r \in Connection, NEW k \in {"ack", "data", "fin"},
           NEW w \in Seq(Frames), w # <<>>, Head(w) = Frame(c, k), StreamOK(c, r, w)
    PROVE  \/ k = "ack" /\ r.sock = "synrcvd"
           \/ k = "data" /\ r.sock \in {"est", "finwait"}
           \/ k = "fin" /\ r.sock \in {"est", "finwait"}
           \/ r.sock = "none"
<1>1. Len(w) \in Nat \ {0} /\ DOMAIN w = 1..Len(w) /\ w[1] = Frame(c, k) /\ 1 \in DOMAIN w
  BY TailFacts
<1>2. Frame(c, k).of = c /\ \A x : Frame(c, k) = Frame(c, x) <=> k = x
  BY DEF Frame
<1>3. r.sock \notin Ended /\ r.cl # "synack"
  BY <1>1, <1>2 DEF StreamOK, FinLast, SynAlone
<1>4. ASSUME r.sock = "synrcvd" PROVE k = "ack"
  <2>1. PICK i \in DOMAIN w :
          /\ w[i] = Frame(c, "ack")
          /\ \A j \in DOMAIN w : w[j].of = c => i = j \/ (i < j /\ w[j] # Frame(c, "ack"))
    BY <1>3, <1>4 DEF StreamOK, AckFirst
  <2>2. i = 1
    BY <1>1, <1>2, <2>1
  <2>3. QED
    BY <1>1, <1>2, <2>1, <2>2
<1>5. r.sock \in {"est", "finwait"} => k # "ack"
  BY <1>1, <1>2 DEF StreamOK, AckFirst
<1>6. r.sock \in {"none", "synrcvd", "est", "finwait"} \cup Ended
  BY DEF Connection, Ended
<1>7. QED
  BY <1>3, <1>4, <1>5, <1>6

(* A stream stays in order as its socket takes the frame.                  *)
LEMMA StreamTaken ==
    ASSUME NEW c \in Conn, NEW r \in Connection, NEW q \in Connection,
           NEW k \in {"ack", "data", "fin"},
           NEW w \in Seq(Frames), w # <<>>, Head(w) = Frame(c, k), StreamOK(c, r, w),
           q.sent = r.sent, q.got = r.got, q.shut = r.shut,
           \/ /\ k = "ack" /\ r.sock = "synrcvd" /\ q.sock = "est" /\ q.cl = r.cl
              /\ q.rxb = r.rxb /\ q.seen = r.seen
           \/ /\ k = "data" /\ r.sock \in {"est", "finwait"} /\ q.sock = r.sock /\ q.cl = r.cl
              /\ q.rxb = r.rxb + 1 /\ q.seen = r.seen + 1
           \/ /\ k = "fin" /\ r.sock \in {"est", "finwait"} /\ q.sock \in Ended /\ q.cl = r.cl
              /\ q.rxb = r.rxb /\ q.seen = r.seen
           \/ r.sock = "none" /\ q.sock = "none" /\ q.cl = "reset"
    PROVE  StreamOK(c, q, Tail(w))
<1> DEFINE t == Tail(w)
<1>1. /\ Len(w) \in Nat \ {0} /\ DOMAIN w = 1..Len(w) /\ w[1] = Frame(c, k) /\ 1 \in DOMAIN w
      /\ \A i \in DOMAIN t : i \in Nat \ {0} /\ i + 1 \in DOMAIN w /\ t[i] = w[i + 1]
      /\ t \in Seq(Frames)
  BY TailFacts
<1>2. /\ Frame(c, k).of = c /\ Frame(c, k).kind = k /\ \A x : Frame(c, x).of = c
      /\ Frame(c, "syn").kind = "syn" /\ \A x : Frame(c, k) = Frame(c, x) <=> k = x
  BY DEF Frame
<1>3. SynAlone(c, r, w) /\ AckFirst(c, r, w) /\ FinLast(c, r, w) /\ Balanced(c, r, w)
  BY DEF StreamOK
<1>4. r.cl \notin {"idle", "syn", "synack"} /\ \A i \in DOMAIN t : t[i].of = c => t[i].kind # "syn"
  BY <1>1, <1>2, <1>3 DEF SynAlone
<1>5. q.cl \notin {"idle", "syn", "synack"}
  BY <1>4
<1>6. \A i \in DOMAIN t : t[i] # Frame(c, "syn")
  BY <1>2, <1>4
<1>7. Cardinality(DataOf(c, w)) =
        IF k = "data" THEN Cardinality(DataOf(c, t)) + 1 ELSE Cardinality(DataOf(c, t))
  BY <1>2, DataTail
<1>8. Cardinality(DataOf(c, t)) \in Nat
  BY <1>1, DataFinite
<1>9. r.sent \in Nat /\ r.seen \in Nat /\ r.rxb \in Nat /\ r.got \in Nat
  BY DEF Connection
<1>10. CASE r.sock \in {"est", "finwait", "synrcvd"}
  <2>1. k = "fin" => r.cl = "fin" /\ \A i \in DOMAIN t : t[i].of # c
    <3> SUFFICES ASSUME k = "fin"
                 PROVE  r.cl = "fin" /\ \A i \in DOMAIN t : t[i].of # c
      OBVIOUS
    <3>1. r.cl = "fin" /\ \A j \in DOMAIN w : w[j].of = c => j <= 1
      BY <1>1, <1>2, <1>3, <1>10 DEF FinLast, Receiving
    <3>2. \A i \in DOMAIN t : ~(i + 1 <= 1)
      BY <1>1
    <3>3. QED
      BY <1>1, <3>1, <3>2
  <2>2. \A i \in DOMAIN t : t[i] # Frame(c, "ack")
    <3>1. CASE r.sock \in {"est", "finwait"}
      BY <1>1, <1>3, <3>1 DEF AckFirst
    <3>2. CASE r.sock = "synrcvd"
      <4>1. PICK i \in DOMAIN w :
              /\ w[i] = Frame(c, "ack")
              /\ \A j \in DOMAIN w : w[j].of = c => i = j \/ (i < j /\ w[j] # Frame(c, "ack"))
        BY <1>3, <1>4, <3>2 DEF AckFirst
      <4>2. i = 1
        BY <1>1, <1>2, <4>1
      <4>3. \A j \in DOMAIN t : j + 1 # 1 /\ j + 1 \in DOMAIN w /\ t[j] = w[j + 1]
        BY <1>1
      <4>4. QED
        BY <1>2, <4>1, <4>2, <4>3
    <3>3. QED
      BY <1>10, <3>1, <3>2
  <2>3. ASSUME q.sock \in Receiving, NEW i \in DOMAIN t, NEW j \in DOMAIN t,
               t[i] = Frame(c, "fin"), t[j].of = c
        PROVE  q.cl = "fin" /\ j <= i
    <3>1. r.cl = "fin" /\ j + 1 <= i + 1
      BY <1>1, <1>3, <1>10, <2>3 DEF FinLast, Receiving
    <3>2. QED
      BY <1>1, <1>10, <3>1
  <2>4. SynAlone(c, q, t) /\ AckFirst(c, q, t)
    BY <1>4, <1>5, <1>6, <1>10, <2>2 DEF SynAlone, AckFirst, Ended
  <2>5. FinLast(c, q, t)
    BY <1>10, <2>1, <2>3 DEF FinLast, Ended
  <2>6. q.sock \in Ended => Cardinality(DataOf(c, t)) = 0
    <3>1. q.sock \in Ended => DataOf(c, t) = {}
      BY <1>2, <1>10, <2>1 DEF DataOf, Ended
    <3>2. QED
      BY <3>1, FS_EmptySet
  <2>7. r.cl \in {"est", "fin"} /\ r.got + r.rxb = r.seen
        /\ r.sent = r.seen + Cardinality(DataOf(c, w)) /\ ~r.shut
    BY <1>3, <1>4, <1>10 DEF Balanced, Receiving, Ended
  <2>8. Balanced(c, q, t)
    <3>1. q.cl = r.cl /\ q.sock # "none" /\ q.sock # "synrcvd" /\ ~q.shut
      BY <1>10, <2>7 DEF Ended
    <3>2. q.got + q.rxb = q.seen
      BY <1>9, <1>10, <2>7
    <3>3. q.sent = q.seen + Cardinality(DataOf(c, t))
      <4>1. CASE k = "data"
        <5>1. q.seen = r.seen + 1 /\ q.sent = r.sent
          BY <1>10, <4>1
        <5>2. r.sent = r.seen + (Cardinality(DataOf(c, t)) + 1)
          BY <1>7, <2>7, <4>1
        <5>3. QED
          BY <1>8, <1>9, <5>1, <5>2
      <4>2. CASE k # "data"
        BY <1>7, <1>10, <2>7, <4>2
      <4>3. QED
        BY <4>1, <4>2
    <3>4. q.sock \in Ended => q.sent = q.seen
      BY <1>9, <1>10, <2>6, <3>3
    <3>5. QED
      BY <1>5, <2>7, <3>1, <3>2, <3>3, <3>4 DEF Balanced
  <2>9. QED
    BY <2>4, <2>5, <2>8 DEF StreamOK
<1>11. CASE r.sock = "none"
  <2>1. q.sock = "none" /\ q.cl = "reset" /\ ~q.shut
    BY <1>3, <1>11 DEF Balanced, Ended
  <2>2. SynAlone(c, q, t) /\ AckFirst(c, q, t) /\ FinLast(c, q, t) /\ Balanced(c, q, t)
    BY <1>4, <1>6, <2>1 DEF SynAlone, AckFirst, FinLast, Balanced, Receiving, Ended
  <2>3. QED
    BY <2>2 DEF StreamOK
<1>12. QED
  BY <1>10, <1>11

(* A step that moves no frame leaves a stream in order, whatever it moves  *)
(* between the buffers, and whichever side the stack closes.               *)
LEMMA Quiet ==
    ASSUME NEW c, NEW r \in Connection, NEW q \in Connection, NEW w, StreamOK(c, r, w),
           q.cl = r.cl, q.sent = r.sent, q.seen = r.seen,
           \/ /\ q.got + q.rxb = r.got + r.rxb
              /\ \/ q.sock = r.sock
                 \/ r.sock = "est" /\ q.sock = "finwait"
                 \/ r.sock \in Ended /\ q.sock \in Ended
              /\ q.shut => q.sock \in Ended /\ q.rxb = 0
              /\ r.cl \in {"idle", "syn"} => q.got = r.got /\ q.rxb = r.rxb
           \/ r.sock \notin {"none", "synrcvd"} /\ q.sock = "none" /\ ~q.shut
    PROVE  StreamOK(c, q, w)
<1>1. SynAlone(c, r, w) /\ AckFirst(c, r, w) /\ FinLast(c, r, w) /\ Balanced(c, r, w)
  BY DEF StreamOK
<1>2. SynAlone(c, q, w)
  BY <1>1 DEF SynAlone
<1>3. AckFirst(c, q, w)
  BY <1>1 DEF AckFirst, Ended
<1>4. FinLast(c, q, w)
  BY <1>1 DEF FinLast, Receiving, Ended
<1>5. Balanced(c, q, w)
  BY <1>1 DEF Balanced, Receiving, Ended
<1>6. QED
  BY <1>2, <1>3, <1>4, <1>5 DEF StreamOK

----------------------------------------------------------------------------
(* Ports.  Any set of natural numbers has a least one, and if it is        *)
(* bounded a greatest.                                                     *)
LEMMA LeastOf ==
    ASSUME NEW T, T \subseteq Nat, T # {}
    PROVE  \E x \in T : \A y \in T : x <= y
<1> DEFINE R == {s \in Nat \X Nat : s[1] < s[2]}
<1>1. OpToRel(<, Nat) = R
  BY Zenon DEF OpToRel
<1>2. IsWellFoundedOn(R, Nat)
  BY <1>1, NatLessThanWellFounded, Zenon
<1>3. \E x \in T : \A y \in T : ~(<<y, x>> \in R)
  <2> HIDE DEF R
  <2> QED
    BY <1>2, WFMin
<1>4. PICK x \in T : \A y \in T : ~(<<y, x>> \in R)
  BY <1>3
<1>5. \A y \in T : y < x => <<y, x>> \in R
  BY Zenon
<1>6. \A y \in T : ~(y < x)
  BY <1>4, <1>5, Zenon
<1>7. QED
  BY <1>6

(* Numbers up to a bound have a greatest one.                              *)
LEMMA GreatestOf ==
    ASSUME NEW n \in Nat, NEW S, S \subseteq 1..n, S # {}
    PROVE  \E x \in S : \A y \in S : y <= x
<1> DEFINE T == {n - i : i \in S}
<1>1. T \subseteq Nat /\ T # {}
  <2>1. \A i \in S : n - i \in Nat
    OBVIOUS
  <2>2. PICK i \in S : TRUE
    OBVIOUS
  <2>3. n - i \in T
    BY <2>2
  <2>4. QED
    BY <2>1, <2>3
<1> HIDE DEF T
<1>2. PICK t \in T : \A y \in T : t <= y
  BY <1>1, LeastOf
<1>3. PICK x \in S : t = n - x
  BY DEF T
<1>4. \A y \in S : n - y \in T
  BY DEF T
<1>5. QED
  BY <1>2, <1>3, <1>4

(* There are finitely many ports.                                          *)
LEMMA PortFinite == IsFiniteSet(Port)
<1> DEFINE X == Conn \cup Dgram
           f == [x \in X |-> PortOf[x]]
<1>1. IsFiniteSet(X)
  BY GatewayAssumption, FS_Union
<1>2. f \in Surjection(X, Port)
  BY DEF Surjection, Port
<1>3. QED
  BY <1>1, <1>2, FS_Surjection

(* learn_ports stays below the cap, and passes a port over only at it.     *)
LEMMA Learning ==
    ASSUME rx \in Seq(Frames), NEW kind, NEW known, known \subseteq Port,
           Cardinality(known) <= MAX_LEARNED_PORTS
    PROVE  /\ LearnUpTo(known, kind) \subseteq Port
           /\ Cardinality(LearnUpTo(known, kind)) <= MAX_LEARNED_PORTS
           /\ \A i \in DOMAIN rx : rx[i].kind = kind =>
                \/ PortOf[rx[i].of] \in LearnUpTo(known, kind)
                \/ Cardinality(LearnUpTo(known, kind)) = MAX_LEARNED_PORTS
<1> DEFINE n == Len(rx)
           P(i) == PortOf[rx[i].of]
           A(j) == known \cup {P(i) : i \in {x \in 1..(j - 1) : rx[x].kind = kind}}
           S == {j \in 1..n : rx[j].kind = kind /\ Cardinality(A(j)) < MAX_LEARNED_PORTS}
           L == LearnUpTo(known, kind)
<1>1. n \in Nat /\ DOMAIN rx = 1..n /\ \A i \in 1..n : P(i) \in Port
  <2>1. \A i \in 1..n : rx[i] \in Frames
    BY ElementOfSeq, LenProperties
  <2>2. QED
    BY <2>1, FrameFacts, LenProperties DEF Port
<1>2. \A j : j \in S <=> j \in 1..n /\ rx[j].kind = kind /\ Cardinality(A(j)) < MAX_LEARNED_PORTS
  OBVIOUS
<1>3. \A p : p \in L <=> p \in known \/ \E j \in S : p = P(j)
  BY <1>1 DEF LearnUpTo, peek_l4_dst
<1>4. \A p, j : p \in A(j) <=> p \in known \/ \E i \in 1..(j - 1) : rx[i].kind = kind /\ p = P(i)
  OBVIOUS
<1>5. MAX_LEARNED_PORTS \in Nat
  BY GatewayAssumption
<1>6. \A X : X \subseteq Port => IsFiniteSet(X) /\ Cardinality(X) \in Nat
  BY PortFinite, FS_Subset, FS_CardinalityType
<1> HIDE DEF n, P, A, S, L
<1>7. L \subseteq Port /\ \A j \in 1..n : A(j) \subseteq Port
  <2>1. \A j \in 1..n : 1..(j - 1) \subseteq 1..n
    BY <1>1
  <2>2. QED
    BY <1>1, <1>2, <1>3, <1>4, <2>1
<1>8. Cardinality(L) <= MAX_LEARNED_PORTS
  <2>1. CASE S = {}
    <3>1. L = known
      BY <1>3, <2>1
    <3>2. QED
      BY <3>1
  <2>2. CASE S # {}
    <3>1. PICK m \in S : \A j \in S : j <= m
      BY <1>1, <1>2, <2>2, GreatestOf
    <3>2. m \in 1..n /\ rx[m].kind = kind /\ Cardinality(A(m)) < MAX_LEARNED_PORTS
      BY <1>2
    <3>3. \A j \in S : j = m \/ j \in 1..(m - 1)
      BY <1>1, <1>2, <3>1, <3>2
    <3>4. L \subseteq A(m) \cup {P(m)}
      BY <1>2, <1>3, <1>4, <3>3
    <3>5. /\ IsFiniteSet(A(m)) /\ Cardinality(A(m)) \in Nat
      BY <1>6, <1>7, <3>2
    <3>6. /\ IsFiniteSet(A(m) \cup {P(m)})
          /\ Cardinality(A(m) \cup {P(m)}) \in {Cardinality(A(m)), Cardinality(A(m)) + 1}
      BY <3>5, FS_AddElement
    <3>7. Cardinality(L) <= Cardinality(A(m) \cup {P(m)})
      BY <3>4, <3>6, FS_Subset
    <3>8. QED
      BY <1>5, <1>6, <1>7, <3>2, <3>5, <3>6, <3>7
  <2>3. QED
    BY <2>1, <2>2
<1>9. ASSUME NEW i \in 1..n, rx[i].kind = kind, P(i) \notin L
      PROVE  Cardinality(L) = MAX_LEARNED_PORTS
  <2> DEFINE U == {j \in 1..n : ~(Cardinality(A(j)) < MAX_LEARNED_PORTS)}
  <2>1. i \in U
    BY <1>2, <1>3, <1>9
  <2>2. U \subseteq Nat
    BY <1>1
  <2>3. PICK m \in U : \A j \in U : m <= j
    BY <2>1, <2>2, LeastOf
  <2>4. \A j \in 1..(m - 1) : j \in 1..n /\ j \notin U
    BY <1>1, <2>2, <2>3
  <2>5. \A j \in 1..(m - 1) : rx[j].kind = kind => j \in S
    BY <1>2, <2>4
  <2>6. A(m) \subseteq L
    BY <1>3, <1>4, <2>5
  <2>7. Cardinality(A(m)) <= Cardinality(L)
    BY <1>6, <1>7, <2>6, FS_Subset
  <2>8. Cardinality(A(m)) \in Nat /\ Cardinality(L) \in Nat
    BY <1>6, <1>7
  <2>9. QED
    BY <1>5, <1>8, <2>3, <2>7, <2>8
<1>10. QED
  BY <1>1, <1>7, <1>8, <1>9 DEF L, P

----------------------------------------------------------------------------
(* The splice of a flow: what fits goes in, what was buffered goes out.    *)
LEMMA PullType ==
    ASSUME NEW h \in Nat, NEW room \in Nat
    PROVE  /\ pull(h, room).left \in Nat /\ pull(h, room).lost \in Nat
           /\ pull(h, room).in \in 0..room
<1> DEFINE part == room % SPLICE_CHUNK
           cut  == IF part = 0 THEN 0 ELSE Least(h - (room - part), SPLICE_CHUNK)
<1>1. SPLICE_CHUNK \in Nat \ {0}
  BY GatewayAssumption
<1>2. part \in 0..(SPLICE_CHUNK - 1) /\ part <= room
  BY <1>1
<1> HIDE DEF part
<1>3. h > room => cut \in Nat /\ cut <= h - (room - part) /\ part <= cut
  BY <1>1, <1>2 DEF Least
<1> HIDE DEF cut
<1>4. pull(h, room) = IF h <= room THEN [left |-> 0, in |-> h, lost |-> 0]
                      ELSE [left |-> h - (room - part) - cut, in |-> room, lost |-> cut - part]
  BY DEF pull, part, cut
<1>5. CASE h <= room
  BY <1>4, <1>5
<1>6. CASE h > room
  <2>1. h - (room - part) - cut \in Nat /\ cut - part \in Nat
    BY <1>2, <1>3, <1>6
  <2>2. QED
    BY <1>4, <1>6, <2>1
<1>7. QED
  BY <1>5, <1>6

(* Bytes from the host move no byte of the other direction, and at most    *)
(* close the stack's side.                                                 *)
LEMMA HostToStackFacts ==
    ASSUME NEW r \in Connection
    PROVE  LET q == HostToStack(r)
           IN  /\ q \in Connection
               /\ q.cl = r.cl /\ q.sent = r.sent /\ q.seen = r.seen /\ q.srv = r.srv
               /\ q.got = r.got /\ q.rxb = r.rxb /\ q.shut = r.shut
               /\ \/ q.sock = r.sock
                  \/ r.sock = "est" /\ q.sock = "finwait"
                  \/ r.sock = "closewait" /\ q.sock = "lastack"
<1> DEFINE m == pull(r.hp, FLOW_BUF - r.tx)
           p == [r EXCEPT !.hp = m.left, !.tx = @ + m.in, !.lost = @ + m.lost]
           s == IF r.sock = "est" THEN "finwait" ELSE "lastack"
           t == [p EXCEPT !.sock = s]
<1>1. r.hp \in Nat /\ r.tx \in 0..FLOW_BUF /\ r.lost \in Nat /\ FLOW_BUF \in Nat
  BY GatewayAssumption DEF Connection
<1>2. m.left \in Nat /\ m.lost \in Nat /\ m.in \in 0..(FLOW_BUF - r.tx)
  BY <1>1, PullType
<1> HIDE DEF m
<1>3. r.tx + m.in \in 0..FLOW_BUF /\ r.lost + m.lost \in Nat
  BY <1>1, <1>2
<1>4. /\ p \in Connection /\ p.sock = r.sock
      /\ p.cl = r.cl /\ p.sent = r.sent /\ p.seen = r.seen /\ p.srv = r.srv
      /\ p.got = r.got /\ p.rxb = r.rxb /\ p.shut = r.shut
  BY <1>2, <1>3 DEF Connection
<1>5. s \in {"finwait", "lastack"}
  OBVIOUS
<1> HIDE DEF p
<1>6. /\ t \in Connection /\ t.sock = s
      /\ t.cl = p.cl /\ t.sent = p.sent /\ t.seen = p.seen /\ t.srv = p.srv
      /\ t.got = p.got /\ t.rxb = p.rxb /\ t.shut = p.shut
  BY <1>4, <1>5 DEF Connection
<1>7. HostToStack(r) = IF r.sock \notin {"est", "closewait"} THEN r
                       ELSE IF m.left = 0 /\ p.tx < FLOW_BUF /\ r.srv = "eof" THEN t ELSE p
  BY DEF HostToStack, m, p
<1> HIDE DEF t
<1>8. CASE r.sock \notin {"est", "closewait"}
  BY <1>7, <1>8
<1>9. CASE r.sock \in {"est", "closewait"}
  BY <1>4, <1>6, <1>7, <1>9
<1>10. QED
  BY <1>8, <1>9

(* A splice passes on all that was buffered; it ends the stream only when  *)
(* nothing can follow.                                                     *)
LEMMA SplicedFacts ==
    ASSUME NEW r \in Connection
    PROVE  LET q == Spliced(r)
           IN  /\ q \in Connection
               /\ q.cl = r.cl /\ q.sent = r.sent /\ q.seen = r.seen /\ q.srv = r.srv
               /\ q.got = r.got + r.rxb /\ q.rxb = 0
               /\ \/ q.sock = r.sock
                  \/ r.sock = "est" /\ q.sock = "finwait"
                  \/ r.sock = "closewait" /\ q.sock = "lastack"
               /\ q.shut => r.shut \/ q.sock \notin {"est", "finwait"}
               /\ q.sock \notin {"est", "finwait"} => q.shut
<1> DEFINE a == [r EXCEPT !.got = @ + r.rxb, !.rxb = 0]
           b == HostToStack(a)
           q == HalfClose(b)
<1>1. r.got + r.rxb \in Nat
  BY DEF Connection
<1>2. /\ a \in Connection /\ a.got = r.got + r.rxb /\ a.rxb = 0
      /\ a.cl = r.cl /\ a.sent = r.sent /\ a.seen = r.seen /\ a.srv = r.srv
      /\ a.sock = r.sock /\ a.shut = r.shut
  BY <1>1 DEF Connection
<1> HIDE DEF a
<1>3. /\ b \in Connection
      /\ b.cl = a.cl /\ b.sent = a.sent /\ b.seen = a.seen /\ b.srv = a.srv
      /\ b.got = a.got /\ b.rxb = a.rxb /\ b.shut = a.shut
      /\ \/ b.sock = a.sock
         \/ a.sock = "est" /\ b.sock = "finwait"
         \/ a.sock = "closewait" /\ b.sock = "lastack"
  BY <1>2, HostToStackFacts
<1> HIDE DEF b
<1>4. CASE ~may_recv(b)
  <2>1. q = [b EXCEPT !.shut = TRUE] /\ b.sock \notin {"est", "finwait"}
    BY <1>4 DEF HalfClose, may_recv
  <2>2. /\ q \in Connection
        /\ q.cl = b.cl /\ q.sent = b.sent /\ q.seen = b.seen /\ q.srv = b.srv
        /\ q.got = b.got /\ q.rxb = b.rxb /\ q.sock = b.sock /\ q.shut
    BY <1>3, <2>1 DEF Connection
  <2>3. QED
    BY <1>2, <1>3, <2>1, <2>2 DEF Spliced, a, b
<1>5. CASE may_recv(b)
  <2>1. q = b /\ b.sock \in {"est", "finwait"}
    BY <1>2, <1>3, <1>5 DEF HalfClose, may_recv
  <2>2. QED
    BY <1>2, <1>3, <2>1 DEF Spliced, a, b
<1>6. QED
  BY <1>4, <1>5

----------------------------------------------------------------------------
(* The invariant in two halves: the life of the network, and what goes on  *)
(* in its gateway.                                                         *)
TypeOwn ==
    /\ own \in {"create", "pin", "start", "up", "join", "release", "gone", "failed", "killed"}
    /\ mode \in Modes /\ job \in Jobs /\ {ns, pin, tap, pasta, stop} \subseteq BOOLEAN
    /\ left \subseteq {"pin", "pasta"}
    /\ thr \in {"off", "begin", "fill", "learn", "poll", "promote", "splice", "udp", "check", "over"}

TypeIn ==
    /\ {fd, rx} \subseteq Seq(Frames) /\ Len(fd) <= MaxFrames
    /\ learned \cup relays \subseteq Port /\ free \in [Port -> 0..LISTENERS_PER_PORT]
    /\ pend \cup flows \cup todo \subseteq Conn
    /\ con \in [Conn -> Connection]
    /\ dg \in [Dgram -> {"idle", "sent", "relay", "dropped", "flow", "refused", "answered", "replied"}]

Outer == TypeOwn /\ OwnerInv /\ NetOutlivesGateway
Inner == TypeIn /\ Bounded /\ TableInv /\ StreamInv

(* Streams in order end last.                                              *)
LEMMA StreamsEndLast ==
    ASSUME TypeIn, TableInv, StreamInv PROVE EofLast
<1> SUFFICES ASSUME NEW c \in Conn, Eof(c), ~con[c].cut
             PROVE  con[c].cl \in {"fin", "reset"} /\ con[c].got = con[c].sent
  BY DEF EofLast
<1>0. con[c].shut
  BY DEF Eof, TableInv
<1>1. con[c] \in Connection /\ StreamOK(c, con[c], rx \o fd)
  BY DEF TypeIn, StreamInv
<1>2. con[c].sock \in Ended /\ con[c].rxb = 0 /\ con[c].sent = con[c].seen
  BY <1>0, <1>1 DEF StreamOK, Balanced
<1>3. con[c].cl = "fin" /\ con[c].got + con[c].rxb = con[c].seen
  BY <1>1, <1>2 DEF StreamOK, Balanced, FinLast, Ended
<1>4. con[c].got \in Nat
  BY <1>1 DEF Connection
<1>5. QED
  BY <1>2, <1>3, <1>4

(* The invariant is its two halves.                                        *)
LEMMA InvParts == GatewayInv <=> Outer /\ Inner
<1>1. TypeOK <=> TypeOwn /\ TypeIn
  BY DEF TypeOK, TypeOwn, TypeIn
<1>2. QED
  BY <1>1, StreamsEndLast DEF GatewayInv, Outer, Inner

(* A step of the owner leaves what is inside alone.                        *)
LEMMA InnerSame ==
    ASSUME Inner, UNCHANGED inside, thr' # "poll" \/ thr' = thr
    PROVE  Inner'
<1>1. UNCHANGED <<fd, rx, learned, relays, free, pend, flows, todo, con, dg>>
  BY DEF inside, tables
<1>2. TypeIn'
  BY <1>1 DEF Inner, TypeIn
<1>3. Bounded'
  BY <1>1 DEF Inner, Bounded, Pending, InRelay
<1>4. TableInv'
  BY <1>1 DEF Inner, TableInv, Pending
<1>5. StreamInv'
  BY <1>1 DEF Inner, StreamInv
<1>6. QED
  BY <1>2, <1>3, <1>4, <1>5 DEF Inner

(* A step inside leaves the owner alone.                                   *)
LEMMA OuterSame ==
    ASSUME Outer, UNCHANGED <<owner, stop, tap>>,
           \/ thr' = thr
           \/ /\ thr \in {"fill", "learn", "poll", "promote", "splice", "udp"}
              /\ thr' \in {"learn", "poll", "promote", "splice", "udp", "check"}
    PROVE  Outer'
<1>1. UNCHANGED <<own, mode, job, ns, pin, pasta, left, stop, tap>>
  BY DEF owner
<1>2. TypeOwn'
  BY <1>1 DEF Outer, TypeOwn
<1>3. (Running' <=> Running) /\ (thr' # "off" <=> thr # "off")
  BY DEF Running
<1>4. OwnerInv'
  BY <1>1, <1>3 DEF Outer, OwnerInv, Running
<1>5. NetOutlivesGateway'
  BY <1>1, <1>3 DEF Outer, NetOutlivesGateway
<1>6. QED
  BY <1>2, <1>4, <1>5 DEF Outer

----------------------------------------------------------------------------
(* The owner.                                                              *)

(* Each of its steps: the egress lives within the namespace.               *)
LEMMA OwnerKeeps ==
    ASSUME Outer, Inner, Owner \/ crash
    PROVE  Outer' /\ Inner'
<1> USE DEF Outer, TypeOwn, OwnerInv, NetOutlivesGateway, Running, OwnedNetnsDropped
<1>1. ASSUME NEW ok \in BOOLEAN, create_netns(ok) PROVE Outer' /\ Inner'
  BY <1>1, InnerSame DEF create_netns
<1>2. ASSUME NEW ok \in BOOLEAN, bind_mount_netns(ok) PROVE Outer' /\ Inner'
  BY <1>2, InnerSame DEF bind_mount_netns
<1>3. ASSUME NEW ok \in BOOLEAN, setup_native(ok) PROVE Outer' /\ Inner'
  BY <1>3, InnerSame DEF setup_native
<1>4. ASSUME NEW run \in BOOLEAN, NEW pid \in BOOLEAN, setup_pasta(run, pid) PROVE Outer' /\ Inner'
  BY <1>4, InnerSame DEF setup_pasta
<1>5. CASE setup_none
  BY <1>5, InnerSame DEF setup_none
<1>6. CASE drop_pasta
  BY <1>6, InnerSame DEF drop_pasta
<1>7. CASE drop_native
  BY <1>7, InnerSame DEF drop_native
<1>8. CASE drop_none
  BY <1>8, InnerSame DEF drop_none
<1>9. CASE join_native
  BY <1>9, InnerSame DEF join_native
<1>10. CASE drop_netns
  BY <1>10, InnerSame DEF drop_netns
<1>11. CASE crash
  BY <1>11, InnerSame DEF crash
<1> QED
  BY <1>1, <1>2, <1>3, <1>4, <1>5, <1>6, <1>7, <1>8, <1>9, <1>10, <1>11 DEF Owner

----------------------------------------------------------------------------
(* The container and the servers.                                          *)

(* A new record for one connection, with the stack's socket as it was.     *)
LEMMA NewRecord ==
    ASSUME con \in [Conn -> Connection], NEW c \in Conn, NEW q \in Connection, OnlyCon(c, q)
    PROVE  /\ con' \in [Conn -> Connection] /\ con'[c] = q
           /\ \A d \in Conn \ {c} : con'[d] = con[d]
BY DEF OnlyCon

(* ... with the frames as they were,                                       *)
LEMMA Recorded ==
    ASSUME TypeIn, StreamInv, UNCHANGED <<fd, rx>>, NEW c \in Conn, NEW q \in Connection,
           OnlyCon(c, q), StreamOK(c, q, rx \o fd)
    PROVE  StreamInv'
<1>1. \A d \in Conn : con'[d] = IF d = c THEN q ELSE con[d]
  BY NewRecord DEF TypeIn
<1>2. rx' \o fd' = rx \o fd
  OBVIOUS
<1>3. QED
  BY <1>1, <1>2 DEF StreamInv

(* ... with one more,                                                      *)
LEMMA RecordedEmit ==
    ASSUME TypeIn, StreamInv, UNCHANGED rx, NEW f \in Frames, fd' = Append(fd, f),
           NEW c \in Conn, f.of = c, NEW q \in Connection,
           OnlyCon(c, q), StreamOK(c, q, Append(rx \o fd, f))
    PROVE  StreamInv'
<1>1. \A d \in Conn : con'[d] = IF d = c THEN q ELSE con[d]
  BY NewRecord DEF TypeIn
<1>2. rx' \o fd' = Append(rx \o fd, f) /\ rx \o fd \in Seq(Frames)
  BY WireFacts DEF TypeIn
<1>3. ASSUME NEW d \in Conn, d # c PROVE StreamOK(d, con[d], Append(rx \o fd, f))
  BY <1>2, <1>3, OtherAppended DEF StreamInv
<1>4. QED
  BY <1>1, <1>2, <1>3 DEF StreamInv

(* ... or with one taken off the queue.                                    *)
LEMMA RecordedTake ==
    ASSUME TypeIn, StreamInv, UNCHANGED fd, rx # <<>>, rx' = Tail(rx),
           NEW c \in Conn, Head(rx).of = c, NEW q \in Connection,
           OnlyCon(c, q), StreamOK(c, q, Tail(rx \o fd))
    PROVE  StreamInv'
<1>1. \A d \in Conn : con'[d] = IF d = c THEN q ELSE con[d]
  BY NewRecord DEF TypeIn
<1>2. /\ rx' \o fd' = Tail(rx \o fd) /\ rx \o fd \in Seq(Frames) /\ rx \o fd # <<>>
      /\ Head(rx \o fd) = Head(rx)
  BY DEF TypeIn
<1>3. ASSUME NEW d \in Conn, d # c PROVE StreamOK(d, con[d], Tail(rx \o fd))
  BY <1>2, <1>3, OtherTaken DEF StreamInv
<1>4. QED
  BY <1>1, <1>2, <1>3 DEF StreamInv

(* The tables say nothing about what the container or a server changes.    *)
LEMMA TablesSame ==
    ASSUME Inner, UNCHANGED <<thr, rx, tables, todo, dg>>, \A c \in Conn : Hosted(con'[c], con[c]),
           \A c \in Conn : con'[c].sock = con[c].sock
                           \/ (con[c].sock = "lastack" /\ con'[c].sock = "closed")
    PROVE  Bounded' /\ TableInv'
<1>1. UNCHANGED <<thr, rx, learned, relays, free, pend, flows, todo, dg>>
  BY DEF tables
<1>2. Bounded'
  BY <1>1 DEF Inner, Bounded, Pending, InRelay
<1>3. pend \subseteq Conn /\ flows \subseteq Conn
  BY DEF Inner, TypeIn
<1>4. TableInv'
  BY <1>1, <1>3 DEF Inner, TableInv, Pending, Hosted
<1>5. QED
  BY <1>2, <1>4

(* A frame that the container sends.                                       *)
LEMMA EmitKeeps ==
    ASSUME Outer, Inner, NEW c \in Conn, dial(c) \/ acknowledge(c) \/ write(c) \/ finish(c)
    PROVE  Outer' /\ Inner'
<1>1. PICK k, q : /\ Emit(c, k) /\ OnlyCon(c, q) /\ q \in Connection /\ Alike(q, con[c])
                  /\ Hosted(q, con[c])
                  /\ UNCHANGED container
                  /\ \/ k = "syn"  /\ con[c].cl = "idle"   /\ q.cl = "syn" /\ q.sent = con[c].sent
                     \/ k = "ack"  /\ con[c].cl = "synack" /\ q.cl = "est" /\ q.sent = con[c].sent
                     \/ k = "data" /\ con[c].cl = "est" /\ q.cl = "est" /\ q.sent = con[c].sent + 1
                     \/ k = "fin"  /\ con[c].cl = "est" /\ q.cl = "fin" /\ q.sent = con[c].sent
  <2>0. con[c] \in Connection
    BY DEF Inner, TypeIn
  <2>1. CASE dial(c)
    <3> DEFINE q == [con[c] EXCEPT !.cl = "syn"]
    <3>1. /\ q \in Connection /\ q.cl = "syn" /\ q.sent = con[c].sent
          /\ Alike(q, con[c]) /\ Hosted(q, con[c])
      BY <2>0 DEF Connection, Alike, Hosted
    <3>2. QED
      BY <2>1, <3>1 DEF dial
  <2>2. CASE acknowledge(c)
    <3> DEFINE q == [con[c] EXCEPT !.cl = "est"]
    <3>1. /\ q \in Connection /\ q.cl = "est" /\ q.sent = con[c].sent
          /\ Alike(q, con[c]) /\ Hosted(q, con[c])
      BY <2>0 DEF Connection, Alike, Hosted
    <3>2. QED
      BY <2>2, <3>1 DEF acknowledge
  <2>3. CASE write(c)
    <3> DEFINE q == [con[c] EXCEPT !.sent = @ + 1]
    <3>1. /\ q \in Connection /\ q.cl = con[c].cl /\ q.sent = con[c].sent + 1
          /\ Alike(q, con[c]) /\ Hosted(q, con[c])
      BY <2>0 DEF Connection, Alike, Hosted
    <3>2. QED
      BY <2>3, <3>1 DEF write
  <2>4. CASE finish(c)
    <3> DEFINE q == [con[c] EXCEPT !.cl = "fin"]
    <3>1. /\ q \in Connection /\ q.cl = "fin" /\ q.sent = con[c].sent
          /\ Alike(q, con[c]) /\ Hosted(q, con[c])
      BY <2>0 DEF Connection, Alike, Hosted
    <3>2. QED
      BY <2>4, <3>1 DEF finish
  <2>5. QED
    BY <2>1, <2>2, <2>3, <2>4
<1>2. /\ con[c] \in Connection /\ StreamOK(c, con[c], rx \o fd) /\ rx \o fd \in Seq(Frames)
      /\ fd \in Seq(Frames)
  BY DEF Inner, TypeIn, StreamInv
<1>3. Frame(c, k) \in Frames /\ StreamOK(c, q, Append(rx \o fd, Frame(c, k)))
  BY <1>1, <1>2, Emitted
<1>4. UNCHANGED <<owner, tap, thr, stop, rx, tables, todo, dg>> /\ fd' = Append(fd, Frame(c, k))
      /\ Len(fd) < MaxFrames
  BY <1>1 DEF container, Emit
<1>5. Frame(c, k).of = c
  BY DEF Frame
<1>6. StreamInv'
  BY <1>1, <1>3, <1>4, <1>5, RecordedEmit DEF Inner
<1>7. /\ con' \in [Conn -> Connection]
      /\ \A d \in Conn : con'[d].sock = con[d].sock /\ Hosted(con'[d], con[d])
  BY <1>1, NewRecord DEF Inner, TypeIn, Alike, Hosted
<1>8. Bounded' /\ TableInv'
  BY <1>4, <1>7, TablesSame
<1>9. TypeIn'
  <2>1. fd' \in Seq(Frames) /\ Len(fd') <= MaxFrames
    BY <1>2, <1>3, <1>4, AppendProperties, GatewayAssumption
  <2>2. QED
    BY <1>4, <1>7, <2>1 DEF Inner, TypeIn, tables
<1>10. Outer'
  BY <1>4, OuterSame
<1>11. QED
  BY <1>6, <1>8, <1>9, <1>10 DEF Inner

(* A step of the container's kernel or of a server that sends no frame.    *)
LEMMA ReadKeeps ==
    ASSUME Outer, Inner, NEW c \in Conn, read(c) \/ last_ack(c) \/ respond(c) \/ hang_up(c)
    PROVE  Outer' /\ Inner'
<1>0. con[c] \in Connection /\ StreamOK(c, con[c], rx \o fd)
  BY DEF Inner, TypeIn, StreamInv
<1>1. PICK q \in Connection :
        /\ OnlyCon(c, q) /\ q.cl = con[c].cl /\ q.sent = con[c].sent
        /\ q.seen = con[c].seen /\ q.rxb = con[c].rxb /\ q.got = con[c].got /\ q.shut = con[c].shut
        /\ Hosted(q, con[c])
        /\ q.sock = con[c].sock \/ (con[c].sock = "lastack" /\ q.sock = "closed")
  <2>1. CASE read(c)
    <3> DEFINE q == [con[c] EXCEPT !.tx = @ - 1]
    <3>1. con[c].tx - 1 \in 0..FLOW_BUF
      BY <1>0, <2>1, GatewayAssumption DEF read, Connection
    <3>2. /\ q \in Connection /\ q.cl = con[c].cl /\ q.sent = con[c].sent /\ q.seen = con[c].seen
          /\ q.rxb = con[c].rxb /\ q.got = con[c].got /\ q.shut = con[c].shut /\ q.sock = con[c].sock
          /\ Hosted(q, con[c])
      BY <1>0, <3>1 DEF Connection, Hosted
    <3>3. QED
      BY <2>1, <3>2 DEF read
  <2>2. CASE last_ack(c)
    <3> DEFINE q == [con[c] EXCEPT !.sock = "closed"]
    <3>1. /\ q \in Connection /\ q.cl = con[c].cl /\ q.sent = con[c].sent /\ q.seen = con[c].seen
          /\ q.rxb = con[c].rxb /\ q.got = con[c].got /\ q.shut = con[c].shut /\ q.sock = "closed"
          /\ Hosted(q, con[c])
      BY <1>0 DEF Connection, Hosted
    <3>2. QED
      BY <2>2, <3>1 DEF last_ack
  <2>3. CASE respond(c)
    <3> DEFINE q == [con[c] EXCEPT !.out = @ + 1, !.hp = @ + 1]
    <3>0. con[c].out + 1 \in Nat /\ con[c].hp + 1 \in Nat
      BY <1>0 DEF Connection
    <3>1. /\ q \in Connection /\ q.cl = con[c].cl /\ q.sent = con[c].sent /\ q.seen = con[c].seen
          /\ q.rxb = con[c].rxb /\ q.got = con[c].got /\ q.shut = con[c].shut /\ q.sock = con[c].sock
          /\ Hosted(q, con[c])
      BY <1>0, <3>0 DEF Connection, Hosted
    <3>2. QED
      BY <2>3, <3>1 DEF respond
  <2>4. CASE hang_up(c)
    <3> DEFINE q == [con[c] EXCEPT !.srv = "eof"]
    <3>1. /\ q \in Connection /\ q.cl = con[c].cl /\ q.sent = con[c].sent /\ q.seen = con[c].seen
          /\ q.rxb = con[c].rxb /\ q.got = con[c].got /\ q.shut = con[c].shut /\ q.sock = con[c].sock
          /\ Hosted(q, con[c])
      BY <1>0, <2>4 DEF Connection, Hosted, hang_up
    <3>2. QED
      BY <2>4, <3>1 DEF hang_up
  <2>5. QED
    BY <2>1, <2>2, <2>3, <2>4
<1>2. UNCHANGED <<owner, tap, thr, stop, fd, rx, tables, todo, dg>>
  BY DEF read, last_ack, respond, hang_up, server
<1>3. con[c].shut => con[c].sock \in Ended /\ con[c].rxb = 0
  BY <1>0 DEF StreamOK, Balanced
<1>4. StreamOK(c, q, rx \o fd)
  BY <1>0, <1>1, <1>3, Quiet DEF Ended
<1>5. StreamInv'
  BY <1>1, <1>2, <1>4, Recorded DEF Inner
<1>6. /\ con' \in [Conn -> Connection]
      /\ \A d \in Conn : \/ con'[d].sock = con[d].sock
                         \/ con[d].sock = "lastack" /\ con'[d].sock = "closed"
      /\ \A d \in Conn : Hosted(con'[d], con[d])
  BY <1>1, NewRecord DEF Inner, TypeIn, Hosted
<1>7. Bounded' /\ TableInv'
  BY <1>2, <1>6, TablesSame
<1>8. TypeIn'
  BY <1>2, <1>6 DEF Inner, TypeIn, tables
<1>9. QED
  BY <1>2, <1>5, <1>7, <1>8, OuterSame DEF Inner

(* Relays hold no more datagrams than before.                              *)
LEMMA RelaysShrink ==
    ASSUME Inner, \A d \in Dgram : dg'[d] = "relay" => dg[d] = "relay"
    PROVE  \A p \in Port : Cardinality(InRelay(p))' <= UDP_RELAY_SLOTS
<1> SUFFICES ASSUME NEW p \in Port PROVE Cardinality(InRelay(p)') <= UDP_RELAY_SLOTS
  OBVIOUS
<1>1. IsFiniteSet(InRelay(p)) /\ Cardinality(InRelay(p)) <= UDP_RELAY_SLOTS
  BY GatewayAssumption, FS_Subset DEF Inner, Bounded, InRelay
<1>2. InRelay(p)' \in SUBSET InRelay(p)
  BY DEF InRelay
<1>3. /\ IsFiniteSet(InRelay(p)') /\ Cardinality(InRelay(p)') <= Cardinality(InRelay(p))
  BY <1>1, <1>2, FS_Subset
<1>4. Cardinality(InRelay(p)') \in Nat /\ Cardinality(InRelay(p)) \in Nat /\ UDP_RELAY_SLOTS \in Nat
  BY <1>1, <1>3, FS_CardinalityType, GatewayAssumption
<1>5. QED
  BY <1>1, <1>3, <1>4

(* A datagram that the container sends.                                    *)
LEMMA QueryKeeps ==
    ASSUME Outer, Inner, NEW d \in Dgram, query(d)
    PROVE  Outer' /\ Inner'
<1> DEFINE f == Frame(d, "udp")
<1>1. f \in Frames /\ f.of = d
  BY DEF Frame, Frames
<1>2. /\ fd' = Append(fd, f) /\ Len(fd) < MaxFrames /\ dg' = [dg EXCEPT ![d] = "sent"]
      /\ UNCHANGED <<owner, tap, thr, stop, rx, tables, todo, con>>
  BY DEF query, Emit
<1>3. UNCHANGED <<learned, relays, free, pend, flows>>
  BY <1>2 DEF tables
<1> HIDE DEF f
<1>4. StreamInv'
  <2>1. rx' \o fd' = Append(rx \o fd, f) /\ rx \o fd \in Seq(Frames)
    BY <1>1, <1>2, WireFacts DEF Inner, TypeIn
  <2>2. \A c \in Conn : c # f.of
    BY <1>1, GatewayAssumption
  <2>3. \A c \in Conn : StreamOK(c, con[c], Append(rx \o fd, f))
    BY <1>1, <2>1, <2>2, OtherAppended DEF Inner, StreamInv
  <2>4. QED
    BY <1>2, <2>1, <2>3 DEF StreamInv
<1>5. TypeIn'
  <2>1. fd' \in Seq(Frames) /\ Len(fd') <= MaxFrames
    BY <1>1, <1>2, AppendProperties, GatewayAssumption DEF Inner, TypeIn
  <2>2. QED
    BY <1>2, <1>3, <2>1 DEF Inner, TypeIn
<1>6. \A x \in Dgram : dg'[x] = "relay" => dg[x] = "relay"
  BY <1>2 DEF Inner, TypeIn
<1>7. Bounded'
  BY <1>3, <1>6, RelaysShrink DEF Inner, Bounded, Pending
<1>8. TableInv'
  BY <1>2, <1>3 DEF Inner, TableInv, Pending
<1>9. QED
  BY <1>2, <1>4, <1>5, <1>7, <1>8, OuterSame DEF Inner

(* A datagram is forwarded, refused, answered or done with.                *)
LEMMA DatagramKeeps ==
    ASSUME Outer, Inner,
           \/ \E d \in Dgram : answer(d) \/ \E ok \in BOOLEAN : forward_udp(d, ok)
           \/ pump_udp
    PROVE  Outer' /\ Inner'
<1>1. /\ UNCHANGED <<owner, stop, tap, fd, rx, tables, todo, con>>
      /\ thr' = thr \/ (thr = "udp" /\ thr' = "check")
  BY DEF answer, forward_udp, pump_udp, Turn, gateway, server
<1>2. UNCHANGED <<learned, relays, free, pend, flows>>
  BY <1>1 DEF tables
<1>3. /\ dg' \in [Dgram -> {"idle", "sent", "relay", "dropped", "flow", "refused", "answered", "replied"}]
      /\ \A x \in Dgram : dg'[x] = "relay" => dg[x] = "relay"
  BY DEF Inner, TypeIn, answer, forward_udp, pump_udp
<1>4. TypeIn'
  BY <1>1, <1>2, <1>3 DEF Inner, TypeIn
<1>5. Bounded'
  BY <1>2, <1>3, RelaysShrink DEF Inner, Bounded, Pending
<1>6. TableInv'
  BY <1>1, <1>2 DEF Inner, TableInv, Pending
<1>7. StreamInv'
  BY <1>1 DEF Inner, StreamInv
<1>8. QED
  BY <1>1, <1>4, <1>5, <1>6, <1>7, OuterSame DEF Inner
----------------------------------------------------------------------------
(* The thread.                                                             *)

(* The thread begins, goes round or ends, and with it the tap.             *)
LEMMA LoopKeeps ==
    ASSUME Outer, Inner, run_until \/ \E ok \in BOOLEAN : new_gateway(ok)
    PROVE  Outer' /\ Inner'
<1>1. CASE run_until
  <2>1. Inner'
    BY <1>1, InnerSame DEF run_until
  <2>2. UNCHANGED <<own, mode, job, ns, pin, pasta, left, stop>>
    BY <1>1 DEF run_until, gateway, owner
  <2>3. Outer'
    BY <1>1, <2>2 DEF run_until, Outer, TypeOwn, OwnerInv, NetOutlivesGateway, Running
  <2>4. QED
    BY <2>1, <2>3
<1>2. ASSUME NEW ok \in BOOLEAN, new_gateway(ok) PROVE Outer' /\ Inner'
  <2>1. Inner'
    BY <1>2, InnerSame DEF new_gateway
  <2>2. UNCHANGED <<own, mode, job, ns, pin, pasta, left, stop>>
    BY <1>2 DEF new_gateway, gateway, owner
  <2>3. Outer'
    BY <1>2, <2>2 DEF new_gateway, Outer, TypeOwn, OwnerInv, NetOutlivesGateway, Running
  <2>4. QED
    BY <2>1, <2>3
<1>3. QED
  BY <1>1, <1>2

(* A sequence is its first n elements and the others.                      *)
LEMMA Parted ==
    ASSUME NEW w \in Seq(Frames), NEW n \in 0..Len(w)
    PROVE  SubSeq(w, 1, n) \o SubSeq(w, n + 1, Len(w)) = w
<1>1. 1 \in 1..(Len(w) + 1) /\ n \in (1 - 1)..Len(w) /\ Len(w) \in n..Len(w)
  OBVIOUS
<1>2. SubSeq(w, 1, n) \o SubSeq(w, n + 1, Len(w)) = SubSeq(w, 1, Len(w))
  BY <1>1, ConcatAdjacentSubSeq, Zenon
<1>3. SubSeq(w, 1, Len(w)) = w
  OBVIOUS
<1>4. QED
  BY <1>2, <1>3

(* What is taken off the tap goes to the end of the queue.                 *)
LEMMA FillKeeps ==
    ASSUME Outer, Inner, fill_rx
    PROVE  Outer' /\ Inner'
<1> DEFINE n == Least(Len(fd), RX_BURST)
<1>1. /\ UNCHANGED <<owner, stop, tap, tables, todo, con, dg>> /\ thr = "fill" /\ thr' = "learn"
      /\ rx' = rx \o SubSeq(fd, 1, n) /\ fd' = SubSeq(fd, n + 1, Len(fd))
  BY DEF fill_rx, gateway, Turn
<1>2. UNCHANGED <<learned, relays, free, pend, flows>>
  BY <1>1 DEF tables
<1>3. /\ rx' \o fd' = rx \o fd /\ rx' \in Seq(Frames) /\ fd' \in Seq(Frames)
      /\ Len(fd') <= Len(fd)
  <2>1. rx \in Seq(Frames) /\ fd \in Seq(Frames)
    BY DEF Inner, TypeIn
  <2>2. n \in 0..Len(fd)
    BY <2>1, GatewayAssumption DEF Least
  <2> HIDE DEF n
  <2>3. /\ SubSeq(fd, 1, n) \in Seq(Frames) /\ Len(SubSeq(fd, 1, n)) = n
        /\ \A i \in 1..n : SubSeq(fd, 1, n)[i] = fd[i]
    BY <2>1, <2>2
  <2>4. /\ fd' \in Seq(Frames) /\ Len(fd') = Len(fd) - n
        /\ \A i \in 1..(Len(fd) - n) : fd'[i] = fd[n + i]
    BY <1>1, <2>1, <2>2
  <2>5. SubSeq(fd, 1, n) \o fd' = fd
    BY <1>1, <2>1, <2>2, Parted
  <2>6. rx' \o fd' = rx \o (SubSeq(fd, 1, n) \o fd')
    <3>1. PICK u, v : u = SubSeq(fd, 1, n) /\ v = SubSeq(fd, n + 1, Len(fd))
      OBVIOUS
    <3>2. u \in Seq(Frames) /\ v \in Seq(Frames) /\ rx' = rx \o u /\ fd' = v
      BY <1>1, <2>3, <2>4, <3>1
    <3>3. (rx \o u) \o v = rx \o (u \o v)
      BY <2>1, <3>2, ConcatAssociative
    <3>4. QED
      BY <3>1, <3>2, <3>3, Zenon
  <2>7. QED
    <3>1. rx' \in Seq(Frames)
      BY <1>1, <2>1, <2>3
    <3>2. Len(fd') <= Len(fd)
      BY <2>1, <2>2, <2>4
    <3>3. QED
      BY <2>4, <2>5, <2>6, <3>1, <3>2
<1> HIDE DEF n
<1>4. TypeIn'
  <2>1. MaxFrames \in Nat
    BY GatewayAssumption
  <2>2. QED
    BY <1>1, <1>2, <1>3, <2>1 DEF Inner, TypeIn
<1>5. Bounded'
  BY <1>1, <1>2 DEF Inner, Bounded, Pending, InRelay
<1>6. TableInv'
  BY <1>1, <1>2 DEF Inner, TableInv
<1>7. StreamInv'
  BY <1>1, <1>3 DEF Inner, StreamInv
<1>8. QED
  BY <1>1, <1>4, <1>5, <1>6, <1>7, OuterSame DEF Inner

(* The connections in the listeners of a port can be counted.              *)
LEMMA PendingFinite ==
    ASSUME TypeIn, NEW p
    PROVE  IsFiniteSet(Pending(p)) /\ Cardinality(Pending(p)) \in Nat
BY GatewayAssumption, FS_Subset, FS_CardinalityType DEF TypeIn, Pending

(* Every port that was asked for is learned or the cap is met, and every   *)
(* port that is learned gets its listeners back.                           *)
LEMMA LearnKeeps ==
    ASSUME Outer, Inner, learn_ports
    PROVE  Outer' /\ Inner'
<1> DEFINE L == LISTENERS_PER_PORT
<1>0. L \in Nat /\ TypeIn /\ Bounded /\ TableInv /\ StreamInv
  BY GatewayAssumption DEF Inner
<1>1. /\ UNCHANGED <<owner, stop, tap, fd, rx, pend, flows, todo, con, dg>>
      /\ thr = "learn" /\ thr' = "poll"
      /\ learned' = LearnUpTo(learned, "syn") /\ relays' = LearnUpTo(relays, "udp")
      /\ free' = replenish(learned')
  BY DEF learn_ports, gateway, Turn
<1>2. /\ learned' \subseteq Port /\ Cardinality(learned') <= MAX_LEARNED_PORTS
      /\ \A i \in DOMAIN rx : rx[i].kind = "syn" =>
           PortOf[rx[i].of] \in learned' \/ Cardinality(learned') = MAX_LEARNED_PORTS
  BY <1>0, <1>1, Learning DEF TypeIn, Bounded
<1>3. relays' \subseteq Port /\ Cardinality(relays') <= MAX_LEARNED_PORTS
  BY <1>0, <1>1, Learning DEF TypeIn, Bounded
<1>4. /\ free' \in [Port -> 0..L]
      /\ \A p \in Port : /\ free'[p] + Cardinality(Pending(p)) <= L
                         /\ p \in learned' => free'[p] + Cardinality(Pending(p)) = L
  <2>1. DOMAIN free' = Port /\ free' = [p \in Port |-> free'[p]]
    BY <1>1 DEF replenish
  <2>2. ASSUME NEW p \in Port
        PROVE  /\ free'[p] \in 0..L /\ free'[p] + Cardinality(Pending(p)) <= L
               /\ p \in learned' => free'[p] + Cardinality(Pending(p)) = L
    <3>1. /\ free[p] \in 0..L /\ Cardinality(Pending(p)) \in Nat
          /\ free[p] + Cardinality(Pending(p)) <= L
      BY <1>0, PendingFinite DEF TypeIn, Bounded
    <3>2. free'[p] = IF p \in learned' /\ free[p] + Cardinality(Pending(p)) < L
                     THEN free[p] + L - (free[p] + Cardinality(Pending(p))) ELSE free[p]
      BY <1>1 DEF replenish
    <3>3. QED
      BY <1>0, <3>1, <3>2
  <2>3. QED
    BY <2>1, <2>2
<1>5. TypeIn'
  BY <1>0, <1>1, <1>2, <1>3, <1>4 DEF TypeIn
<1>6. \A p : Pending(p)' = Pending(p) /\ InRelay(p)' = InRelay(p)
  BY <1>1 DEF Pending, InRelay
<1>7. Bounded'
  BY <1>0, <1>2, <1>3, <1>4, <1>6 DEF Bounded
<1>8. TableInv'
  BY <1>0, <1>1, <1>2, <1>4, <1>6 DEF TableInv
<1>9. StreamInv'
  BY <1>0, <1>1 DEF StreamInv
<1>10. QED
  BY <1>1, <1>5, <1>7, <1>8, <1>9, OuterSame DEF Inner

(* What every frame that the stack takes has in common.                    *)
LEMMA PollFacts ==
    ASSUME Inner, rx # <<>>, rx' = Tail(rx)
    PROVE  /\ Head(rx) \in Frames /\ Head(rx) = rx[1] /\ 1 \in DOMAIN rx
           /\ rx' \in Seq(Frames)
           /\ \A i \in DOMAIN rx' : \E j \in DOMAIN rx : rx'[i] = rx[j]
           /\ rx \o fd \in Seq(Frames) /\ rx \o fd # <<>> /\ Head(rx \o fd) = Head(rx)
           /\ fd' = fd => rx' \o fd' = Tail(rx \o fd)
<1>1. rx \in Seq(Frames) /\ fd \in Seq(Frames)
  BY DEF Inner, TypeIn
<1>2. /\ Len(rx) \in Nat \ {0} /\ DOMAIN rx = 1..Len(rx) /\ Head(rx) = rx[1] /\ rx' \in Seq(Frames)
      /\ DOMAIN rx' = 1..(Len(rx) - 1) /\ \A i \in 1..(Len(rx) - 1) : rx'[i] = rx[i + 1]
      /\ \A i \in 1..Len(rx) : rx[i] \in Frames
  BY <1>1, TailFacts
<1>3. ASSUME NEW i \in DOMAIN rx' PROVE \E j \in DOMAIN rx : rx'[i] = rx[j]
  <2>1. i + 1 \in DOMAIN rx /\ rx'[i] = rx[i + 1]
    BY <1>2
  <2>2. QED
    BY <2>1
<1>4. /\ rx \o fd \in Seq(Frames) /\ rx \o fd # <<>> /\ Head(rx \o fd) = Head(rx)
      /\ Tail(rx) \o fd = Tail(rx \o fd)
  BY <1>1, <1>2, WireFacts
<1>5. QED
  BY <1>2, <1>3, <1>4

(* A SYN takes a listener of its port, or is refused.                      *)
LEMMA SynKeeps ==
    ASSUME Outer, Inner, poll_frame, Head(rx).kind = "syn"
    PROVE  Outer' /\ Inner'
<1> DEFINE w == rx \o fd
<1>0. TypeIn /\ Bounded /\ TableInv /\ StreamInv
  BY DEF Inner
<1>1. /\ Head(rx) \in Frames /\ 1 \in DOMAIN rx /\ Head(rx) = rx[1] /\ Tail(rx) \in Seq(Frames)
      /\ \A i \in DOMAIN rx' : \E j \in DOMAIN rx : rx'[i] = rx[j]
      /\ w \in Seq(Frames) /\ w # <<>> /\ Head(w) = Head(rx) /\ rx' \o fd' = Tail(w)
  BY PollFacts DEF poll_frame
<1>2. PICK x, p : Head(rx).of = x /\ p = PortOf[x]
  OBVIOUS
<1>3. x \in Conn /\ Head(w) = Frame(x, "syn") /\ p \in Port
  BY <1>1, <1>2, FrameFacts DEF Port
<1>4. free[p] \in 0..LISTENERS_PER_PORT /\ LISTENERS_PER_PORT \in Nat
  BY <1>0, <1>3, GatewayAssumption DEF TypeIn
<1>5. /\ UNCHANGED <<owner, stop, thr, tap, fd, learned, relays, flows, todo, dg>>
      /\ thr = "poll" /\ rx # <<>> /\ rx' = Tail(rx)
      /\ \/ /\ free[p] > 0 /\ OnlyCon(x, [con[x] EXCEPT !.sock = "synrcvd", !.cl = "synack"])
            /\ free' = [free EXCEPT ![p] = @ - 1] /\ pend' = pend \cup {x}
         \/ /\ free[p] = 0 /\ OnlyCon(x, [con[x] EXCEPT !.cl = "refused"])
            /\ UNCHANGED <<free, pend>>
  <2>1. CASE free[p] > 0
    BY <1>2, <1>4, <2>1 DEF poll_frame, gateway
  <2>2. CASE free[p] = 0
    BY <1>2, <1>4, <2>2 DEF poll_frame, gateway
  <2>3. QED
    BY <1>4, <2>1, <2>2
<1>6. con[x] \in Connection /\ StreamOK(x, con[x], w)
  BY <1>0, <1>3 DEF TypeIn, StreamInv
<1> HIDE DEF w
<1>7. PICK q \in Connection :
        /\ OnlyCon(x, q)
        /\ q.sent = con[x].sent /\ q.seen = con[x].seen /\ q.rxb = con[x].rxb
        /\ q.got = con[x].got /\ q.shut = con[x].shut /\ Hosted(q, con[x])
        /\ \/ /\ q.cl = "synack" /\ q.sock = "synrcvd" /\ free[p] > 0
              /\ free' = [free EXCEPT ![p] = @ - 1] /\ pend' = pend \cup {x}
           \/ q.cl = "refused" /\ q.sock = con[x].sock /\ UNCHANGED <<free, pend>>
  <2> DEFINE a == [con[x] EXCEPT !.sock = "synrcvd", !.cl = "synack"]
             b == [con[x] EXCEPT !.cl = "refused"]
  <2>1. /\ a \in Connection /\ a.sent = con[x].sent /\ a.seen = con[x].seen /\ a.rxb = con[x].rxb
        /\ a.got = con[x].got /\ a.shut = con[x].shut /\ Hosted(a, con[x])
        /\ a.cl = "synack" /\ a.sock = "synrcvd"
    BY <1>6 DEF Connection, Hosted
  <2>2. /\ b \in Connection /\ b.sent = con[x].sent /\ b.seen = con[x].seen /\ b.rxb = con[x].rxb
        /\ b.got = con[x].got /\ b.shut = con[x].shut /\ Hosted(b, con[x])
        /\ b.cl = "refused" /\ b.sock = con[x].sock
    BY <1>6 DEF Connection, Hosted
  <2> HIDE DEF a, b
  <2>3. \/ /\ OnlyCon(x, a) /\ free[p] > 0
           /\ free' = [free EXCEPT ![p] = @ - 1] /\ pend' = pend \cup {x}
        \/ OnlyCon(x, b) /\ UNCHANGED <<free, pend>>
    BY <1>5 DEF a, b
  <2>4. QED
    BY <2>1, <2>2, <2>3
<1>8. StreamOK(x, q, Tail(w)) /\ con[x].sock = "none"
  BY <1>1, <1>3, <1>6, <1>7, SynTaken
<1>9. StreamInv'
  BY <1>0, <1>5, <1>2, <1>3, <1>7, <1>8, RecordedTake DEF w
<1>10. /\ con' \in [Conn -> Connection] /\ con'[x] = q
      /\ \A d \in Conn \ {x} : con'[d] = con[d]
  BY <1>0, <1>3, <1>7, NewRecord DEF TypeIn
<1>h. \A d \in Conn : Hosted(con'[d], con[d])
  BY <1>3, <1>7, <1>10 DEF Hosted
<1>11. x \notin pend /\ x \notin flows
  BY <1>0, <1>8 DEF TableInv
<1>12. CASE UNCHANGED <<free, pend>> /\ q.sock = con[x].sock
  <2>1. TypeIn'
    BY <1>0, <1>5, <1>1, <1>10, <1>12 DEF TypeIn
  <2>2. Bounded'
    BY <1>0, <1>5, <1>12 DEF Bounded, Pending, InRelay
  <2>3. \A d \in Conn : con'[d].sock = con[d].sock
    BY <1>10, <1>12
  <2>4. TableInv'
    <3>1. \A c \in Conn \ flows' : con'[c].srv = "none" \/ con'[c].shut \/ con'[c].cut
      BY <1>0, <1>5, <1>h DEF TableInv, Hosted
    <3>2. QED
      BY <1>0, <1>5, <1>1, <1>12, <2>3, <3>1 DEF TableInv, Pending, TypeIn
  <2>5. QED
    BY <1>5, <1>9, <2>1, <2>2, <2>4, OuterSame DEF Inner
<1>13. CASE /\ q.cl = "synack" /\ q.sock = "synrcvd" /\ free[p] > 0
            /\ free' = [free EXCEPT ![p] = @ - 1] /\ pend' = pend \cup {x}
  <2>1. TypeIn'
    <3>1. free' \in [Port -> 0..LISTENERS_PER_PORT]
      BY <1>0, <1>3, <1>4, <1>13 DEF TypeIn
    <3>2. QED
      BY <1>0, <1>5, <1>1, <1>3, <1>10, <1>13, <3>1 DEF TypeIn
  <2>2. Pending(p)' = Pending(p) \cup {x} /\ x \notin Pending(p)
    <3>1. \A c : c \in Pending(p) <=> c \in pend /\ PortOf[c] = p
      BY DEF Pending
    <3>2. \A c : c \in Pending(p)' <=> c \in pend' /\ PortOf[c] = p
      BY DEF Pending
    <3>3. QED
      BY <1>2, <1>11, <1>13, <3>1, <3>2
  <2>3. ASSUME NEW o \in Port, o # p PROVE Pending(o)' = Pending(o) /\ free'[o] = free[o]
    BY <1>0, <1>2, <1>13, <2>3 DEF Pending, TypeIn
  <2>4. /\ IsFiniteSet(Pending(p)) /\ Cardinality(Pending(p)) \in Nat
        /\ Cardinality(Pending(p)') = Cardinality(Pending(p)) + 1
    BY <1>0, <2>2, PendingFinite, FS_AddElement
  <2>5. free'[p] = free[p] - 1
    BY <1>0, <1>3, <1>13 DEF TypeIn
  <2>6. \A o \in Port : free'[o] + Cardinality(Pending(o)') = free[o] + Cardinality(Pending(o))
    <3>1. free'[p] + Cardinality(Pending(p)') = free[p] + Cardinality(Pending(p))
      BY <1>4, <2>4, <2>5
    <3>2. QED
      BY <2>3, <3>1
  <2>7. Bounded'
    BY <1>0, <1>5, <2>6 DEF Bounded, InRelay
  <2>8. TableInv'
    <3>1. \A c \in pend' : con'[c].sock # "none"
      BY <1>0, <1>10, <1>13 DEF TableInv, TypeIn
    <3>2. \A c \in flows' : con'[c].sock \notin {"none", "synrcvd"}
      BY <1>0, <1>5, <1>10, <1>11 DEF TableInv, TypeIn
    <3>3. pend' \cap flows' = {} /\ todo' \subseteq flows'
      BY <1>0, <1>5, <1>11, <1>13 DEF TableInv
    <3>4. \A o \in learned' : free'[o] + Cardinality(Pending(o)') = LISTENERS_PER_PORT
      BY <1>0, <1>5, <2>6 DEF TableInv, TypeIn
    <3>5. \A i \in DOMAIN rx' : rx'[i].kind = "syn" =>
            PortOf[rx'[i].of] \in learned' \/ Cardinality(learned') = MAX_LEARNED_PORTS
      BY <1>0, <1>5, <1>1 DEF TableInv
    <3>6. \A c \in Conn \ flows' : con'[c].srv = "none" \/ con'[c].shut \/ con'[c].cut
      BY <1>0, <1>5, <1>h DEF TableInv, Hosted
    <3>7. QED
      BY <3>1, <3>2, <3>3, <3>4, <3>5, <3>6 DEF TableInv
  <2>9. QED
    BY <1>5, <1>9, <2>1, <2>7, <2>8, OuterSame DEF Inner
<1>14. QED
  BY <1>7, <1>12, <1>13

(* A datagram takes a slot of its relay, or is dropped.                    *)
LEMMA UdpKeeps ==
    ASSUME Outer, Inner, poll_frame, Head(rx).kind = "udp"
    PROVE  Outer' /\ Inner'
<1> DEFINE w == rx \o fd
<1>0. TypeIn /\ Bounded /\ TableInv /\ StreamInv
  BY DEF Inner
<1>1. /\ Head(rx) \in Frames /\ Tail(rx) \in Seq(Frames)
      /\ \A i \in DOMAIN rx' : \E j \in DOMAIN rx : rx'[i] = rx[j]
      /\ w \in Seq(Frames) /\ w # <<>> /\ Head(w) = Head(rx) /\ rx' \o fd' = Tail(w)
  BY PollFacts DEF poll_frame
<1>2. PICK x, p : Head(rx).of = x /\ p = PortOf[x]
  OBVIOUS
<1>3. x \in Dgram /\ x \notin Conn /\ p \in Port
  BY <1>1, <1>2, FrameFacts, GatewayAssumption DEF Port
<1>4. /\ UNCHANGED <<owner, stop, thr, tap, fd, learned, relays, free, pend, flows, todo, con>>
      /\ rx' = Tail(rx) /\ thr = "poll"
      /\ dg' = [dg EXCEPT ![x] = IF p \in relays /\ Cardinality(InRelay(p)) < UDP_RELAY_SLOTS
                                 THEN "relay" ELSE "dropped"]
  BY <1>2 DEF poll_frame, gateway
<1>5. StreamInv'
  <2>1. \A c \in Conn : StreamOK(c, con[c], Tail(w))
    BY <1>0, <1>1, <1>2, <1>3, OtherTaken DEF StreamInv
  <2>2. QED
    BY <1>1, <1>4, <2>1 DEF StreamInv
<1>6. TypeIn'
  BY <1>0, <1>1, <1>3, <1>4 DEF TypeIn
<1>7. TableInv'
  BY <1>0, <1>1, <1>4 DEF TableInv, Pending
<1>8. ASSUME NEW o \in Port PROVE Cardinality(InRelay(o)') <= UDP_RELAY_SLOTS
  <2>0. /\ \A d : d \in InRelay(o)' <=> d \in Dgram /\ dg'[d] = "relay" /\ PortOf[d] = o
        /\ \A d : d \in InRelay(o) <=> d \in Dgram /\ dg[d] = "relay" /\ PortOf[d] = o
    BY DEF InRelay
  <2>1. /\ IsFiniteSet(InRelay(o)) /\ Cardinality(InRelay(o)) \in Nat /\ UDP_RELAY_SLOTS \in Nat
        /\ Cardinality(InRelay(o)) <= UDP_RELAY_SLOTS
    BY <1>0, GatewayAssumption, FS_Subset, FS_CardinalityType DEF Bounded, InRelay
  <2>2. CASE o = p /\ dg'[x] = "relay"
    <3>1. Cardinality(InRelay(o)) < UDP_RELAY_SLOTS
      BY <1>0, <1>3, <1>4, <2>2 DEF TypeIn
    <3>2. InRelay(o)' \in SUBSET (InRelay(o) \cup {x})
      BY <1>0, <1>4, <2>0 DEF TypeIn
    <3>3. /\ IsFiniteSet(InRelay(o) \cup {x})
          /\ Cardinality(InRelay(o) \cup {x}) \in {Cardinality(InRelay(o)), Cardinality(InRelay(o)) + 1}
      BY <2>1, FS_AddElement
    <3>4. /\ Cardinality(InRelay(o)') \in Nat
          /\ Cardinality(InRelay(o)') <= Cardinality(InRelay(o) \cup {x})
      BY <3>2, <3>3, FS_Subset, FS_CardinalityType
    <3>5. QED
      BY <2>1, <3>1, <3>3, <3>4
  <2>3. CASE o # p \/ dg'[x] # "relay"
    <3>1. InRelay(o)' \in SUBSET InRelay(o)
      BY <1>0, <1>2, <1>4, <2>0, <2>3 DEF TypeIn
    <3>2. Cardinality(InRelay(o)') \in Nat /\ Cardinality(InRelay(o)') <= Cardinality(InRelay(o))
      BY <2>1, <3>1, FS_Subset, FS_CardinalityType
    <3>3. QED
      BY <2>1, <3>2
  <2>4. QED
    BY <2>2, <2>3
<1>9. Bounded'
  BY <1>0, <1>4, <1>8 DEF Bounded, Pending
<1>10. QED
  BY <1>4, <1>5, <1>6, <1>7, <1>9, OuterSame DEF Inner

(* What the socket of a connection does with a frame after its SYN.        *)
LEMMA ReceivedFacts ==
    ASSUME NEW r \in Connection, NEW k \in {"ack", "data", "fin"},
           \/ k = "ack" /\ r.sock = "synrcvd"
           \/ k = "data" /\ r.sock \in {"est", "finwait"}
           \/ k = "fin" /\ r.sock \in {"est", "finwait"}
           \/ r.sock = "none"
    PROVE  LET q == Received(r, k)
           IN  /\ q \in Connection /\ Hosted(q, r)
               /\ q.sent = r.sent /\ q.got = r.got /\ q.shut = r.shut
               /\ \/ /\ k = "ack" /\ r.sock = "synrcvd" /\ q.sock = "est" /\ q.cl = r.cl
                     /\ q.rxb = r.rxb /\ q.seen = r.seen
                  \/ /\ k = "data" /\ r.sock \in {"est", "finwait"} /\ q.sock = r.sock /\ q.cl = r.cl
                     /\ q.rxb = r.rxb + 1 /\ q.seen = r.seen + 1
                  \/ /\ k = "fin" /\ r.sock \in {"est", "finwait"} /\ q.sock \in Ended /\ q.cl = r.cl
                     /\ q.rxb = r.rxb /\ q.seen = r.seen
                  \/ r.sock = "none" /\ q.sock = "none" /\ q.cl = "reset"
<1>0. r.rxb + 1 \in Nat /\ r.seen + 1 \in Nat
  BY DEF Connection
<1>1. CASE k = "ack" /\ r.sock = "synrcvd"
  <2>1. Received(r, k) = [r EXCEPT !.sock = "est"]
    BY <1>1 DEF Received
  <2>2. QED
    BY <1>1, <2>1 DEF Connection, Hosted
<1>2. CASE k = "data" /\ r.sock \in {"est", "finwait"}
  <2>1. Received(r, k) = [r EXCEPT !.rxb = @ + 1, !.seen = @ + 1]
    BY <1>2 DEF Received
  <2>2. QED
    BY <1>0, <1>2, <2>1 DEF Connection, Hosted
<1>3. CASE k = "fin" /\ r.sock \in {"est", "finwait"}
  <2>1. \E s \in {"closewait", "closed"} : Received(r, k) = [r EXCEPT !.sock = s]
    BY <1>3 DEF Received
  <2>2. QED
    BY <1>3, <2>1 DEF Connection, Ended, Hosted
<1>4. CASE r.sock = "none"
  <2>1. Received(r, k) = [r EXCEPT !.cl = "reset"]
    BY <1>4 DEF Received
  <2>2. QED
    BY <1>4, <2>1 DEF Connection, Hosted
<1>5. QED
  BY <1>1, <1>2, <1>3, <1>4

(* Any other frame goes to the socket of its connection.                   *)
LEMMA FrameKeeps ==
    ASSUME Outer, Inner, poll_frame, Head(rx).kind \in {"ack", "data", "fin"}
    PROVE  Outer' /\ Inner'
<1> DEFINE w == rx \o fd
<1>0. TypeIn /\ Bounded /\ TableInv /\ StreamInv
  BY DEF Inner
<1>1. /\ Head(rx) \in Frames /\ Tail(rx) \in Seq(Frames)
      /\ \A i \in DOMAIN rx' : \E j \in DOMAIN rx : rx'[i] = rx[j]
      /\ w \in Seq(Frames) /\ w # <<>> /\ Head(w) = Head(rx) /\ rx' \o fd' = Tail(w)
  BY PollFacts DEF poll_frame
<1>2. PICK x, k : Head(rx).of = x /\ k = Head(rx).kind
  OBVIOUS
<1>3. x \in Conn /\ k \in {"ack", "data", "fin"} /\ Head(w) = Frame(x, k)
  BY <1>1, <1>2, FrameFacts
<1>4. /\ UNCHANGED <<owner, stop, thr, tap, fd, learned, relays, free, pend, flows, todo, dg>>
      /\ rx' = Tail(rx) /\ rx # <<>> /\ thr = "poll" /\ OnlyCon(x, Received(con[x], k))
  BY <1>2, <1>3 DEF poll_frame, gateway
<1>5. con[x] \in Connection /\ StreamOK(x, con[x], w)
  BY <1>0, <1>3 DEF TypeIn, StreamInv
<1> HIDE DEF w
<1>6. \/ k = "ack" /\ con[x].sock = "synrcvd"
      \/ k = "data" /\ con[x].sock \in {"est", "finwait"}
      \/ k = "fin" /\ con[x].sock \in {"est", "finwait"}
      \/ con[x].sock = "none"
  BY <1>1, <1>3, <1>5, FrameTaken
<1>7. PICK q \in Connection :
        /\ q = Received(con[x], k) /\ q.sent = con[x].sent /\ q.got = con[x].got
        /\ q.shut = con[x].shut /\ Hosted(q, con[x])
        /\ \/ /\ k = "ack" /\ con[x].sock = "synrcvd" /\ q.sock = "est" /\ q.cl = con[x].cl
              /\ q.rxb = con[x].rxb /\ q.seen = con[x].seen
           \/ /\ k = "data" /\ con[x].sock \in {"est", "finwait"} /\ q.sock = con[x].sock
              /\ q.cl = con[x].cl /\ q.rxb = con[x].rxb + 1 /\ q.seen = con[x].seen + 1
           \/ /\ k = "fin" /\ con[x].sock \in {"est", "finwait"} /\ q.sock \in Ended
              /\ q.cl = con[x].cl /\ q.rxb = con[x].rxb /\ q.seen = con[x].seen
           \/ con[x].sock = "none" /\ q.sock = "none" /\ q.cl = "reset"
  BY <1>3, <1>5, <1>6, ReceivedFacts
<1>8. StreamOK(x, q, Tail(w))
  BY <1>1, <1>3, <1>5, <1>7, StreamTaken
<1>9. StreamInv'
  BY <1>0, <1>2, <1>3, <1>4, <1>7, <1>8, RecordedTake DEF w
<1>10. /\ con' \in [Conn -> Connection] /\ con'[x] = q
       /\ \A d \in Conn \ {x} : con'[d] = con[d]
  BY <1>0, <1>3, <1>4, <1>7, NewRecord DEF TypeIn
<1>11. TypeIn'
  BY <1>0, <1>1, <1>4, <1>10 DEF TypeIn
<1>12. Bounded'
  BY <1>0, <1>4 DEF Bounded, Pending, InRelay
<1>13. TableInv'
  <2>1. ASSUME NEW c \in Conn
        PROVE  /\ con[c].sock # "none" => con'[c].sock # "none"
               /\ Hosted(con'[c], con[c])
               /\ con[c].sock \notin {"none", "synrcvd"} => con'[c].sock \notin {"none", "synrcvd"}
    <3>1. CASE c = x
      BY <1>7, <1>10, <3>1 DEF Ended
    <3>2. CASE c # x
      BY <1>10, <3>2 DEF Hosted
    <3>3. QED
      BY <3>1, <3>2
  <2>2. pend \subseteq Conn /\ flows \subseteq Conn
    BY <1>0 DEF TypeIn
  <2>3. QED
    BY <1>0, <1>1, <1>4, <2>1, <2>2 DEF TableInv, Pending, Hosted
<1>14. QED
  BY <1>4, <1>9, <1>11, <1>12, <1>13, OuterSame DEF Inner

(* The stack takes one frame, whatever it is.                              *)
LEMMA PollKeeps ==
    ASSUME Outer, Inner, poll_frame
    PROVE  Outer' /\ Inner'
<1>1. Head(rx).kind \in {"syn", "ack", "data", "fin", "udp"}
  BY PollFacts, FrameFacts DEF poll_frame
<1>2. QED
  BY <1>1, SynKeeps, UdpKeeps, FrameKeeps

(* The turn goes on once there is nothing more of its kind to do.          *)
LEMMA DoneKeeps ==
    ASSUME Outer, Inner, poll_done \/ promote_done \/ splice_done
    PROVE  Outer' /\ Inner'
<1>1. CASE poll_done \/ splice_done
  BY <1>1, InnerSame, OuterSame DEF poll_done, splice_done, Turn, gateway
<1>2. CASE promote_done
  <2>1. /\ UNCHANGED <<owner, stop, tap, fd, rx, tables, con, dg>> /\ todo' = flows
        /\ thr = "promote" /\ thr' = "splice"
    BY <1>2 DEF promote_done, Turn, gateway
  <2>2. UNCHANGED <<learned, relays, free, pend, flows>>
    BY <2>1 DEF tables
  <2>3. TypeIn'
    BY <2>1, <2>2 DEF Inner, TypeIn
  <2>4. Bounded'
    BY <2>1, <2>2 DEF Inner, Bounded, Pending, InRelay
  <2>5. TableInv'
    BY <2>1, <2>2 DEF Inner, TableInv
  <2>6. StreamInv'
    BY <2>1 DEF Inner, StreamInv
  <2>7. QED
    BY <2>1, <2>3, <2>4, <2>5, <2>6, OuterSame DEF Inner
<1>3. QED
  BY <1>1, <1>2

(* A step that services one connection, and may end its time in the queue  *)
(* of listeners or among the flows.                                        *)
LEMMA ServiceKeeps ==
    ASSUME Outer, Inner, NEW c \in Conn, NEW q \in Connection, OnlyCon(c, q),
           StreamOK(c, q, rx \o fd), thr # "poll",
           UNCHANGED <<owner, stop, thr, tap, fd, rx, learned, relays, free, dg>>,
           pend' \subseteq pend, flows' \subseteq flows \cup {c}, flows \ {c} \subseteq flows',
           todo' \subseteq flows', c \notin flows' => q.srv = "none" \/ q.shut \/ q.cut,
           pend' \cap flows' = {},
           c \notin pend', c \in flows' => q.sock \notin {"none", "synrcvd"}
    PROVE  Outer' /\ Inner'
<1>0. TypeIn /\ Bounded /\ TableInv /\ StreamInv
  BY DEF Inner
<1>1. /\ con' \in [Conn -> Connection] /\ con'[c] = q
      /\ \A d \in Conn \ {c} : con'[d] = con[d]
  BY <1>0, NewRecord DEF TypeIn
<1>2. StreamInv'
  BY <1>0, Recorded
<1>3. TypeIn'
  BY <1>0, <1>1 DEF TypeIn
<1>4. ASSUME NEW p \in Port
      PROVE  free'[p] + Cardinality(Pending(p)') <= LISTENERS_PER_PORT
  <2>1. Pending(p)' \in SUBSET Pending(p)
    BY DEF Pending
  <2>2. /\ IsFiniteSet(Pending(p)) /\ Cardinality(Pending(p)) \in Nat
        /\ free[p] + Cardinality(Pending(p)) <= LISTENERS_PER_PORT
        /\ free[p] \in Nat /\ LISTENERS_PER_PORT \in Nat
    BY <1>0, PendingFinite, GatewayAssumption DEF Bounded, TypeIn
  <2>3. /\ Cardinality(Pending(p)') <= Cardinality(Pending(p))
        /\ Cardinality(Pending(p)') \in Nat
    BY <2>1, <2>2, FS_Subset, FS_CardinalityType
  <2>4. QED
    BY <2>2, <2>3
<1>5. Bounded'
  BY <1>0, <1>4 DEF Bounded, InRelay
<1>6. TableInv'
  BY <1>0, <1>1 DEF TableInv, TypeIn
<1>7. QED
  BY <1>2, <1>3, <1>5, <1>6, OuterSame DEF Inner

(* A listener becomes a flow or gives up its socket.                       *)
LEMMA PromoteKeeps ==
    ASSUME Outer, Inner, NEW c \in Conn, NEW ok \in BOOLEAN, promote(c, ok)
    PROVE  Outer' /\ Inner'
<1>0. con[c] \in Connection /\ StreamOK(c, con[c], rx \o fd) /\ TableInv
  BY DEF Inner, TypeIn, StreamInv
<1>1. /\ UNCHANGED <<owner, stop, thr, tap, fd, rx, learned, relays, free, todo, dg>>
      /\ thr = "promote" /\ pend' = pend \ {c} /\ c \in pend /\ con[c].sock = "est"
  BY DEF promote, gateway, Promotable
<1>2. /\ c \notin flows /\ todo \subseteq flows /\ pend \cap flows = {}
      /\ con[c].srv = "none" \/ con[c].shut \/ con[c].cut
  BY <1>0, <1>1 DEF TableInv
<1>3. ~con[c].shut
  BY <1>0, <1>1 DEF StreamOK, Balanced, Ended
<1>4. CASE open_host_tcp(c, ok)
  <2> DEFINE q == [con[c] EXCEPT !.srv = "open"]
  <2>1. /\ q \in Connection /\ q.cl = con[c].cl /\ q.sent = con[c].sent /\ q.seen = con[c].seen
        /\ q.rxb = con[c].rxb /\ q.got = con[c].got /\ q.shut = con[c].shut /\ q.sock = con[c].sock
    BY <1>0 DEF Connection
  <2>2. OnlyCon(c, q) /\ flows' = flows \cup {c}
    BY <1>4 DEF promote
  <2> HIDE DEF q
  <2>3. StreamOK(c, q, rx \o fd)
    BY <1>0, <1>3, <2>1, Quiet
  <2>4. QED
    BY <1>1, <1>2, <2>1, <2>2, <2>3, ServiceKeeps
<1>5. CASE ~open_host_tcp(c, ok)
  <2> DEFINE q == [con[c] EXCEPT !.sock = "none"]
  <2>1. /\ q \in Connection /\ q.cl = con[c].cl /\ q.sent = con[c].sent /\ q.seen = con[c].seen
        /\ q.shut = con[c].shut /\ q.sock = "none" /\ q.srv = con[c].srv /\ q.cut = con[c].cut
    BY <1>0 DEF Connection
  <2>2. OnlyCon(c, q) /\ flows' = flows
    BY <1>5 DEF promote
  <2> HIDE DEF q
  <2>3. StreamOK(c, q, rx \o fd)
    BY <1>0, <1>1, <1>3, <2>1, Quiet
  <2>4. QED
    BY <1>1, <1>2, <2>1, <2>2, <2>3, ServiceKeeps
<1>6. QED
  BY <1>4, <1>5

(* A flow is spliced, reaped or given up.                                  *)
LEMMA SpliceKeeps ==
    ASSUME Outer, Inner, NEW c \in Conn, splice_tcp(c) \/ \E n \in 0..MaxBytes[c] : splice_fails(c, n)
    PROVE  Outer' /\ Inner'
<1>0. con[c] \in Connection /\ StreamOK(c, con[c], rx \o fd) /\ TableInv
  BY DEF Inner, TypeIn, StreamInv
<1>1. /\ UNCHANGED <<owner, stop, thr, tap, fd, rx, learned, relays, free, pend, dg>>
      /\ thr = "splice" /\ todo' = todo \ {c} /\ c \in todo
      /\ flows' \subseteq flows /\ flows \ {c} \subseteq flows'
  BY DEF splice_tcp, splice_fails, gateway
<1>2. /\ c \in flows /\ c \notin pend /\ todo' \subseteq flows' /\ pend' \cap flows' = {}
      /\ con[c].sock \notin {"none", "synrcvd"}
  BY <1>0, <1>1 DEF TableInv
<1>3. /\ con[c].shut => con[c].sock \in Ended /\ con[c].rxb = 0
      /\ con[c].cl \notin {"idle", "syn"}
      /\ con[c].sock \in Ended \cup {"est", "finwait"}
  <2>1. con[c].sock \in {"none", "synrcvd", "est", "closewait", "finwait", "lastack", "closed"}
    BY <1>0 DEF Connection
  <2>2. QED
    BY <1>0, <1>2, <2>1 DEF StreamOK, Balanced, Ended
<1>4. CASE splice_tcp(c)
  <2> DEFINE q == Spliced(con[c])
  <2>1. /\ q \in Connection
        /\ q.cl = con[c].cl /\ q.sent = con[c].sent /\ q.seen = con[c].seen
        /\ q.got = con[c].got + con[c].rxb /\ q.rxb = 0
        /\ \/ q.sock = con[c].sock
           \/ con[c].sock = "est" /\ q.sock = "finwait"
           \/ con[c].sock = "closewait" /\ q.sock = "lastack"
        /\ q.shut => con[c].shut \/ q.sock \notin {"est", "finwait"}
        /\ q.sock \notin {"est", "finwait"} => q.shut
    BY <1>0, SplicedFacts
  <2>2. OnlyCon(c, q) /\ (c \notin flows' => q.sock = "closed")
    BY <1>2, <1>4 DEF splice_tcp
  <2> HIDE DEF q
  <2>3. /\ q.got + q.rxb = con[c].got + con[c].rxb
        /\ q.sock \notin {"none", "synrcvd"}
    BY <1>0, <1>2, <2>1 DEF Connection
  <2>4. q.shut => q.sock \in Ended
    BY <1>3, <2>1 DEF Ended
  <2>5. con[c].sock = "closewait" => con[c].sock \in Ended
    BY DEF Ended
  <2>6. q.sock = "lastack" => q.sock \in Ended
    BY DEF Ended
  <2>7. StreamOK(c, q, rx \o fd)
    BY <1>0, <1>3, <2>1, <2>3, <2>4, <2>5, <2>6, Quiet
  <2>8. QED
    BY <1>1, <1>2, <2>1, <2>2, <2>3, <2>7, ServiceKeeps
<1>5. ASSUME NEW n \in 0..MaxBytes[c], splice_fails(c, n) PROVE Outer' /\ Inner'
  <2> DEFINE q == [con[c] EXCEPT !.sock = "none", !.srv = "eof", !.got = @ + n, !.rxb = 0,
                                 !.cut = TRUE]
  <2>0. n \in Nat /\ con[c].got + n \in Nat
    BY <1>0, GatewayAssumption DEF Connection
  <2>1. /\ q \in Connection /\ q.cl = con[c].cl /\ q.sent = con[c].sent /\ q.seen = con[c].seen
        /\ q.shut = con[c].shut /\ q.sock = "none" /\ q.cut
    BY <1>0, <2>0 DEF Connection
  <2>2. OnlyCon(c, q) /\ c \notin flows' /\ n < con[c].rxb
    BY <1>5 DEF splice_fails
  <2> HIDE DEF q
  <2>3. ~q.shut
    BY <1>0, <1>3, <2>0, <2>1, <2>2 DEF Connection
  <2>4. StreamOK(c, q, rx \o fd)
    BY <1>0, <1>2, <1>3, <2>1, <2>3, Quiet
  <2>5. QED
    BY <1>1, <1>2, <2>1, <2>2, <2>4, ServiceKeeps
<1>6. QED
  BY <1>4, <1>5

----------------------------------------------------------------------------
(* The gateway before its network has been set up.                         *)
LEMMA GatewayInit == Init => GatewayInv
<1> SUFFICES ASSUME Init PROVE Outer /\ Inner
  BY InvParts
<1>1. Outer
  BY DEF Init, Outer, TypeOwn, OwnerInv, NetOutlivesGateway, Running
<1>2. Closed0 \in Connection
  BY GatewayAssumption DEF Connection, Closed0
<1>3. TypeIn
  BY <1>2, GatewayAssumption DEF Init, TypeIn
<1>4. Bounded
  <2>1. \A p \in Port : Pending(p) = {} /\ InRelay(p) = {}
    BY DEF Init, Pending, InRelay
  <2>2. Cardinality({}) = 0
    BY FS_EmptySet
  <2>3. {LISTENERS_PER_PORT, MAX_LEARNED_PORTS, UDP_RELAY_SLOTS} \subseteq Nat
    BY GatewayAssumption
  <2>4. \A p \in Port : free[p] + Cardinality(Pending(p)) = 0 /\ Cardinality(InRelay(p)) = 0
    <3>1. \A p \in Port : free[p] = 0
      BY DEF Init
    <3>2. QED
      BY <2>1, <2>2, <3>1
  <2>5. QED
    BY <2>2, <2>3, <2>4 DEF Init, Bounded
<1>5. TableInv
  BY DEF Init, TableInv, Closed0
<1>6. StreamInv
  <2>1. rx \o fd = <<>> /\ DOMAIN (rx \o fd) = {}
    BY DEF Init
  <2>2. \A c \in Conn : con[c] = Closed0
    BY DEF Init
  <2>3. ASSUME NEW c \in Conn PROVE StreamOK(c, Closed0, rx \o fd)
    BY <2>1 DEF StreamOK, SynAlone, AckFirst, FinLast, Balanced, Closed0, Receiving, Ended
  <2>4. QED
    BY <2>2, <2>3 DEF StreamInv
<1>7. QED
  BY <1>1, <1>3, <1>4, <1>5, <1>6 DEF Inner

(* One step of anyone.                                                     *)
LEMMA GatewayStep == GatewayInv /\ [Next]_vars => GatewayInv'
<1>0. SUFFICES Outer /\ Inner /\ [Next]_vars => Outer' /\ Inner'
  BY InvParts, PTL
<1> SUFFICES ASSUME Outer, Inner, [Next]_vars PROVE Outer' /\ Inner'
  OBVIOUS
<1>1. CASE Owner \/ crash
  BY <1>1, OwnerKeeps
<1>2. CASE Container
  BY <1>2, EmitKeeps, QueryKeeps DEF Container
<1>3. CASE Kernel
  BY <1>3, EmitKeeps, ReadKeeps DEF Kernel
<1>4. CASE Server
  BY <1>4, ReadKeeps, DatagramKeeps DEF Server
<1>5. CASE Thread
  BY <1>5, LoopKeeps, FillKeeps, LearnKeeps, PollKeeps, DoneKeeps, PromoteKeeps, SpliceKeeps,
     DatagramKeeps DEF Thread
<1>6. CASE UNCHANGED vars
  BY <1>6, InnerSame, OuterSame DEF vars, inside, tables, owner
<1>7. QED
  BY <1>1, <1>2, <1>3, <1>4, <1>5, <1>6 DEF Next

(***************************************************************************)
(* The thread works only in a namespace that exists and is gone with its   *)
(* owner, what the stack holds stays within its limits, every stream is in *)
(* order up to the stack, and a server to which no write has failed reads  *)
(* the container's end of stream after all of its bytes, for any step, any *)
(* policy and any limits (gateway.rs step, splice_tcp, rootless_net.rs     *)
(* RootlessNet).                                                           *)
(***************************************************************************)
THEOREM GatewaySafe == Spec => []GatewayInv
BY GatewayInit, GatewayStep, PTL DEF Spec

(* A denied destination has no flow because no flow is opened for it, and  *)
(* only flows are serviced.                                                *)
LEMMA PolicedStep ==
    ASSUME GatewayInv, Policed, [Next]_vars
    PROVE  Policed'
<1>0. /\ con \in [Conn -> Connection] /\ todo \subseteq flows
      /\ dg \in [Dgram -> {"idle", "sent", "relay", "dropped", "flow", "refused", "answered", "replied"}]
  BY DEF GatewayInv, TypeOK, TableInv
<1>1. ASSUME NEW c \in Conn, c \in Denied
      PROVE  con'[c].srv = "none" /\ c \notin flows' /\ con'[c].got = 0
  <2>0. con[c].srv = "none" /\ c \notin flows /\ con[c].got = 0 /\ c \notin todo
    BY <1>0, <1>1 DEF Policed
  <2>1. ASSUME NEW d \in Conn, d # c, NEW q, OnlyCon(d, q) PROVE con'[c] = con[c]
    BY <1>0, <2>1 DEF OnlyCon
  <2>2. CASE Owner \/ crash \/ UNCHANGED vars
    <3>1. UNCHANGED <<con, flows>>
      BY <2>2 DEF Owner, crash, vars, create_netns, bind_mount_netns, setup_native, setup_pasta,
         setup_none, drop_pasta, drop_native, drop_none, join_native, drop_netns, inside, tables
    <3>2. QED
      BY <2>0, <3>1
  <2>3. CASE Container \/ Kernel \/ Server
    <3>1. ASSUME NEW d \in Conn,
                 \/ dial(d) \/ write(d) \/ acknowledge(d) \/ finish(d) \/ read(d) \/ last_ack(d)
                 \/ respond(d) \/ hang_up(d)
          PROVE  con'[c].srv = "none" /\ c \notin flows' /\ con'[c].got = 0
      <4>1. UNCHANGED flows
        BY <3>1 DEF dial, write, acknowledge, finish, read, last_ack, respond, hang_up, container,
           server, tables
      <4>2. CASE d # c
        <5>1. \E q : OnlyCon(d, q)
          BY <3>1 DEF dial, write, acknowledge, finish, read, last_ack, respond, hang_up
        <5>2. QED
          BY <2>0, <2>1, <4>1, <4>2, <5>1
      <4>3. CASE d = c
        <5>1. con'[c].srv = con[c].srv /\ con'[c].got = con[c].got
          BY <1>0, <2>0, <3>1, <4>3 DEF dial, write, acknowledge, finish, read, last_ack, respond,
             hang_up, OnlyCon, Connection
        <5>2. QED
          BY <2>0, <4>1, <5>1
      <4>4. QED
        BY <4>2, <4>3
    <3>2. CASE \E d \in Dgram : query(d) \/ answer(d)
      BY <2>0, <3>2 DEF query, answer, server, tables
    <3>3. QED
      BY <2>3, <3>1, <3>2 DEF Container, Kernel, Server
  <2>4. CASE Thread
    <3>1. CASE \/ \E ok \in BOOLEAN : new_gateway(ok)
               \/ fill_rx \/ learn_ports \/ poll_done \/ promote_done \/ splice_done
               \/ \E d \in Dgram, ok \in BOOLEAN : forward_udp(d, ok)
               \/ pump_udp \/ run_until
      <4>1. UNCHANGED <<con, flows>>
        BY <3>1 DEF new_gateway, fill_rx, learn_ports, poll_done, promote_done, splice_done,
           forward_udp, pump_udp, run_until, inside, tables
      <4>2. QED
        BY <2>0, <4>1
    <3>2. CASE poll_frame
      <4>1. \/ UNCHANGED con
            \/ \E d : \/ OnlyCon(d, [con[d] EXCEPT !.sock = "synrcvd", !.cl = "synack"])
                      \/ OnlyCon(d, [con[d] EXCEPT !.cl = "refused"])
                      \/ \E k : OnlyCon(d, Received(con[d], k))
        BY <3>2 DEF poll_frame
      <4>2. UNCHANGED flows
        BY <3>2 DEF poll_frame
      <4>3. \A k : /\ Received(con[c], k).srv = con[c].srv
                   /\ Received(con[c], k).got = con[c].got
        BY <1>0 DEF Received, Connection
      <4>4. con'[c].srv = con[c].srv /\ con'[c].got = con[c].got
        <5>1. con[c] \in Connection
          BY <1>0
        <5>2. CASE UNCHANGED con
          BY <5>2
        <5>3. ASSUME NEW d, NEW q, OnlyCon(d, q), d = c => q.srv = con[c].srv /\ q.got = con[c].got
              PROVE  con'[c].srv = con[c].srv /\ con'[c].got = con[c].got
          BY <1>0, <5>3 DEF OnlyCon
        <5>4. /\ [con[c] EXCEPT !.sock = "synrcvd", !.cl = "synack"].srv = con[c].srv
              /\ [con[c] EXCEPT !.sock = "synrcvd", !.cl = "synack"].got = con[c].got
              /\ [con[c] EXCEPT !.cl = "refused"].srv = con[c].srv
              /\ [con[c] EXCEPT !.cl = "refused"].got = con[c].got
          BY <5>1 DEF Connection
        <5>5. QED
          BY <4>1, <4>3, <5>2, <5>3, <5>4
      <4>5. QED
        BY <2>0, <4>2, <4>4
    <3>3. ASSUME NEW d \in Conn, NEW ok \in BOOLEAN, promote(d, ok)
          PROVE  con'[c].srv = "none" /\ c \notin flows' /\ con'[c].got = 0
      <4>1. CASE d # c
        <5>1. (\E q : OnlyCon(d, q)) /\ flows' \subseteq flows \cup {d}
          BY <3>3 DEF promote
        <5>2. QED
          BY <2>0, <2>1, <4>1, <5>1
      <4>2. CASE d = c
        <5>1. OnlyCon(c, [con[c] EXCEPT !.sock = "none"]) /\ UNCHANGED flows
          BY <1>1, <3>3, <4>2 DEF promote, open_host_tcp, check
        <5>2. con'[c].srv = con[c].srv /\ con'[c].got = con[c].got
          BY <1>0, <5>1 DEF OnlyCon, Connection
        <5>3. QED
          BY <2>0, <5>1, <5>2
      <4>3. QED
        BY <4>1, <4>2
    <3>4. ASSUME NEW d \in Conn, splice_tcp(d) \/ \E n \in 0..MaxBytes[d] : splice_fails(d, n)
          PROVE  con'[c].srv = "none" /\ c \notin flows' /\ con'[c].got = 0
      <4>1. (\E q : OnlyCon(d, q)) /\ flows' \subseteq flows /\ d \in todo
        BY <3>4 DEF splice_tcp, splice_fails
      <4>2. QED
        BY <2>0, <2>1, <4>1
    <3>5. QED
      BY <2>4, <3>1, <3>2, <3>3, <3>4 DEF Thread
  <2>5. QED
    BY <2>2, <2>3, <2>4 DEF Next
<1>2. ASSUME NEW d \in Dgram, d \in Denied
      PROVE  dg'[d] \notin {"flow", "answered", "replied"}
  <2>0. dg[d] \notin {"flow", "answered", "replied"}
    BY <1>2 DEF Policed
  <2>1. CASE Owner \/ crash \/ UNCHANGED vars
    <3>1. UNCHANGED dg
      BY <2>1 DEF Owner, crash, vars, create_netns, bind_mount_netns, setup_native, setup_pasta,
         setup_none, drop_pasta, drop_native, drop_none, join_native, drop_netns, inside
    <3>2. QED
      BY <2>0, <3>1
  <2>2. CASE Container \/ Kernel
    <3>1. UNCHANGED dg \/ \E x \in Dgram : dg' = [dg EXCEPT ![x] = "sent"]
      BY <2>2 DEF Container, Kernel, dial, write, acknowledge, finish, read, last_ack, query, container
    <3>2. QED
      BY <1>0, <2>0, <3>1
  <2>3. CASE Server
    <3>1. UNCHANGED dg \/ \E x \in Dgram : dg[x] = "flow" /\ dg' = [dg EXCEPT ![x] = "answered"]
      BY <2>3 DEF Server, respond, hang_up, answer
    <3>2. QED
      BY <1>0, <2>0, <3>1
  <2>4. CASE Thread
    <3>1. \/ UNCHANGED dg
          \/ \E x : dg' = [dg EXCEPT ![x] = "relay"] \/ dg' = [dg EXCEPT ![x] = "dropped"]
          \/ \E x \in Dgram, ok \in BOOLEAN :
                dg' = [dg EXCEPT ![x] = IF check(x) /\ ok THEN "flow" ELSE "refused"]
          \/ dg' = [x \in Dgram |-> IF dg[x] = "answered" THEN "replied" ELSE dg[x]]
      <4>1. CASE poll_frame
        BY <4>1 DEF poll_frame
      <4>2. CASE ~poll_frame
        BY <2>4, <4>2 DEF Thread, new_gateway, fill_rx, learn_ports, poll_done, promote,
           promote_done, splice_tcp, splice_fails, splice_done, forward_udp, pump_udp, run_until,
           inside
      <4>3. QED
        BY <4>1, <4>2
    <3>2. QED
      BY <1>0, <1>2, <2>0, <3>1 DEF check
  <2>5. QED
    BY <2>1, <2>2, <2>3, <2>4 DEF Next
<1>3. QED
  BY <1>1, <1>2 DEF Policed

(***************************************************************************)
(* No connection and no datagram to a destination that the policy denies   *)
(* is ever re-originated from the host, whichever listener or relay took   *)
(* it and however the thread's turns interleave with the container and the *)
(* servers (gateway.rs open_host_tcp, forward_udp).                        *)
(***************************************************************************)
THEOREM OnlyAllowedLeaves == Spec => []Policed
<1>1. Init => Policed
  BY DEF Init, Policed, Closed0
<1>2. QED
  BY <1>1, GatewaySafe, PolicedStep, PTL DEF Spec

(* Nobody but the stack refuses a connection,                              *)
LEMMA OnlyPollRefuses ==
    ASSUME con \in [Conn -> Connection], Next, NEW c \in Conn,
           con[c].cl # "refused", con'[c].cl = "refused"
    PROVE  poll_frame
<1> SUFFICES ASSUME ~poll_frame PROVE FALSE
  OBVIOUS
<1>0. ASSUME NEW d \in Conn, \E q : OnlyCon(d, q) PROVE d = c
  BY <1>0 DEF OnlyCon
<1>1. CASE Owner \/ crash
  BY <1>1 DEF Owner, crash, create_netns, bind_mount_netns, setup_native, setup_pasta,
     setup_none, drop_pasta, drop_native, drop_none, join_native, drop_netns, inside
<1>2. CASE Container \/ Kernel \/ Server
  <2>1. ASSUME NEW d \in Conn,
               \/ dial(d) \/ write(d) \/ acknowledge(d) \/ finish(d) \/ read(d) \/ last_ack(d)
               \/ respond(d) \/ hang_up(d)
        PROVE  FALSE
    <3>1. d = c
      BY <1>0, <2>1 DEF dial, write, acknowledge, finish, read, last_ack, respond, hang_up
    <3>2. \/ con'[c] = [con[c] EXCEPT !.cl = "syn"] \/ con'[c] = [con[c] EXCEPT !.cl = "est"]
          \/ con'[c] = [con[c] EXCEPT !.cl = "fin"] \/ con'[c] = [con[c] EXCEPT !.sent = @ + 1]
          \/ con'[c] = [con[c] EXCEPT !.tx = @ - 1] \/ con'[c] = [con[c] EXCEPT !.sock = "closed"]
          \/ con'[c] = [con[c] EXCEPT !.out = @ + 1, !.hp = @ + 1]
          \/ con'[c] = [con[c] EXCEPT !.srv = "eof"]
      BY <2>1, <3>1 DEF dial, write, acknowledge, finish, read, last_ack, respond, hang_up, OnlyCon
    <3>3. con[c] \in Connection
      OBVIOUS
    <3>4. QED
      BY <3>2, <3>3 DEF Connection
  <2>2. CASE \E d \in Dgram : query(d) \/ answer(d)
    BY <2>2 DEF query, answer
  <2>3. QED
    BY <1>2, <2>1, <2>2 DEF Container, Kernel, Server
<1>3. CASE Thread
  <2>1. ASSUME NEW d \in Conn,
               \/ \E ok \in BOOLEAN : promote(d, ok)
               \/ splice_tcp(d) \/ \E n \in 0..MaxBytes[d] : splice_fails(d, n)
        PROVE  FALSE
    <3>1. d = c
      BY <1>0, <2>1 DEF promote, splice_tcp, splice_fails
    <3>2. Spliced(con[c]).cl = con[c].cl
      BY SplicedFacts
    <3>3. \/ con'[c] = [con[c] EXCEPT !.srv = "open"] \/ con'[c] = [con[c] EXCEPT !.sock = "none"]
          \/ con'[c] = Spliced(con[c])
          \/ \E n \in 0..MaxBytes[c] :
                con'[c] = [con[c] EXCEPT !.sock = "none", !.srv = "eof", !.got = @ + n, !.rxb = 0,
                                         !.cut = TRUE]
      <4>1. CASE splice_tcp(c) \/ \E ok \in BOOLEAN : promote(c, ok)
        BY <4>1 DEF promote, splice_tcp, OnlyCon
      <4>2. ASSUME NEW n \in 0..MaxBytes[c], splice_fails(c, n)
            PROVE  con'[c] = [con[c] EXCEPT !.sock = "none", !.srv = "eof", !.got = @ + n, !.rxb = 0,
                                            !.cut = TRUE]
        BY <4>2 DEF splice_fails, OnlyCon
      <4>3. QED
        BY <2>1, <3>1, <4>1, <4>2
    <3>4. con[c] \in Connection
      OBVIOUS
    <3>5. QED
      BY <3>2, <3>3, <3>4 DEF Connection
  <2>2. CASE \/ \E ok \in BOOLEAN : new_gateway(ok)
             \/ fill_rx \/ learn_ports \/ poll_done \/ promote_done \/ splice_done
             \/ \E d \in Dgram, ok \in BOOLEAN : forward_udp(d, ok)
             \/ pump_udp \/ run_until
    <3>1. UNCHANGED con
      BY <2>2 DEF new_gateway, fill_rx, learn_ports, poll_done, promote_done, splice_done,
         forward_udp, pump_udp, run_until, inside
    <3>2. QED
      BY <3>1
  <2>3. QED
    BY <1>3, <2>1, <2>2 DEF Thread
<1>4. QED
  BY <1>1, <1>2, <1>3 DEF Next

(* ... and it refuses a SYN that finds no listener free.                   *)
LEMMA RefusedSyn ==
    ASSUME Inner, poll_frame, NEW c \in Conn,
           con[c].cl # "refused", con'[c].cl = "refused"
    PROVE  Head(rx).of = c /\ Head(rx).kind = "syn" /\ free[PortOf[c]] = 0
<1>0. con \in [Conn -> Connection] /\ Head(rx) \in Frames
  BY PollFacts DEF poll_frame, Inner, TypeIn
<1>1. PICK x, k : Head(rx).of = x /\ k = Head(rx).kind
  OBVIOUS
<1>2. \/ UNCHANGED con
      \/ OnlyCon(x, [con[x] EXCEPT !.sock = "synrcvd", !.cl = "synack"])
      \/ /\ OnlyCon(x, [con[x] EXCEPT !.cl = "refused"])
         /\ k = "syn" /\ free[PortOf[x]] = 0
      \/ OnlyCon(x, Received(con[x], k))
  BY <1>1 DEF poll_frame
<1>3. x = c
  BY <1>0, <1>2 DEF OnlyCon
<1>4. Received(con[c], k).cl # "refused"
  BY <1>0 DEF Received, Connection
<1>5. QED
  BY <1>0, <1>1, <1>2, <1>3, <1>4 DEF OnlyCon, Connection

(***************************************************************************)
(* A connection is refused only at a limit: its port is not among the      *)
(* learned ones and no more can be learned, or as many connections as the  *)
(* port has listeners wait ahead of it.  The first dial to a port is never *)
(* lost to the port being unknown (gateway.rs step: learn_ports, then      *)
(* poll).                                                                  *)
(***************************************************************************)
THEOREM RefusedAtLimitOnly == Spec => RefusedOnlyWhenFull
<1> DEFINE Full(c) == LET p == PortOf[c]
                      IN  \/ p \notin learned /\ Cardinality(learned) = MAX_LEARNED_PORTS
                          \/ Cardinality(Pending(p)) = LISTENERS_PER_PORT
           Rare == \A c \in Conn : con[c].cl # "refused" /\ con'[c].cl = "refused" => Full(c)
<1>1. ASSUME GatewayInv, Next PROVE Rare
  <2> SUFFICES ASSUME NEW c \in Conn, con[c].cl # "refused", con'[c].cl = "refused" PROVE Full(c)
    OBVIOUS
  <2>0. Inner /\ con \in [Conn -> Connection] /\ rx \in Seq(Frames)
    BY <1>1, InvParts DEF GatewayInv, TypeOK
  <2>1. poll_frame
    BY <1>1, <2>0, OnlyPollRefuses
  <2>2. /\ Head(rx) \in Frames /\ Head(rx) = rx[1] /\ 1 \in DOMAIN rx
    BY <2>0, <2>1, PollFacts DEF poll_frame
  <2>3. Head(rx).of = c /\ Head(rx).kind = "syn" /\ free[PortOf[c]] = 0
    BY <1>1, <2>0, <2>1, <2>2, RefusedSyn
  <2>4. TableInv /\ thr = "poll"
    BY <2>0, <2>1 DEF Inner, poll_frame
  <2>5. \/ PortOf[c] \notin learned /\ Cardinality(learned) = MAX_LEARNED_PORTS
        \/ PortOf[c] \in learned
    BY <2>2, <2>3, <2>4 DEF TableInv
  <2>6. PortOf[c] \in learned => Cardinality(Pending(PortOf[c])) = LISTENERS_PER_PORT
    <3>1. Cardinality(Pending(PortOf[c])) \in Nat
      BY <2>0, PendingFinite DEF Inner
    <3>2. QED
      BY <2>3, <2>4, <3>1 DEF TableInv
  <2>7. QED
    BY <2>5, <2>6
<1>2. ASSUME UNCHANGED vars PROVE UNCHANGED con
  BY <1>2 DEF vars
<1>3. GatewayInv /\ [Next]_vars => [Rare]_vars
  BY <1>1
<1>4. RefusedOnlyWhenFull <=> [][Rare]_vars
  BY DEF RefusedOnlyWhenFull
<1> HIDE DEF Rare
<1>5. QED
  BY <1>3, <1>4, GatewaySafe, PTL DEF Spec

=============================================================================
