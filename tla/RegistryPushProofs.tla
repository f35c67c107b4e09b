------------------------- MODULE RegistryPushProofs -------------------------
(* The registry stays closed under pushes, for any number of processes,    *)
(* references and images, any damage to the layout and any loss of         *)
(* answers.                                                                *)
EXTENDS RegistryPush, SequenceTheorems, TLAPS

Task == [do : {"tree", "blob", "put"}, of : Digest]

(* What a walk w may consist of while the registry has h; a push of an     *)
(* image or an index sends no artifact.                                    *)
WalkSound(w, h, image) ==
    \A i \in DOMAIN w :
        /\ w[i].do = "blob" => w[i].of \notin Manifest
        /\ w[i].do # "blob" => w[i].of \in Manifest
        /\ w[i].do # "blob" /\ image => w[i].of \in Index \cup Image
        /\ w[i].do = "put" =>
             \A e \in Range(Content(w[i].of)) :
                 e \in h \/ \E j \in 1..(i - 1) : w[j].of = e

(* A walk that sends d, unless the registry has it.                        *)
Sends(w, h, d) == d \in h \/ \E i \in DOMAIN w : w[i].of = d

(* An index consists of images, and everything else of what is not a       *)
(* manifest.                                                               *)
LEMMA ContentType ==
    ASSUME NEW m \in Manifest
    PROVE  /\ Content(m) \in Seq(Digest)
           /\ m \in Index => Range(Content(m)) \subseteq Image
           /\ m \notin Index => Range(Content(m)) \subseteq Digest \ Manifest
<1>1. CASE m \in Artifact
  <2>1. Content(m) = <<Empty, Payload(m)>> /\ m \notin Index
    BY <1>1, PushAssumption DEF Content
  <2>2. Empty \in Digest \ Manifest /\ Payload(m) \in Digest \ Manifest
    BY <1>1, PushAssumption DEF Digest
  <2>3. QED
    BY <2>1, <2>2 DEF Range
<1>2. CASE m \in Index \cup Image
  <2>1. Content(m) = Parts[m] /\ Parts[m] \in Seq(Image \cup Leaf)
    BY <1>2, PushAssumption DEF Content
  <2>2. Image \cup Leaf \subseteq Digest /\ Leaf \subseteq Digest \ Manifest
    BY PushAssumption DEF Digest, Manifest
  <2>3. QED
    BY <1>2, <2>1, <2>2, PushAssumption, SeqMonotonic
<1>3. QED
  BY <1>1, <1>2 DEF Manifest

(* The tree of a manifest is made of digests.                              *)
LEMMA TreeType ==
    ASSUME NEW m \in Manifest
    PROVE  Tree(m) \subseteq Digest
<1>1. \A x \in Manifest : Range(Content(x)) \subseteq Digest
  BY ContentType DEF Digest, Manifest
<1>2. QED
  BY <1>1 DEF Tree, Digest

(* push_manifest_tree: the parts of a manifest, then the manifest.         *)
LEMMA TasksAre ==
    ASSUME NEW m \in Manifest
    PROVE  /\ Len(Content(m)) \in Nat
           /\ Tasks(m) \in Seq(Task)
           /\ Len(Tasks(m)) = Len(Content(m)) + 1
           /\ \A i \in 1..Len(Content(m)) :
                /\ Tasks(m)[i].do = (IF m \in Index THEN "tree" ELSE "blob")
                /\ Tasks(m)[i].of = Content(m)[i]
           /\ Tasks(m)[Len(Content(m)) + 1] = [do |-> "put", of |-> m]
<1> DEFINE n == Len(Content(m))
           ps == [i \in DOMAIN Content(m) |->
                    [do |-> IF m \in Index THEN "tree" ELSE "blob", of |-> Content(m)[i]]]
           last == <<[do |-> "put", of |-> m]>>
<1>1. Content(m) \in Seq(Digest) /\ n \in Nat /\ DOMAIN Content(m) = 1..n
  BY ContentType, LenProperties
<1>2. ps \in Seq(Task) /\ Len(ps) = n
  <2>1. \A i \in 1..n : Content(m)[i] \in Digest
    BY <1>1, ElementOfSeq
  <2>2. ps = [i \in 1..n |->
                [do |-> IF m \in Index THEN "tree" ELSE "blob", of |-> Content(m)[i]]]
    BY <1>1
  <2>3. \A i \in 1..n : [do |-> IF m \in Index THEN "tree" ELSE "blob", of |-> Content(m)[i]] \in Task
    BY <2>1 DEF Task
  <2>4. ps \in Seq(Task)
    BY <1>1, <2>2, <2>3, IsASeq
  <2>5. QED
    BY <1>1, <2>2, <2>4, LenProperties
<1>3. last \in Seq(Task) /\ Len(last) = 1 /\ last[1] = [do |-> "put", of |-> m]
  BY DEF Task, Digest
<1>4. Tasks(m) = ps \o last
  BY DEF Tasks
<1>5. /\ Tasks(m) \in Seq(Task) /\ Len(Tasks(m)) = n + 1
      /\ \A i \in 1..(n + 1) : Tasks(m)[i] = IF i <= n THEN ps[i] ELSE last[i - n]
  BY <1>2, <1>3, <1>4, ConcatProperties
<1>6. QED
  BY <1>1, <1>3, <1>5

(* A task is done when the registry has what it is about.                  *)
LEMMA TaskDone ==
    ASSUME NEW w \in Seq(Task), w # <<>>, NEW h, NEW g, h \subseteq g, Head(w).of \in g,
           NEW image, WalkSound(w, h, image), NEW d, Sends(w, h, d)
    PROVE  Tail(w) \in Seq(Task) /\ WalkSound(Tail(w), g, image) /\ Sends(Tail(w), g, d)
<1>1. /\ Tail(w) \in Seq(Task) /\ Len(Tail(w)) = Len(w) - 1
      /\ \A i \in 1..Len(Tail(w)) : Tail(w)[i] = w[i + 1]
  BY HeadTailProperties
<1>2. Len(w) \in Nat /\ DOMAIN w = 1..Len(w) /\ DOMAIN Tail(w) = 1..(Len(w) - 1)
  BY <1>1, LenProperties
<1>3. Head(w) = w[1]
  OBVIOUS
<1>4. ASSUME NEW i \in DOMAIN Tail(w), w[i + 1].do = "put", NEW e \in Range(Content(w[i + 1].of))
      PROVE  e \in g \/ \E j \in 1..(i - 1) : Tail(w)[j].of = e
  <2>1. i + 1 \in DOMAIN w
    BY <1>2
  <2>2. e \in h \/ \E j \in 1..i : w[j].of = e
    BY <1>2, <1>4, <2>1 DEF WalkSound
  <2>3. ASSUME NEW j \in 1..i, w[j].of = e, j # 1
        PROVE  \E k \in 1..(i - 1) : Tail(w)[k].of = e
    <3>1. j - 1 \in 1..(i - 1) /\ j - 1 \in 1..Len(Tail(w)) /\ (j - 1) + 1 = j
      BY <1>1, <1>2, <2>3
    <3>2. Tail(w)[j - 1] = w[j]
      BY <1>1, <3>1
    <3>3. QED
      BY <2>3, <3>1, <3>2
  <2>4. QED
    BY <1>3, <2>2, <2>3
<1>5. WalkSound(Tail(w), g, image)
  <2>1. \A i \in DOMAIN Tail(w) : i + 1 \in DOMAIN w /\ Tail(w)[i] = w[i + 1]
    BY <1>1, <1>2
  <2>2. QED
    BY <1>4, <2>1 DEF WalkSound
<1>6. Sends(Tail(w), g, d)
  <2>1. ASSUME NEW i \in DOMAIN w, w[i].of = d, i # 1
        PROVE  \E k \in DOMAIN Tail(w) : Tail(w)[k].of = d
    <3>1. i - 1 \in DOMAIN Tail(w) /\ (i - 1) + 1 = i
      BY <1>2, <2>1
    <3>2. Tail(w)[i - 1] = w[i]
      BY <1>1, <1>2, <3>1
    <3>3. QED
      BY <2>1, <3>1, <3>2
  <2>2. QED
    BY <1>3, <2>1 DEF Sends
<1>7. QED
  BY <1>1, <1>5, <1>6

(* A tree is replaced by its tasks.                                        *)
LEMMA TreeOpened ==
    ASSUME NEW w \in Seq(Task), w # <<>>, Head(w).do = "tree", NEW h,
           NEW image, WalkSound(w, h, image), NEW d, Sends(w, h, d)
    PROVE  LET v == Tasks(Head(w).of) \o Tail(w)
           IN  v \in Seq(Task) /\ WalkSound(v, h, image) /\ Sends(v, h, d)
<1> DEFINE m == Head(w).of
           n == Len(Content(m))
           v == Tasks(m) \o Tail(w)
<1>1. /\ Tail(w) \in Seq(Task) /\ Len(Tail(w)) = Len(w) - 1
      /\ \A i \in 1..Len(Tail(w)) : Tail(w)[i] = w[i + 1]
  BY HeadTailProperties
<1>2. Len(w) \in Nat /\ Len(w) > 0 /\ DOMAIN w = 1..Len(w) /\ Head(w) = w[1] /\ 1 \in DOMAIN w
  BY LenProperties
<1>3. m \in Manifest /\ (image => m \in Index \cup Image)
  BY <1>2 DEF WalkSound
<1>4. /\ n \in Nat /\ Tasks(m) \in Seq(Task) /\ Len(Tasks(m)) = n + 1
      /\ \A i \in 1..n : /\ Tasks(m)[i].do = (IF m \in Index THEN "tree" ELSE "blob")
                         /\ Tasks(m)[i].of = Content(m)[i]
      /\ Tasks(m)[n + 1] = [do |-> "put", of |-> m]
  BY <1>3, TasksAre
<1>5. /\ v \in Seq(Task) /\ Len(v) = n + Len(w) /\ DOMAIN v = 1..(n + Len(w))
      /\ \A i \in 1..(n + 1) : v[i] = Tasks(m)[i]
      /\ \A i \in (n + 2)..(n + Len(w)) : v[i] = w[i - n]
  <2>1. /\ v \in Seq(Task) /\ Len(v) = (n + 1) + (Len(w) - 1)
        /\ \A i \in 1..((n + 1) + (Len(w) - 1)) :
             v[i] = IF i <= n + 1 THEN Tasks(m)[i] ELSE Tail(w)[i - (n + 1)]
    <3>1. /\ v \in Seq(Task) /\ Len(v) = Len(Tasks(m)) + Len(Tail(w))
          /\ \A i \in 1..(Len(Tasks(m)) + Len(Tail(w))) :
               v[i] = IF i <= Len(Tasks(m)) THEN Tasks(m)[i] ELSE Tail(w)[i - Len(Tasks(m))]
      BY <1>1, <1>4, ConcatProperties
    <3>2. Len(Tasks(m)) = n + 1 /\ Len(Tail(w)) = Len(w) - 1
      BY <1>1, <1>4
    <3>3. QED
      BY <3>1, <3>2
  <2>2. DOMAIN v = 1..(n + Len(w)) /\ Len(v) = n + Len(w)
    BY <1>2, <1>4, <2>1, LenProperties
  <2>3. \A i \in 1..(n + 1) : v[i] = Tasks(m)[i]
    BY <1>2, <1>4, <2>1
  <2>4. ASSUME NEW i \in (n + 2)..(n + Len(w)) PROVE v[i] = w[i - n]
    <3>1. v[i] = Tail(w)[i - (n + 1)] /\ i - (n + 1) \in 1..Len(Tail(w)) /\ (i - (n + 1)) + 1 = i - n
      BY <1>1, <1>2, <1>4, <2>1
    <3>2. QED
      BY <1>1, <3>1
  <2>5. QED
    BY <2>1, <2>2, <2>3, <2>4
<1>6. \A i \in 1..Len(w) : \E j \in 1..(n + i) : v[j].of = w[i].of
  <2> SUFFICES ASSUME NEW i \in 1..Len(w) PROVE \E j \in 1..(n + i) : v[j].of = w[i].of
    OBVIOUS
  <2>1. CASE i = 1
    <3>1. v[n + 1].of = m /\ n + 1 \in 1..(n + 1)
      BY <1>4, <1>5
    <3>2. QED
      BY <1>2, <2>1, <3>1
  <2>2. CASE i # 1
    <3>1. n + i \in (n + 2)..(n + Len(w)) /\ (n + i) - n = i /\ n + i \in 1..(n + i)
      BY <1>2, <1>4, <2>2
    <3>2. v[n + i] = w[i]
      BY <1>5, <3>1
    <3>3. QED
      BY <3>1, <3>2
  <2>3. QED
    BY <2>1, <2>2
<1>7. ASSUME NEW i \in 1..n
      PROVE  /\ v[i].do = "blob" => v[i].of \notin Manifest
             /\ v[i].do # "blob" => v[i].do = "tree" /\ v[i].of \in Image
  <2>1. Content(m)[i] \in Range(Content(m))
    BY <1>3, <1>4, ContentType, LenProperties DEF Range
  <2>2. /\ v[i].do = (IF m \in Index THEN "tree" ELSE "blob") /\ v[i].of = Content(m)[i]
    BY <1>4, <1>5
  <2>3. QED
    BY <1>3, <2>1, <2>2, ContentType
<1>8. ASSUME NEW i \in DOMAIN v
      PROVE  /\ v[i].do = "blob" => v[i].of \notin Manifest
             /\ v[i].do # "blob" => v[i].of \in Manifest
             /\ v[i].do # "blob" /\ image => v[i].of \in Index \cup Image
             /\ v[i].do = "put" =>
                  \A e \in Range(Content(v[i].of)) :
                      e \in h \/ \E j \in 1..(i - 1) : v[j].of = e
  <2>1. CASE i \in 1..n
    BY <1>7, <2>1 DEF Manifest
  <2>2. CASE i = n + 1
    <3>1. v[i] = [do |-> "put", of |-> m]
      BY <1>4, <1>5, <2>2
    <3>2. ASSUME NEW e \in Range(Content(m)) PROVE \E j \in 1..(i - 1) : v[j].of = e
      <4>1. PICK j \in 1..n : Content(m)[j] = e
        BY <1>3, ContentType, LenProperties DEF Range
      <4>2. v[j].of = e /\ j \in 1..(i - 1)
        BY <1>4, <1>5, <2>2, <4>1
      <4>3. QED
        BY <4>2
    <3>3. v[i].do = "put" /\ v[i].of = m
      BY <3>1
    <3>4. QED
      BY <1>3, <3>2, <3>3
  <2>3. CASE i \in (n + 2)..(n + Len(w))
    <3>1. v[i] = w[i - n] /\ i - n \in DOMAIN w
      BY <1>2, <1>4, <1>5, <2>3
    <3>2. ASSUME NEW e, NEW k \in 1..((i - n) - 1), w[k].of = e
          PROVE  \E j \in 1..(i - 1) : v[j].of = e
      <4>1. k \in 1..Len(w) /\ \A j \in 1..(n + k) : j \in 1..(i - 1)
        BY <1>2, <1>4, <2>3
      <4>2. QED
        BY <1>6, <3>2, <4>1
    <3>3. QED
      BY <3>1, <3>2 DEF WalkSound
  <2>4. i \in 1..n \/ i = n + 1 \/ i \in (n + 2)..(n + Len(w))
    BY <1>2, <1>4, <1>5
  <2>5. QED
    BY <2>1, <2>2, <2>3, <2>4
<1>9. WalkSound(v, h, image)
  BY <1>8 DEF WalkSound
<1>10. Sends(v, h, d)
  <2>1. ASSUME NEW i \in DOMAIN w, w[i].of = d PROVE \E j \in DOMAIN v : v[j].of = d
    <3>1. i \in 1..Len(w) /\ \A j \in 1..(n + i) : j \in DOMAIN v
      BY <1>2, <1>4, <1>5
    <3>2. QED
      BY <1>6, <2>1, <3>1
  <2>2. QED
    BY <2>1 DEF Sends
<1>11. QED
  BY <1>5, <1>9, <1>10

(* A registry that has more does not disturb a walk.                       *)
LEMMA MoreIsFine ==
    ASSUME NEW w, NEW h, NEW g, h \subseteq g, NEW image, NEW d
    PROVE  /\ WalkSound(w, h, image) => WalkSound(w, g, image)
           /\ Sends(w, h, d) => Sends(w, g, d)
BY DEF WalkSound, Sends
----------------------------------------------------------------------------
(* The invariant by process, and the types by who writes what.             *)

EntryOK(p) ==
    /\ pc[p] # "idle" => cmd[p] \in Cmd
    /\ pc[p] = "push" => cmd[p].do = "push"
    /\ pc[p] \in Attaching => cmd[p].do = "attach"
    /\ pc[p] \in Attaching \cup {"walk"} =>
          IF cmd[p].do = "attach" THEN entry[p] \in Artifact ELSE entry[p] \in Tagged
    /\ pc[p] \in {"probe", "fallback", "write"} => entry[p] \in hub
    /\ pc[p] = "write" => \A a \in snap[p] : a \in hub /\ a.of = Subject(p)

WalkOK(p) ==
    /\ pc[p] # "walk" => work[p] = <<>>
    /\ pc[p] = "walk" => Sends(work[p], hub, entry[p])
    /\ WalkSound(work[p], hub, cmd[p].do = "push")

Walks == \A p \in Proc : EntryOK(p) /\ WalkOK(p)

MineTypes ==
    /\ pc \in [Proc -> {"idle", "push", "emit", "upsert", "referrer", "walk", "probe",
                        "fallback", "write"}]
    /\ cmd \in [Proc -> Cmd \cup {None}]
    /\ entry \in [Proc -> Manifest \cup {None}]
    /\ work \in [Proc -> Seq(Task)]
    /\ tries \in [Proc -> 1..MAX_BLOB_ATTEMPTS]
    /\ snap \in [Proc -> SUBSET Artifact]

LocalTypes ==
    /\ names \in [Tag -> Tagged \cup {None}] /\ untagged \subseteq Artifact
    /\ rot \subseteq disk /\ disk \subseteq Digest
    /\ left \in 0..MaxCommands

RemoteTypes ==
    /\ api \in BOOLEAN /\ hub \subseteq Digest
    /\ tags \in [Tag -> Index \cup Image \cup {None}]
    /\ fallback \in [Tagged -> SUBSET Artifact]
    /\ reported \subseteq Manifest /\ raced \subseteq Artifact

Hub == RemoteTypes /\ HubClosed /\ ListingTrue /\ CopiesKept

(* The inductive invariant in the parts that a step can disturb.           *)
LEMMA InvParts == HubInv <=> LocalTypes /\ MineTypes /\ Hub /\ Walks
<1>1. TypeOK <=> LocalTypes /\ MineTypes /\ RemoteTypes
  BY DEF TypeOK, LocalTypes, MineTypes, RemoteTypes, Task
<1>2. ASSUME NEW p \in Proc
      PROVE  WalkSound(work[p], hub, cmd[p].do = "push") <=>
             \A i \in DOMAIN work[p] :
               LET d == work[p][i].of
               IN  CASE work[p][i].do = "blob" -> d \notin Manifest
                     [] OTHER -> /\ d \in Manifest
                                 /\ cmd[p].do = "push" => d \in Index \cup Image
                                 /\ work[p][i].do = "put" =>
                                      \A e \in Range(Content(d)) :
                                          e \in hub \/ \E j \in 1..(i - 1) : work[p][j].of = e
  BY DEF WalkSound
<1>3. EntryInv /\ WalkInv <=> Walks
  BY <1>2 DEF EntryInv, WalkInv, Walks, EntryOK, WalkOK, Sends
<1>4. QED
  BY <1>1, <1>3 DEF HubInv, Hub

(* A step of p need only be looked at where p is.                          *)
LEMMA OthersKept ==
    ASSUME Walks, NEW p \in Proc, hub \subseteq hub', EntryOK(p)', WalkOK(p)',
           \A q \in Proc \ {p} : /\ pc'[q] = pc[q] /\ cmd'[q] = cmd[q] /\ entry'[q] = entry[q]
                                 /\ work'[q] = work[q] /\ snap'[q] = snap[q]
    PROVE  Walks'
<1> SUFFICES ASSUME NEW q \in Proc \ {p} PROVE EntryOK(q)' /\ WalkOK(q)'
  BY DEF Walks
<1>1. EntryOK(q) /\ WalkOK(q)
  BY DEF Walks
<1>2. EntryOK(q)'
  BY <1>1 DEF EntryOK, Subject
<1>3. WalkOK(q)'
  BY <1>1, MoreIsFine DEF WalkOK
<1>4. QED
  BY <1>2, <1>3

(* The listings stay as they are when nobody starts or ends a write.       *)
LEMMA CopiesSame ==
    ASSUME CopiesKept, UNCHANGED <<api, fallback, raced>>,
           reported' \cap Artifact \subseteq reported,
           \A q \in Proc : pc'[q] = "write" =>
              pc[q] = "write" /\ entry'[q] = entry[q] /\ snap'[q] = snap[q]
    PROVE  CopiesKept'
BY DEF CopiesKept, Subject

(* The end of a command.                                                   *)
LEMMA IdleKeeps ==
    ASSUME MineTypes, Walks, NEW p \in Proc, Idle(p), hub \subseteq hub'
    PROVE  /\ MineTypes' /\ Walks'
           /\ \A q \in Proc : pc'[q] # "idle" =>
                pc'[q] = pc[q] /\ entry'[q] = entry[q] /\ snap'[q] = snap[q]
<1> USE DEF Idle, Goto
<1>1. MineTypes'
  BY PushAssumption DEF MineTypes
<1>2. EntryOK(p)'
  BY DEF MineTypes, EntryOK, Attaching
<1>3. WalkOK(p)'
  BY DEF MineTypes, WalkOK, WalkSound
<1>4. \A q \in Proc \ {p} : /\ pc'[q] = pc[q] /\ cmd'[q] = cmd[q] /\ entry'[q] = entry[q]
                            /\ work'[q] = work[q] /\ snap'[q] = snap[q]
  BY DEF MineTypes
<1>5. Walks'
  BY <1>2, <1>3, <1>4, OthersKept
<1>6. QED
  BY <1>1, <1>4, <1>5 DEF MineTypes

(* A command that fails, whatever its last request did to the registry.    *)
LEMMA FailsKeeps ==
    ASSUME MineTypes, Walks, Hub, NEW p \in Proc, Fails(p), hub \subseteq hub',
           UNCHANGED <<api, fallback, raced>>
    PROVE  MineTypes' /\ Walks' /\ CopiesKept'
<1>1. Idle(p) /\ reported' = reported
  BY DEF Fails
<1>2. MineTypes' /\ Walks'
  BY <1>1, IdleKeeps
<1>3. \A q \in Proc : pc'[q] = "write" =>
          pc[q] = "write" /\ entry'[q] = entry[q] /\ snap'[q] = snap[q]
  BY <1>1, IdleKeeps
<1>4. QED
  BY <1>1, <1>2, <1>3, CopiesSame DEF Hub
----------------------------------------------------------------------------
(* The initial states: a layout that may have images, and no walk.         *)
LEMMA PushInit == Init => HubInv
<1> SUFFICES ASSUME Init PROVE LocalTypes /\ MineTypes /\ Hub /\ Walks
  BY InvParts
<1> USE DEF Init
<1>1. LocalTypes
  <2>1. Named \subseteq Manifest
    BY PushAssumption DEF Named, Manifest
  <2>2. disk \subseteq Digest
    BY <2>1, TreeType
  <2>3. QED
    BY <2>2, PushAssumption DEF LocalTypes
<1>2. MineTypes
  BY PushAssumption DEF MineTypes
<1>3. Hub
  BY DEF Hub, RemoteTypes, HubClosed, ListingTrue, CopiesKept
<1>4. Walks
  BY DEF Walks, EntryOK, WalkOK, WalkSound, Attaching
<1>5. QED
  BY <1>1, <1>2, <1>3, <1>4

(* Whatever happens to the layout, the registry and the processes keep     *)
(* what they have.                                                         *)
LEMMA LayoutKeeps ==
    ASSUME HubInv, Layout PROVE HubInv'
<1>0. LocalTypes /\ MineTypes /\ Hub /\ Walks
  BY InvParts
<1>1. UNCHANGED <<remote, mine, reported, raced>>
  BY DEF Layout, remove_ref, Retag, prune_blobs, Rot
<1>2. LocalTypes'
  <2>1. ASSUME NEW t \in Tag, remove_ref(t) PROVE LocalTypes'
    BY <1>0, <2>1, PushAssumption DEF remove_ref, Command, LocalTypes
  <2>2. ASSUME NEW t \in Tag, NEW m \in Tagged, Retag(t, m) PROVE LocalTypes'
    <3>1. Tree(m) \subseteq Digest
      BY TreeType, PushAssumption DEF Manifest
    <3>2. QED
      BY <1>0, <2>2, <3>1, PushAssumption DEF Retag, SetName, Command, LocalTypes
  <2>3. CASE prune_blobs
    BY <1>0, <2>3, PushAssumption DEF prune_blobs, Command, LocalTypes
  <2>4. CASE Rot
    BY <1>0, <2>4 DEF Rot, LocalTypes
  <2>5. QED
    BY <2>1, <2>2, <2>3, <2>4 DEF Layout
<1>3. MineTypes' /\ Hub'
  BY <1>0, <1>1 DEF remote, mine, MineTypes, Hub, RemoteTypes, HubClosed, ListingTrue,
                    CopiesKept, Subject
<1>4. Walks'
  BY <1>0, <1>1 DEF remote, mine, Walks, EntryOK, WalkOK, Subject
<1>5. (HubInv <=> LocalTypes /\ MineTypes /\ Hub /\ Walks)'
  BY InvParts, PTL
<1>6. QED
  BY <1>2, <1>3, <1>4, <1>5

(* The registry, while requests only read it.                              *)
LEMMA HubStill ==
    ASSUME Hub, UNCHANGED <<remote, raced>>, reported' = reported,
           \A q \in Proc : pc'[q] = "write" =>
              pc[q] = "write" /\ entry'[q] = entry[q] /\ snap'[q] = snap[q]
    PROVE  Hub'
<1>1. UNCHANGED <<api, hub, tags, fallback, raced>>
  BY DEF remote
<1>2. CopiesKept'
  BY <1>1, CopiesSame DEF Hub
<1>3. QED
  BY <1>1, <1>2 DEF Hub, RemoteTypes, HubClosed, ListingTrue

(* A blob or a manifest arrives whose parts are there.                     *)
LEMMA HubGrows ==
    ASSUME Hub, NEW d \in Digest, hub' = hub \cup {d},
           d \in Manifest => Range(Content(d)) \subseteq hub,
           UNCHANGED <<api, fallback, raced>>, reported' = reported, CopiesKept',
           tags' \in [Tag -> Index \cup Image \cup {None}],
           \A t \in Tag : tags'[t] \in {tags[t], d}
    PROVE  Hub'
<1>1. RemoteTypes'
  BY DEF Hub, RemoteTypes
<1>2. HubClosed'
  BY DEF Hub, HubClosed
<1>3. ListingTrue'
  BY DEF Hub, ListingTrue
<1>4. QED
  BY <1>1, <1>2, <1>3 DEF Hub

(* A process goes on where its command takes it, with nothing sent.        *)
LEMMA GoesOn ==
    ASSUME HubInv, LocalTypes', NEW p \in Proc, MineTypes', EntryOK(p)', WalkOK(p)',
           UNCHANGED <<remote, raced>>, reported' = reported, pc'[p] # "write",
           \A q \in Proc \ {p} : /\ pc'[q] = pc[q] /\ cmd'[q] = cmd[q] /\ entry'[q] = entry[q]
                                 /\ work'[q] = work[q] /\ snap'[q] = snap[q]
    PROVE  HubInv'
<1>0. LocalTypes /\ MineTypes /\ Hub /\ Walks
  BY InvParts
<1>1. Hub'
  BY <1>0, HubStill
<1>2. hub' = hub
  BY DEF remote
<1>3. Walks'
  BY <1>0, <1>2, OthersKept
<1>4. (HubInv <=> LocalTypes /\ MineTypes /\ Hub /\ Walks)'
  BY InvParts, PTL
<1>5. QED
  BY <1>1, <1>3, <1>4

(* The same for a command that fails.                                      *)
LEMMA FailsStill ==
    ASSUME HubInv, LocalTypes', NEW p \in Proc, Fails(p), UNCHANGED <<remote, raced>>
    PROVE  HubInv'
<1>0. LocalTypes /\ MineTypes /\ Hub /\ Walks
  BY InvParts
<1>1. Idle(p) /\ reported' = reported /\ hub' = hub
  BY DEF Fails, remote
<1>2. MineTypes' /\ Walks'
  BY <1>0, <1>1, IdleKeeps
<1>3. \A q \in Proc : pc'[q] = "write" =>
          pc[q] = "write" /\ entry'[q] = entry[q] /\ snap'[q] = snap[q]
  BY <1>0, <1>1, IdleKeeps
<1>4. Hub'
  BY <1>0, <1>1, <1>3, HubStill
<1>5. (HubInv <=> LocalTypes /\ MineTypes /\ Hub /\ Walks)'
  BY InvParts, PTL
<1>6. QED
  BY <1>2, <1>4, <1>5

(* A step that leaves the layout alone leaves it well typed.               *)
LEMMA LocalSame ==
    ASSUME LocalTypes, UNCHANGED <<local, left>> PROVE LocalTypes'
BY DEF LocalTypes, local
----------------------------------------------------------------------------
(* The commands.                                                           *)
LEMMA BeginKeeps ==
    ASSUME HubInv, LocalTypes', NEW p \in Proc, NEW t \in Tag,
           Begin(p, [do |-> "push", tag |-> t], "push")
    PROVE  HubInv'
<1> USE DEF Begin, Goto
<1>0. LocalTypes /\ MineTypes /\ Hub /\ Walks
  BY InvParts
<1>1. [do |-> "push", tag |-> t] \in Cmd
  BY DEF Cmd
<1>2. MineTypes'
  BY <1>0, <1>1 DEF MineTypes
<1>3. pc'[p] = "push" /\ cmd'[p] = [do |-> "push", tag |-> t] /\ work'[p] = <<>>
  BY <1>0 DEF MineTypes, Walks, WalkOK
<1>4. EntryOK(p)'
  BY <1>1, <1>3 DEF EntryOK, Attaching
<1>5. WalkOK(p)'
  BY <1>3 DEF WalkOK, WalkSound
<1>6. \A q \in Proc \ {p} : /\ pc'[q] = pc[q] /\ cmd'[q] = cmd[q] /\ entry'[q] = entry[q]
                            /\ work'[q] = work[q] /\ snap'[q] = snap[q]
  BY <1>0 DEF MineTypes
<1>7. UNCHANGED <<remote, raced>> /\ reported' = reported
  OBVIOUS
<1>8. QED
  BY <1>2, <1>3, <1>4, <1>5, <1>6, <1>7, GoesOn

(* run_sign, run_attest, run_attach and run_generate choose the entry.     *)
LEMMA AttachKeeps ==
    ASSUME HubInv, NEW p \in Proc, NEW t \in Tag, NEW k \in Kind, Attach(p, k, t)
    PROVE  HubInv'
<1> USE DEF Attach, Goto
<1>0. LocalTypes /\ MineTypes /\ Hub /\ Walks
  BY InvParts
<1>1. [do |-> "attach", tag |-> t] \in Cmd /\ [kind |-> k, of |-> names[t]] \in Artifact
  BY <1>0 DEF Cmd, Artifact, LocalTypes
<1>2. LocalTypes'
  BY <1>0, PushAssumption DEF LocalTypes, local, Command
<1>3. MineTypes'
  BY <1>0, <1>1 DEF MineTypes, Manifest
<1>4. /\ pc'[p] = "emit" /\ cmd'[p] = [do |-> "attach", tag |-> t] /\ work'[p] = <<>>
      /\ entry'[p] = [kind |-> k, of |-> names[t]]
  BY <1>0 DEF MineTypes, Walks, WalkOK
<1>5. EntryOK(p)'
  BY <1>1, <1>4 DEF EntryOK, Attaching
<1>6. WalkOK(p)'
  BY <1>4 DEF WalkOK, WalkSound
<1>7. \A q \in Proc \ {p} : /\ pc'[q] = pc[q] /\ cmd'[q] = cmd[q] /\ entry'[q] = entry[q]
                            /\ work'[q] = work[q] /\ snap'[q] = snap[q]
  BY <1>0 DEF MineTypes
<1>8. UNCHANGED <<remote, raced>> /\ reported' = reported
  OBVIOUS
<1>9. QED
  BY <1>2, <1>3, <1>4, <1>5, <1>6, <1>7, <1>8, GoesOn

(* A command begins.                                                       *)
LEMMA StartKeeps ==
    ASSUME HubInv, NEW p \in Proc, Start(p) PROVE HubInv'
<1>0. LocalTypes
  BY InvParts
<1>1. ASSUME NEW t \in Tag, run_push_subcommand(p, t) PROVE HubInv'
  <2>1. LocalTypes' /\ Begin(p, [do |-> "push", tag |-> t], "push")
    BY <1>0, <1>1, PushAssumption DEF run_push_subcommand, Begin, LocalTypes, local, Command
  <2>2. QED
    BY <2>1, BeginKeeps
<1>2. ASSUME NEW t \in Tag, NEW m \in Tagged, build_and_push(p, t, m) PROVE HubInv'
  <2>1. Tree(m) \subseteq Digest
    BY TreeType, PushAssumption DEF Manifest
  <2>2. LocalTypes' /\ Begin(p, [do |-> "push", tag |-> t], "push")
    BY <1>0, <1>2, <2>1, PushAssumption DEF build_and_push, SetName, Begin, LocalTypes, Command
  <2>3. QED
    BY <2>2, BeginKeeps
<1>3. ASSUME NEW t \in Tag, \/ run_sign(p, t) \/ run_attest(p, t)
                           \/ run_attach(p, t) \/ run_generate(p, t)
      PROVE  HubInv'
  <2>1. PICK k \in Kind : Attach(p, k, t)
    BY <1>3 DEF run_sign, run_attest, run_attach, run_generate, Kind
  <2>2. QED
    BY <2>1, AttachKeeps
<1>4. QED
  BY <1>1, <1>2, <1>3 DEF Start

(* An artifact is written to the layout before its entry is.               *)
LEMMA EmitKeeps ==
    ASSUME HubInv, NEW p \in Proc, emit_artifact_manifest(p) \/ upsert_untagged(p)
    PROVE  HubInv'
<1> USE DEF emit_artifact_manifest, upsert_untagged, Goto
<1>0. LocalTypes /\ MineTypes /\ Hub /\ Walks
  BY InvParts
<1>1. entry[p] \in Artifact /\ EntryOK(p) /\ WalkOK(p) /\ cmd[p] \in Cmd /\ cmd[p].do = "attach"
  BY <1>0 DEF Walks, EntryOK, Attaching
<1>2. Tree(entry[p]) \subseteq Digest
  BY <1>1, TreeType DEF Manifest
<1>3. LocalTypes'
  BY <1>0, <1>1, <1>2 DEF LocalTypes
<1>4. MineTypes'
  BY <1>0 DEF MineTypes
<1>5. /\ pc'[p] \in {"upsert", "referrer"} /\ cmd'[p] = cmd[p] /\ work'[p] = <<>>
      /\ entry'[p] = entry[p]
  BY <1>0, <1>1 DEF MineTypes, WalkOK
<1>6. EntryOK(p)'
  BY <1>1, <1>5 DEF EntryOK, Attaching
<1>7. WalkOK(p)'
  BY <1>5 DEF WalkOK, WalkSound
<1>8. \A q \in Proc \ {p} : /\ pc'[q] = pc[q] /\ cmd'[q] = cmd[q] /\ entry'[q] = entry[q]
                            /\ work'[q] = work[q] /\ snap'[q] = snap[q]
  BY <1>0 DEF MineTypes
<1>9. UNCHANGED <<remote, raced>> /\ reported' = reported
  OBVIOUS
<1>10. QED
  BY <1>3, <1>4, <1>5, <1>6, <1>7, <1>8, <1>9, GoesOn

(* Auth, which fails and ends the command or starts the walk.              *)
LEMMA AuthKeeps ==
    ASSUME HubInv, NEW p \in Proc, NEW m, Auth(p, m), cmd[p] \in Cmd,
           IF cmd[p].do = "attach" THEN m \in Artifact ELSE m \in Tagged,
           UNCHANGED <<local, remote, left, raced>>
    PROVE  HubInv'
<1>0. LocalTypes /\ MineTypes /\ Hub /\ Walks
  BY InvParts
<1>1. LocalTypes'
  BY <1>0, LocalSame
<1>2. CASE Fails(p)
  BY <1>1, <1>2, FailsStill
<1>3. CASE ~Fails(p)
  <2> USE DEF Goto
  <2>0. /\ pc' = [pc EXCEPT ![p] = "walk"] /\ entry' = [entry EXCEPT ![p] = m]
        /\ work' = [work EXCEPT ![p] = <<[do |-> "tree", of |-> m]>>]
        /\ UNCHANGED <<cmd, tries, snap, reported>>
    BY <1>3 DEF Auth
  <2>1. m \in Manifest /\ (cmd[p].do = "push" => m \in Index \cup Image)
    BY PushAssumption DEF Manifest, Cmd
  <2>2. <<[do |-> "tree", of |-> m]>> \in Seq(Task)
    BY <2>1 DEF Task, Digest
  <2>3. MineTypes'
    BY <1>0, <2>0, <2>1, <2>2 DEF MineTypes
  <2>4. /\ pc'[p] = "walk" /\ cmd'[p] = cmd[p] /\ entry'[p] = m
        /\ work'[p] = <<[do |-> "tree", of |-> m]>>
    BY <1>0, <2>0 DEF MineTypes
  <2>5. EntryOK(p)'
    BY <2>4 DEF EntryOK, Attaching
  <2>6. WalkOK(p)'
    <3>1. Sends(<<[do |-> "tree", of |-> m]>>, hub', m)
      <4>1. 1 \in DOMAIN <<[do |-> "tree", of |-> m]>> /\ <<[do |-> "tree", of |-> m]>>[1].of = m
        OBVIOUS
      <4>2. QED
        BY <4>1 DEF Sends
    <3>2. WalkSound(<<[do |-> "tree", of |-> m]>>, hub', cmd[p].do = "push")
      BY <2>1 DEF WalkSound
    <3>3. QED
      BY <2>4, <3>1, <3>2 DEF WalkOK
  <2>7. \A q \in Proc \ {p} : /\ pc'[q] = pc[q] /\ cmd'[q] = cmd[q] /\ entry'[q] = entry[q]
                              /\ work'[q] = work[q] /\ snap'[q] = snap[q]
    BY <1>0, <2>0 DEF MineTypes
  <2>8. UNCHANGED <<remote, raced>> /\ reported' = reported
    BY <2>0
  <2>9. QED
    BY <1>1, <2>3, <2>4, <2>5, <2>6, <2>7, <2>8, GoesOn
<1>4. QED
  BY <1>2, <1>3

(* push resolves its name and puts one tree on the walk.                   *)
LEMMA PushKeeps ==
    ASSUME HubInv, NEW p \in Proc, push(p) \/ push_referrer(p) PROVE HubInv'
<1>0. LocalTypes /\ MineTypes /\ Hub /\ Walks
  BY InvParts
<1>1. LocalTypes' /\ UNCHANGED <<local, remote, left, raced>>
  BY <1>0, LocalSame DEF push, push_referrer
<1>2. CASE push(p)
  <2>1. cmd[p] \in Cmd /\ cmd[p].do = "push" /\ names[cmd[p].tag] \in Tagged \cup {None}
    BY <1>0, <1>2 DEF push, Walks, EntryOK, Cmd, LocalTypes
  <2>2. CASE Fails(p)
    BY <1>1, <2>2, FailsStill
  <2>3. CASE ~Fails(p)
    <3>1. names[cmd[p].tag] \in Tagged /\ Auth(p, names[cmd[p].tag])
      BY <1>2, <2>1, <2>3 DEF push
    <3>2. QED
      BY <1>1, <2>1, <3>1, AuthKeeps
  <2>4. QED
    BY <2>2, <2>3
<1>3. CASE push_referrer(p)
  <2>1. cmd[p] \in Cmd /\ cmd[p].do = "attach" /\ entry[p] \in Artifact
    BY <1>0, <1>3 DEF push_referrer, Walks, EntryOK, Attaching
  <2>2. CASE Fails(p)
    BY <1>1, <2>2, FailsStill
  <2>3. CASE ~Fails(p)
    <3>1. Auth(p, entry[p])
      BY <1>3, <2>3 DEF push_referrer
    <3>2. QED
      BY <1>1, <2>1, <3>1, AuthKeeps
  <2>4. QED
    BY <2>2, <2>3
<1>4. QED
  BY <1>2, <1>3
----------------------------------------------------------------------------
(* The walk.                                                               *)

(* What a process that walks has in hand.                                  *)
LEMMA Walking ==
    ASSUME MineTypes, Walks, NEW p \in Proc, pc[p] = "walk"
    PROVE  /\ work[p] \in Seq(Task) /\ cmd[p] \in Cmd
           /\ IF cmd[p].do = "attach" THEN entry[p] \in Artifact ELSE entry[p] \in Tagged
           /\ Sends(work[p], hub, entry[p])
           /\ WalkSound(work[p], hub, cmd[p].do = "push")
BY DEF MineTypes, Walks, EntryOK, WalkOK

(* push_manifest_tree replaces a manifest by its parts and itself.         *)
LEMMA TreeKeeps ==
    ASSUME HubInv, NEW p \in Proc, push_manifest_tree(p) PROVE HubInv'
<1>0. LocalTypes /\ MineTypes /\ Hub /\ Walks
  BY InvParts
<1>1. LocalTypes' /\ UNCHANGED <<local, remote, left, raced>>
  BY <1>0, LocalSame DEF push_manifest_tree
<1>2. CASE Fails(p)
  BY <1>1, <1>2, FailsStill
<1>3. CASE ~Fails(p)
  <2> DEFINE w == work[p]
             v == Tasks(Head(w).of) \o Tail(w)
  <2>1. /\ pc[p] = "walk" /\ w # <<>> /\ Head(w).do = "tree"
        /\ work' = [work EXCEPT ![p] = v]
        /\ UNCHANGED <<pc, cmd, entry, tries, snap, reported>>
    BY <1>3 DEF push_manifest_tree, At, Now
  <2>2. /\ w \in Seq(Task) /\ Sends(w, hub, entry[p]) /\ WalkSound(w, hub, cmd[p].do = "push")
    BY <1>0, <2>1, Walking
  <2>3. /\ v \in Seq(Task) /\ Sends(v, hub, entry[p]) /\ WalkSound(v, hub, cmd[p].do = "push")
    BY <2>1, <2>2, TreeOpened
  <2> HIDE DEF v
  <2>4. MineTypes'
    BY <1>0, <2>1, <2>3 DEF MineTypes
  <2>5. hub' = hub /\ work'[p] = v /\ pc'[p] = "walk"
    BY <1>0, <1>1, <2>1 DEF MineTypes, remote
  <2>6. EntryOK(p)'
    BY <1>0, <2>1, <2>5 DEF Walks, EntryOK, Subject
  <2>7. WalkOK(p)'
    BY <2>1, <2>3, <2>5 DEF WalkOK
  <2>8. \A q \in Proc \ {p} : /\ pc'[q] = pc[q] /\ cmd'[q] = cmd[q] /\ entry'[q] = entry[q]
                              /\ work'[q] = work[q] /\ snap'[q] = snap[q]
    BY <1>0, <2>1 DEF MineTypes
  <2>9. QED
    BY <1>1, <2>1, <2>4, <2>5, <2>6, <2>7, <2>8, GoesOn
<1>4. QED
  BY <1>2, <1>3

(* The head of a walk: what it is about, by what is to be done with it.    *)
LEMMA InHand ==
    ASSUME MineTypes, Walks, NEW p \in Proc, NEW what, At(p, what)
    PROVE  /\ pc[p] = "walk" /\ work[p] # <<>> /\ Now(p) \in Digest
           /\ what = "blob" => Now(p) \notin Manifest
           /\ what = "put" => /\ Now(p) \in Manifest /\ Range(Content(Now(p))) \subseteq hub
                              /\ cmd[p].do = "push" => Now(p) \in Index \cup Image
<1>1. /\ pc[p] = "walk" /\ work[p] # <<>> /\ Head(work[p]).do = what
      /\ work[p] \in Seq(Task) /\ WalkSound(work[p], hub, cmd[p].do = "push")
  BY Walking DEF At
<1>2. Head(work[p]) = work[p][1] /\ 1 \in DOMAIN work[p] /\ Head(work[p]) \in Task
  BY <1>1
<1>3. 1..(1 - 1) = {}
  OBVIOUS
<1>4. QED
  BY <1>1, <1>2, <1>3 DEF Now, WalkSound, Task

(* What is in hand has arrived and the walk goes on.                       *)
LEMMA ArrivesKeeps ==
    ASSUME HubInv, LocalTypes', NEW p \in Proc, NEW what, At(p, what),
           hub' = hub \cup {Now(p)}, Next1(p),
           UNCHANGED <<api, fallback, raced>>, what \in {"blob", "put"},
           tags' \in [Tag -> Index \cup Image \cup {None}],
           \A t \in Tag : tags'[t] \in {tags[t], Now(p)}
    PROVE  HubInv'
<1>0. LocalTypes /\ MineTypes /\ Hub /\ Walks
  BY InvParts
<1>1. /\ work' = [work EXCEPT ![p] = Tail(work[p])] /\ tries' = [tries EXCEPT ![p] = 1]
      /\ UNCHANGED <<pc, cmd, entry, snap, reported>>
  BY DEF Next1
<1>2. /\ pc[p] = "walk" /\ work[p] # <<>> /\ Now(p) \in Digest
      /\ Now(p) \in Manifest => Range(Content(Now(p))) \subseteq hub
  BY <1>0, InHand
<1>3. /\ work[p] \in Seq(Task) /\ Sends(work[p], hub, entry[p])
      /\ WalkSound(work[p], hub, cmd[p].do = "push")
  BY <1>0, <1>2, Walking
<1>4. /\ Tail(work[p]) \in Seq(Task) /\ Sends(Tail(work[p]), hub', entry[p])
      /\ WalkSound(Tail(work[p]), hub', cmd[p].do = "push")
  BY <1>2, <1>3, TaskDone DEF Now
<1>5. MineTypes'
  BY <1>0, <1>1, <1>4, PushAssumption DEF MineTypes
<1>6. work'[p] = Tail(work[p])
  BY <1>0, <1>1 DEF MineTypes
<1>7. EntryOK(p)'
  BY <1>0, <1>1, <1>2 DEF Walks, EntryOK, Attaching
<1>8. WalkOK(p)'
  BY <1>1, <1>2, <1>4, <1>6 DEF WalkOK
<1>9. \A q \in Proc \ {p} : /\ pc'[q] = pc[q] /\ cmd'[q] = cmd[q] /\ entry'[q] = entry[q]
                            /\ work'[q] = work[q] /\ snap'[q] = snap[q]
  BY <1>0, <1>1 DEF MineTypes
<1>10. Walks'
  BY <1>0, <1>7, <1>8, <1>9, OthersKept
<1>11. CopiesKept'
  BY <1>0, <1>1, CopiesSame DEF Hub
<1>12. Hub'
  BY <1>0, <1>1, <1>2, <1>11, HubGrows
<1>13. (HubInv <=> LocalTypes /\ MineTypes /\ Hub /\ Walks)'
  BY InvParts, PTL
<1>14. QED
  BY <1>5, <1>10, <1>12, <1>13

(* It has arrived, and the answer is lost or the command is over.          *)
LEMMA ArrivesFails ==
    ASSUME HubInv, LocalTypes', NEW p \in Proc, NEW what, At(p, what),
           hub' = hub \cup {Now(p)}, Fails(p),
           UNCHANGED <<api, fallback, raced>>, what \in {"blob", "put"},
           tags' \in [Tag -> Index \cup Image \cup {None}],
           \A t \in Tag : tags'[t] \in {tags[t], Now(p)}
    PROVE  HubInv'
<1>0. LocalTypes /\ MineTypes /\ Hub /\ Walks
  BY InvParts
<1>1. /\ Now(p) \in Digest
      /\ Now(p) \in Manifest => Range(Content(Now(p))) \subseteq hub
  BY <1>0, InHand
<1>2. reported' = reported /\ hub \subseteq hub'
  BY DEF Fails
<1>3. MineTypes' /\ Walks' /\ CopiesKept'
  BY <1>0, <1>2, FailsKeeps
<1>4. Hub'
  BY <1>0, <1>1, <1>2, <1>3, HubGrows
<1>5. (HubInv <=> LocalTypes /\ MineTypes /\ Hub /\ Walks)'
  BY InvParts, PTL
<1>6. QED
  BY <1>3, <1>4, <1>5

(* An upload puts a blob into the registry before it leaves the walk.      *)
LEMMA BlobKeeps ==
    ASSUME HubInv, NEW p \in Proc, push_blob_attempt(p) PROVE HubInv'
<1>0. LocalTypes /\ MineTypes /\ Hub /\ Walks
  BY InvParts
<1>1. /\ At(p, "blob") /\ hub' = hub \cup {Now(p)} /\ Next1(p)
      /\ UNCHANGED <<local, api, tags, fallback, left, raced>>
  BY DEF push_blob_attempt
<1>2. LocalTypes' /\ tags' \in [Tag -> Index \cup Image \cup {None}]
  BY <1>0, <1>1, LocalSame DEF Hub, RemoteTypes
<1>3. QED
  BY <1>1, <1>2, ArrivesKeeps

(* A failed attempt, the blob's arrival or not: another try, or the end.   *)
LEMMA BlobFailsKeeps ==
    ASSUME HubInv, NEW p \in Proc, push_blob_fails(p) PROVE HubInv'
<1>0. LocalTypes /\ MineTypes /\ Hub /\ Walks
  BY InvParts
<1>1. /\ At(p, "blob") /\ hub' \in {hub, hub \cup {Now(p)}} /\ retry_backoff(p)
      /\ UNCHANGED <<local, api, tags, fallback, left, raced>>
  BY DEF push_blob_fails
<1>2. LocalTypes' /\ tags' \in [Tag -> Index \cup Image \cup {None}]
  BY <1>0, <1>1, LocalSame DEF Hub, RemoteTypes
<1>3. CASE Fails(p)
  <2>1. CASE hub' = hub
    BY <1>1, <1>2, <1>3, <2>1, FailsStill DEF remote
  <2>2. CASE hub' = hub \cup {Now(p)}
    BY <1>1, <1>2, <1>3, <2>2, ArrivesFails
  <2>3. QED
    BY <1>1, <2>1, <2>2
<1>4. CASE ~Fails(p)
  <2>1. /\ tries[p] < MAX_BLOB_ATTEMPTS /\ tries' = [tries EXCEPT ![p] = tries[p] + 1]
        /\ UNCHANGED <<pc, cmd, entry, work, snap, reported>>
    BY <1>1, <1>4 DEF retry_backoff
  <2>2. MineTypes'
    <3>1. tries[p] + 1 \in 1..MAX_BLOB_ATTEMPTS
      BY <1>0, <2>1, PushAssumption DEF MineTypes
    <3>2. QED
      BY <1>0, <2>1, <3>1 DEF MineTypes
  <2>3. Now(p) \in Digest \ Manifest
    BY <1>0, <1>1, InHand
  <2>4. CopiesKept'
    BY <1>0, <1>1, <2>1, CopiesSame DEF Hub
  <2>5. Hub'
    <3>1. CASE hub' = hub
      BY <1>0, <1>1, <2>1, <2>4, <3>1 DEF Hub, RemoteTypes, HubClosed, ListingTrue
    <3>2. CASE hub' = hub \cup {Now(p)}
      BY <1>0, <1>1, <1>2, <2>1, <2>3, <2>4, <3>2, HubGrows
    <3>3. QED
      BY <1>1, <3>1, <3>2
  <2>6. Walks'
    <3>1. hub \subseteq hub'
      BY <1>1
    <3>2. EntryOK(p) /\ WalkOK(p)
      BY <1>0 DEF Walks
    <3>3. EntryOK(p)'
      BY <2>1, <3>1, <3>2 DEF EntryOK, Subject
    <3>4. WalkOK(p)'
      BY <2>1, <3>1, <3>2, MoreIsFine DEF WalkOK
    <3>5. QED
      BY <1>0, <2>1, <3>1, <3>3, <3>4, OthersKept
  <2>7. (HubInv <=> LocalTypes /\ MineTypes /\ Hub /\ Walks)'
    BY InvParts, PTL
  <2>8. QED
    BY <1>2, <2>2, <2>5, <2>6, <2>7
<1>5. QED
  BY <1>3, <1>4

(* push_manifest_raw: all that the manifest names is there by then.        *)
LEMMA PutKeeps ==
    ASSUME HubInv, NEW p \in Proc, push_manifest_raw(p) PROVE HubInv'
<1>0. LocalTypes /\ MineTypes /\ Hub /\ Walks
  BY InvParts
<1>1. At(p, "put") /\ UNCHANGED <<local, api, fallback, left, raced>>
  BY DEF push_manifest_raw
<1>2. LocalTypes'
  BY <1>0, <1>1, LocalSame
<1>3. ASSUME Put(p)
      PROVE  /\ hub' = hub \cup {Now(p)} /\ tags' \in [Tag -> Index \cup Image \cup {None}]
             /\ \A t \in Tag : tags'[t] \in {tags[t], Now(p)}
  <2>1. tags \in [Tag -> Index \cup Image \cup {None}] /\ cmd[p] \in Cmd
    BY <1>0, <1>1, Walking DEF Hub, RemoteTypes, At
  <2>2. cmd[p].do = "push" => Now(p) \in Index \cup Image
    BY <1>0, <1>1, InHand
  <2>3. QED
    BY <1>3, <2>1, <2>2 DEF Put, Cmd
<1>4. CASE Put(p) /\ Next1(p)
  BY <1>1, <1>2, <1>3, <1>4, ArrivesKeeps
<1>5. CASE Put(p) /\ Fails(p)
  BY <1>1, <1>2, <1>3, <1>5, ArrivesFails
<1>6. CASE UNCHANGED <<hub, tags>> /\ Fails(p)
  BY <1>1, <1>2, <1>6, FailsStill DEF remote
<1>7. QED
  BY <1>4, <1>5, <1>6 DEF push_manifest_raw

(* A command that reports what the registry has.  Where the client keeps   *)
(* the listing, an artifact that it reports must be in it.                 *)
LEMMA ReportsKeeps ==
    ASSUME HubInv, LocalTypes', NEW p \in Proc, Reports(p), entry[p] \in Manifest \cap hub,
           UNCHANGED <<remote, raced>>, api \/ entry[p] \notin Artifact
    PROVE  HubInv'
<1>0. LocalTypes /\ MineTypes /\ Hub /\ Walks
  BY InvParts
<1>1. Idle(p) /\ reported' = reported \cup {entry[p]} /\ UNCHANGED <<api, hub, tags, fallback>>
  BY DEF Reports, remote
<1>2. MineTypes' /\ Walks'
  BY <1>0, <1>1, IdleKeeps
<1>3. \A q \in Proc : pc'[q] = "write" =>
          pc[q] = "write" /\ entry'[q] = entry[q] /\ snap'[q] = snap[q]
  BY <1>0, <1>1, IdleKeeps
<1>4. CopiesKept'
  BY <1>0, <1>1, <1>3 DEF Hub, CopiesKept, Subject
<1>5. Hub'
  BY <1>0, <1>1, <1>4 DEF Hub, RemoteTypes, HubClosed, ListingTrue
<1>6. (HubInv <=> LocalTypes /\ MineTypes /\ Hub /\ Walks)'
  BY InvParts, PTL
<1>7. QED
  BY <1>2, <1>5, <1>6

(* The end of a walk: an image is delivered, an artifact is to be listed.  *)
LEMMA WalkDoneKeeps ==
    ASSUME HubInv, NEW p \in Proc, walk_done(p) PROVE HubInv'
<1>0. LocalTypes /\ MineTypes /\ Hub /\ Walks
  BY InvParts
<1>1. LocalTypes' /\ UNCHANGED <<local, remote, left, raced>> /\ pc[p] = "walk" /\ work[p] = <<>>
  BY <1>0, LocalSame DEF walk_done
<1>2. /\ cmd[p] \in Cmd /\ entry[p] \in hub
      /\ IF cmd[p].do = "attach" THEN entry[p] \in Artifact ELSE entry[p] \in Tagged
  BY <1>0, <1>1, Walking DEF Sends
<1>3. CASE cmd[p].do = "push"
  <2>1. Reports(p) /\ entry[p] \in Manifest \ Artifact
    BY <1>2, <1>3, PushAssumption DEF walk_done, Manifest
  <2>2. QED
    BY <1>1, <1>2, <2>1, ReportsKeeps
<1>4. CASE cmd[p].do = "attach"
  <2>1. pc' = [pc EXCEPT ![p] = "probe"] /\ UNCHANGED <<cmd, entry, work, tries, snap, reported>>
    BY <1>4 DEF walk_done, Goto
  <2>2. MineTypes'
    BY <1>0, <2>1 DEF MineTypes
  <2>3. pc'[p] = "probe" /\ hub' = hub
    BY <1>0, <1>1, <2>1 DEF MineTypes, remote
  <2>4. EntryOK(p)'
    BY <1>2, <1>4, <2>1, <2>3 DEF EntryOK, Attaching
  <2>5. WalkOK(p)'
    BY <1>1, <2>1, <2>3 DEF WalkOK, WalkSound
  <2>6. \A q \in Proc \ {p} : /\ pc'[q] = pc[q] /\ cmd'[q] = cmd[q] /\ entry'[q] = entry[q]
                              /\ work'[q] = work[q] /\ snap'[q] = snap[q]
    BY <1>0, <2>1 DEF MineTypes
  <2>7. QED
    BY <1>1, <2>1, <2>2, <2>3, <2>4, <2>5, <2>6, GoesOn
<1>5. QED
  BY <1>2, <1>3, <1>4 DEF Cmd
----------------------------------------------------------------------------
(* Referrers.                                                              *)
LEMMA ProbeKeeps ==
    ASSUME HubInv, NEW p \in Proc, probe_referrers(p) PROVE HubInv'
<1>0. LocalTypes /\ MineTypes /\ Hub /\ Walks
  BY InvParts
<1>1. LocalTypes' /\ UNCHANGED <<local, remote, left, raced>> /\ pc[p] = "probe"
  BY <1>0, LocalSame DEF probe_referrers
<1>2. EntryOK(p) /\ WalkOK(p) /\ entry[p] \in hub \cap Artifact /\ work[p] = <<>>
  BY <1>0, <1>1 DEF Walks, EntryOK, WalkOK, Attaching
<1>3. CASE api /\ Reports(p)
  BY <1>1, <1>2, <1>3, ReportsKeeps DEF Manifest
<1>4. CASE Fails(p)
  BY <1>1, <1>4, FailsStill
<1>5. CASE Goto(p, "fallback") /\ UNCHANGED <<cmd, entry, work, tries, snap, reported>>
  <2>1. pc' = [pc EXCEPT ![p] = "fallback"]
    BY <1>5 DEF Goto
  <2>2. MineTypes'
    BY <1>0, <1>5, <2>1 DEF MineTypes
  <2>3. pc'[p] = "fallback" /\ hub' = hub
    BY <1>0, <1>1, <2>1 DEF MineTypes, remote
  <2>4. EntryOK(p)'
    BY <1>1, <1>2, <1>5, <2>3 DEF EntryOK, Attaching
  <2>5. WalkOK(p)'
    BY <1>2, <1>5, <2>3 DEF WalkOK, WalkSound
  <2>6. \A q \in Proc \ {p} : /\ pc'[q] = pc[q] /\ cmd'[q] = cmd[q] /\ entry'[q] = entry[q]
                              /\ work'[q] = work[q] /\ snap'[q] = snap[q]
    BY <1>0, <1>5, <2>1 DEF MineTypes
  <2>7. QED
    BY <1>1, <1>5, <2>2, <2>3, <2>4, <2>5, <2>6, GoesOn
<1>6. QED
  BY <1>3, <1>4, <1>5 DEF probe_referrers

(* The copy that is read holds what the listing holds.                     *)
LEMMA PullKeeps ==
    ASSUME HubInv, NEW p \in Proc, pull_fallback_index(p) PROVE HubInv'
<1>0. LocalTypes /\ MineTypes /\ Hub /\ Walks
  BY InvParts
<1>1. LocalTypes' /\ UNCHANGED <<local, remote, left, raced>> /\ pc[p] = "fallback"
  BY <1>0, LocalSame DEF pull_fallback_index
<1>2. EntryOK(p) /\ WalkOK(p) /\ entry[p] \in hub \cap Artifact /\ work[p] = <<>>
  BY <1>0, <1>1 DEF Walks, EntryOK, WalkOK, Attaching
<1>3. CASE Fails(p)
  BY <1>1, <1>3, FailsStill
<1>4. CASE ~Fails(p)
  <2>1. /\ pc' = [pc EXCEPT ![p] = "write"] /\ snap' = [snap EXCEPT ![p] = fallback[Subject(p)]]
        /\ UNCHANGED <<cmd, entry, work, tries, reported>>
        /\ UNCHANGED <<api, hub, tags, fallback, raced>>
    BY <1>1, <1>4 DEF pull_fallback_index, Goto, remote
  <2>2. Subject(p) \in Tagged /\ fallback[Subject(p)] \subseteq Artifact
    BY <1>0, <1>2 DEF Subject, Artifact, Hub, RemoteTypes
  <2>3. MineTypes'
    BY <1>0, <2>1, <2>2 DEF MineTypes
  <2>4. pc'[p] = "write" /\ snap'[p] = fallback[Subject(p)]
    BY <1>0, <2>1 DEF MineTypes
  <2>5. EntryOK(p)'
    <3>1. \A a \in fallback[Subject(p)] : a \in hub /\ a.of = Subject(p)
      BY <1>0, <2>2 DEF Hub, ListingTrue
    <3>2. QED
      BY <1>1, <1>2, <2>1, <2>4, <3>1 DEF EntryOK, Attaching, Subject
  <2>6. WalkOK(p)'
    BY <1>2, <2>1, <2>4 DEF WalkOK, WalkSound
  <2>7. \A q \in Proc \ {p} : /\ pc'[q] = pc[q] /\ cmd'[q] = cmd[q] /\ entry'[q] = entry[q]
                              /\ work'[q] = work[q] /\ snap'[q] = snap[q]
    BY <1>0, <2>1 DEF MineTypes
  <2>8. Walks'
    BY <1>0, <2>1, <2>5, <2>6, <2>7, OthersKept
  <2>9. CopiesKept'
    BY <1>0, <2>1, <2>4, <2>7 DEF Hub, CopiesKept, Subject
  <2>10. Hub'
    BY <1>0, <2>1, <2>9 DEF Hub, RemoteTypes, HubClosed, ListingTrue
  <2>11. (HubInv <=> LocalTypes /\ MineTypes /\ Hub /\ Walks)'
    BY InvParts, PTL
  <2>12. QED
    BY <1>1, <2>3, <2>8, <2>10, <2>11
<1>5. QED
  BY <1>3, <1>4

(* Who writes an index back drops nothing that was reported before it was  *)
(* read; what it adds is dropped by nobody unless somebody else holds a    *)
(* copy of the same index, and then it counts as raced.                    *)
LEMMA WriteKeeps ==
    ASSUME HubInv, NEW p \in Proc, push_fallback_index(p) PROVE HubInv'
<1> DEFINE a == entry[p]
           m == entry[p].of
<1>0. LocalTypes /\ MineTypes /\ Hub /\ Walks
  BY InvParts
<1>1. /\ LocalTypes' /\ UNCHANGED <<local, api, hub, tags, left>> /\ pc[p] = "write"
      /\ raced' = IF Racing(p) THEN raced \cup {a} ELSE raced
  BY <1>0, LocalSame DEF push_fallback_index
<1>2. /\ a \in hub \cap Artifact /\ m \in Tagged /\ snap[p] \subseteq Artifact
      /\ \A b \in snap[p] : b \in hub /\ b.of = m
  BY <1>0, <1>1 DEF Walks, EntryOK, Attaching, Artifact, Subject, MineTypes
<1>3. Idle(p) /\ (reported' = reported \/ (PutIndex(p) /\ reported' = reported \cup {a}))
  <2>1. CASE PutIndex(p) /\ Reports(p)
    BY <2>1 DEF Reports
  <2>2. CASE Fails(p)
    BY <2>2 DEF Fails
  <2>3. QED
    BY <2>1, <2>2 DEF push_fallback_index
<1>4. \/ fallback' = fallback
      \/ fallback' = [fallback EXCEPT ![m] = upsert(snap[p], a)]
  BY DEF push_fallback_index, PutIndex, Subject
<1>5. PutIndex(p) => fallback' = [fallback EXCEPT ![m] = upsert(snap[p], a)]
  BY DEF PutIndex, Subject
<1>6. upsert(snap[p], a) = snap[p] \cup {a}
  BY DEF upsert
<1>7. fallback \in [Tagged -> SUBSET Artifact]
  BY <1>0 DEF Hub, RemoteTypes
<1>8. /\ fallback' \in [Tagged -> SUBSET Artifact]
      /\ \A n \in Tagged : fallback'[n] = fallback[n] \/ (n = m /\ fallback'[n] = snap[p] \cup {a})
      /\ PutIndex(p) => a \in fallback'[m]
  <2> DEFINE new == snap[p] \cup {a}
  <2>1. new \subseteq Artifact /\ a \in new /\ m \in Tagged
    BY <1>2
  <2> HIDE DEF new, a, m
  <2>2. fallback' = fallback \/ fallback' = [fallback EXCEPT ![m] = new]
    BY <1>4, <1>6 DEF new
  <2>3. PutIndex(p) => fallback' = [fallback EXCEPT ![m] = new]
    BY <1>5, <1>6 DEF new
  <2>4. /\ fallback' \in [Tagged -> SUBSET Artifact]
        /\ \A n \in Tagged : fallback'[n] = fallback[n] \/ (n = m /\ fallback'[n] = new)
        /\ PutIndex(p) => a \in fallback'[m]
    BY <1>7, <2>1, <2>2, <2>3
  <2>5. QED
    BY <2>4 DEF new
<1>9. MineTypes' /\ Walks'
  BY <1>0, <1>1, <1>3, IdleKeeps
<1>10. \A q \in Proc : pc'[q] = "write" =>
           q # p /\ pc[q] = "write" /\ entry'[q] = entry[q] /\ snap'[q] = snap[q]
  <2>1. \A q \in Proc : pc'[q] = "write" =>
           pc[q] = "write" /\ entry'[q] = entry[q] /\ snap'[q] = snap[q]
    BY <1>0, <1>1, <1>3, IdleKeeps
  <2>2. pc'[p] = "idle"
    BY <1>0, <1>3 DEF Idle, Goto, MineTypes
  <2>3. QED
    BY <2>1, <2>2
<1>11. RemoteTypes' /\ HubClosed'
  <2>1. reported' \subseteq reported \cup {a} /\ raced' \subseteq raced \cup {a}
    BY <1>1, <1>3
  <2>2. QED
    BY <1>0, <1>1, <1>2, <1>8, <2>1 DEF Hub, RemoteTypes, HubClosed, Manifest
<1>12. ListingTrue'
  BY <1>0, <1>1, <1>2, <1>8 DEF Hub, ListingTrue
<1>13. CopiesKept'
  <2> SUFFICES ASSUME ~api, NEW b \in (reported' \cap Artifact) \ raced'
               PROVE  /\ b \in fallback'[b.of]
                      /\ \A q \in Proc : pc'[q] = "write" /\ entry'[q].of = b.of => b \in snap'[q]
    BY <1>1 DEF CopiesKept, Subject
  <2>1. b \notin raced /\ b.of \in Tagged
    BY <1>1 DEF Artifact
  <2>2. CASE b \in reported
    <3>1. /\ b \in fallback[b.of]
          /\ \A q \in Proc : pc[q] = "write" /\ entry[q].of = b.of => b \in snap[q]
      BY <1>0, <2>1, <2>2 DEF Hub, CopiesKept, Subject
    <3>2. QED
      BY <1>1, <1>8, <1>10, <2>1, <3>1
  <2>3. CASE b \notin reported
    <3>1. b = a /\ PutIndex(p) /\ ~Racing(p)
      BY <1>1, <1>3, <2>3
    <3>2. \A q \in Proc \ {p} : ~(pc[q] = "write" /\ entry[q].of = m)
      BY <3>1 DEF Racing, Subject
    <3>3. QED
      BY <1>8, <1>10, <3>1, <3>2
  <2>4. QED
    BY <2>2, <2>3
<1>14. (HubInv <=> LocalTypes /\ MineTypes /\ Hub /\ Walks)'
  BY InvParts, PTL
<1>15. Hub'
  BY <1>11, <1>12, <1>13 DEF Hub
<1>16. QED
  BY <1>1, <1>9, <1>14, <1>15
----------------------------------------------------------------------------
(* Every step keeps the inductive invariant.                               *)
LEMMA PushStep == HubInv /\ [Next]_vars => HubInv'
<1> SUFFICES ASSUME HubInv, [Next]_vars PROVE HubInv'
  OBVIOUS
<1>1. CASE Layout
  BY <1>1, LayoutKeeps
<1>2. ASSUME NEW p \in Proc, Start(p) PROVE HubInv'
  BY <1>2, StartKeeps
<1>3. ASSUME NEW p \in Proc, Step(p) PROVE HubInv'
  BY <1>3, EmitKeeps, PushKeeps, TreeKeeps, BlobKeeps, BlobFailsKeeps, PutKeeps, WalkDoneKeeps,
     ProbeKeeps, PullKeeps, WriteKeeps DEF Step
<1>4. ASSUME NEW p \in Proc, Kill(p) PROVE HubInv'
  <2>1. LocalTypes
    BY InvParts
  <2>2. LocalTypes' /\ Fails(p) /\ UNCHANGED <<remote, raced>>
    BY <1>4, <2>1, LocalSame DEF Kill
  <2>3. QED
    BY <2>2, FailsStill
<1>5. CASE UNCHANGED vars
  <2>0. LocalTypes /\ MineTypes /\ Hub /\ Walks
    BY InvParts
  <2>1. UNCHANGED <<local, remote, mine, left, reported, raced>>
    BY <1>5 DEF vars
  <2>2. LocalTypes'
    BY <2>0, <2>1, LocalSame
  <2>3. MineTypes' /\ Hub'
    BY <2>0, <2>1 DEF remote, mine, MineTypes, Hub, RemoteTypes, HubClosed, ListingTrue,
                      CopiesKept, Subject
  <2>4. Walks'
    BY <2>0, <2>1 DEF remote, mine, Walks, EntryOK, WalkOK, Subject
  <2>5. (HubInv <=> LocalTypes /\ MineTypes /\ Hub /\ Walks)'
    BY InvParts, PTL
  <2>6. QED
    BY <2>2, <2>3, <2>4, <2>5
<1>6. QED
  BY <1>1, <1>2, <1>3, <1>4, <1>5 DEF Next

(* The registry is closed, what was reported is there, and every listing   *)
(* is true, through every interleaving of pushes, lost answers, kills and  *)
(* damage to the layout under them (push_manifest_tree, push_manifest_raw, *)
(* push_fallback_index).                                                   *)
THEOREM RegistryClosed == Spec => []HubInv
<1>1. Init => HubInv
  BY PushInit
<1>2. HubInv /\ [Next]_vars => HubInv'
  BY PushStep
<1>3. QED
  BY <1>1, <1>2, PTL DEF Spec

(* A referrer that push_referrer reported stays in what list_referrers     *)
(* returns, with and without a type, unless its index was written in a     *)
(* race.                                                                   *)
THEOREM ReportedIsListed == Spec => []ReferrerKept
<1>1. HubInv => ReferrerKept
  <2> SUFFICES ASSUME HubInv, NEW a \in (reported \cap Artifact) \ raced
               PROVE  a \in list_referrers(a.of, None) \cap list_referrers(a.of, artifact_type(a))
    BY DEF ReferrerKept
  <2>1. IF api THEN a \in {b \in hub \cap Artifact : b.of = a.of} ELSE a \in fallback[a.of]
    BY DEF HubInv, HubClosed, CopiesKept
  <2>2. QED
    BY <2>1 DEF list_referrers, filtered
<1>2. QED
  BY <1>1, RegistryClosed, PTL
============================================================================
