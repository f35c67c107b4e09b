---------------------------- MODULE RegistryPush ----------------------------
(***************************************************************************)
(* What umf sends to a registry: images, by umf push, build --push and     *)
(* index --push, and the artifacts that refer to an image, by umf sign,    *)
(* attest and sbom with --push.  A push walks the manifest tree in the     *)
(* local layout and uploads parts before wholes; a referrer is then made   *)
(* listable, by the registry itself where it has the referrers API and by  *)
(* the client otherwise, which reads, changes and writes back an index     *)
(* under a tag made from the subject's digest.  Several processes do this  *)
(* at once.  Requests fail before or after they take effect, processes are *)
(* killed, and the layout is retagged, pruned and damaged under them.      *)
(***************************************************************************)
EXTENDS Naturals, Sequences, FiniteSets, SequencesExt

CONSTANTS
    Proc,      \* processes
    Tag,       \* references, each a name in the layout and a tag of the registry
    Index,     \* image indexes
    Image,     \* image manifests
    Leaf,      \* configs and layers
    Parts,     \* what an index or an image consists of, in order
    Tagged,    \* what builds, pulls and compositions give a name
    Empty,     \* the empty-JSON config of an artifact
    None,
    MAX_BLOB_ATTEMPTS,
    MaxCommands, MaxRot    \* bounds: commands run, blobs damaged

Cmd        == [do : {"push", "attach"}, tag : Tag]
Kind       == {"signature", "attestation", "sbom", "generated"}
Artifact   == [kind : Kind, of : Tagged]
Payload(a) == [payload |-> a]
Manifest   == Index \cup Image \cup Artifact
Digest     == Manifest \cup Leaf \cup {Empty} \cup {Payload(a) : a \in Artifact}

ASSUME PushAssumption ==
    /\ Parts \in [Index \cup Image -> Seq(Image \cup Leaf)]
    /\ \A x \in Index : Range(Parts[x]) \subseteq Image
    /\ \A m \in Image : Range(Parts[m]) \subseteq Leaf
    /\ Tagged \subseteq Index \cup Image
    /\ Index \cap Image = {} /\ (Index \cup Image) \cap Artifact = {}
    /\ Manifest \cap (Leaf \cup {Empty} \cup {Payload(a) : a \in Artifact}) = {}
    /\ None \notin Digest
    /\ MAX_BLOB_ATTEMPTS \in Nat \ {0} /\ {MaxCommands, MaxRot} \subseteq Nat

VARIABLES
    names,     \* the layout's index.json: what a name stands for
    untagged,  \* its entries without a name
    disk,      \* the layout's blob files
    rot,       \* those that are damaged
    api,       \* whether the registry serves the referrers API
    hub,       \* blobs and manifests that the registry has
    tags,      \* what a tag of the registry stands for
    fallback,  \* the index under the fallback tag of a digest
    pc, cmd,   \* where a process is, and its command
    entry,     \* the manifest that it pushes
    work,      \* what is left of the walk: trees, blobs and manifests
    tries,     \* attempts at the blob in hand
    snap,      \* the fallback index that it read
    left,      \* commands that may still be run
    reported,  \* manifests that a command has reported as pushed
    raced      \* referrers whose index was written while another process
               \* held a copy of it

local  == <<names, untagged, disk, rot>>
remote == <<api, hub, tags, fallback>>
mine   == <<pc, cmd, entry, work, tries, snap>>
vars   == <<local, remote, mine, left, reported, raced>>

Named      == {names[t] : t \in Tag} \ {None}
Intact(d)  == d \in disk \ rot
Content(m) == IF m \in Artifact THEN <<Empty, Payload(m)>> ELSE Parts[m]
Tree(m) == {m} \cup Range(Content(m))
           \cup UNION {Range(Content(c)) : c \in Range(Content(m)) \cap Manifest}
Goto(p, l) == pc' = [pc EXCEPT ![p] = l]

Init ==
    /\ names \in [Tag -> Tagged \cup {None}] /\ untagged = {}
    /\ disk = UNION {Tree(m) : m \in Named} /\ rot = {}
    /\ api \in BOOLEAN /\ hub = {} /\ tags = [t \in Tag |-> None]
    /\ fallback = [m \in Tagged |-> {}]
    /\ pc = [p \in Proc |-> "idle"] /\ cmd = [p \in Proc |-> None]
    /\ entry = [p \in Proc |-> None] /\ work = [p \in Proc |-> <<>>]
    /\ tries = [p \in Proc |-> 1] /\ snap = [p \in Proc |-> {}]
    /\ left = MaxCommands /\ reported = {} /\ raced = {}
----------------------------------------------------------------------------
(* The layout, as other commands leave it.  A build, a pull or a composed  *)
(* index stores the whole tree and takes a name; what is on disk already   *)
(* is not written again, damaged or not.                                   *)

Command == left > 0 /\ left' = left - 1

SetName(t, m) ==
    /\ names' = [names EXCEPT ![t] = m] /\ disk' = disk \cup Tree(m)
    /\ UNCHANGED <<untagged, rot>>

remove_ref(t) ==
    /\ names[t] # None
    /\ names' = [names EXCEPT ![t] = None] /\ Command
    /\ UNCHANGED <<untagged, disk, rot, remote, mine, reported, raced>>

(* A manifest that is absent has no known parts; one that is damaged stops *)
(* the walk, and with it the prune.                                        *)
Known(S) == S \cup UNION {Range(Content(m)) : m \in {n \in S \cap Manifest : Intact(n)}}
Live     == Known(Known(untagged \cup Named))

prune_blobs ==
    /\ Command /\ Live \cap Manifest \cap rot = {}
    /\ ~(disk \subseteq Live)
    /\ disk' = disk \cap Live /\ rot' = rot \cap Live
    /\ UNCHANGED <<names, untagged, remote, mine, reported, raced>>

Rot ==
    /\ Cardinality(rot) < MaxRot
    /\ \E d \in disk \ rot : rot' = rot \cup {d}
    /\ UNCHANGED <<names, untagged, disk, remote, mine, left, reported, raced>>
----------------------------------------------------------------------------
(* The end of a command; an error at any point is printed and is its end.  *)

Idle(p) ==
    /\ Goto(p, "idle") /\ cmd' = [cmd EXCEPT ![p] = None]
    /\ entry' = [entry EXCEPT ![p] = None] /\ work' = [work EXCEPT ![p] = <<>>]
    /\ tries' = [tries EXCEPT ![p] = 1] /\ snap' = [snap EXCEPT ![p] = {}]

Fails(p)   == Idle(p) /\ UNCHANGED reported
Reports(p) == Idle(p) /\ reported' = reported \cup {entry[p]}

Kill(p) ==
    /\ pc[p] # "idle" /\ Fails(p)
    /\ UNCHANGED <<local, remote, left, raced>>
----------------------------------------------------------------------------
(* Commands.                                                               *)

Begin(p, c, l) ==
    /\ pc[p] = "idle" /\ Command
    /\ cmd' = [cmd EXCEPT ![p] = c] /\ Goto(p, l)
    /\ UNCHANGED <<remote, entry, work, tries, snap, reported, raced>>

(* umf push looks the name up to refuse an unknown one, and push looks it  *)
(* up again.                                                               *)
run_push_subcommand(p, t) ==
    /\ names[t] # None
    /\ Begin(p, [do |-> "push", tag |-> t], "push") /\ UNCHANGED local

(* build --push and index --push have given the name to what they made.    *)
build_and_push(p, t, m) ==
    /\ Begin(p, [do |-> "push", tag |-> t], "push") /\ SetName(t, m)

(* The same without --push.                                                *)
Retag(t, m) ==
    /\ names[t] # m /\ SetName(t, m) /\ Command
    /\ UNCHANGED <<remote, mine, reported, raced>>

(* The commands that attach an artifact resolve their subject once, and    *)
(* make the same document, to the byte, when they are repeated.            *)
(* Without --push they end after upsert_untagged, which Kill stands for.   *)
Attach(p, k, t) ==
    /\ names[t] # None
    /\ pc[p] = "idle" /\ Command
    /\ cmd' = [cmd EXCEPT ![p] = [do |-> "attach", tag |-> t]]
    /\ entry' = [entry EXCEPT ![p] = [kind |-> k, of |-> names[t]]]
    /\ Goto(p, "emit")
    /\ UNCHANGED <<local, remote, work, tries, snap, reported, raced>>

(* Three read index.json and what they are given, not the subject itself.  *)
run_sign(p, t)   == Attach(p, "signature", t)
run_attest(p, t) == Attach(p, "attestation", t)
run_attach(p, t) == Attach(p, "sbom", t)

(* umf sbom generate scans an image, of which it reads the manifest and    *)
(* the layers, and refuses an index.                                       *)
run_generate(p, t) ==
    LET m == names[t]
    IN  /\ m \in Image /\ \A d \in {m} \cup Range(Tail(Parts[m])) : Intact(d)
        /\ Attach(p, "generated", t)

(* emit_artifact_manifest stores the empty config, the payload and the     *)
(* manifest, and then the entry that makes them reachable; a prune may     *)
(* come before the entry.                                                  *)
emit_artifact_manifest(p) ==
    /\ pc[p] = "emit"
    /\ disk' = disk \cup Tree(entry[p]) /\ Goto(p, "upsert")
    /\ UNCHANGED <<names, untagged, rot, remote, cmd, entry, work, tries, snap, left, reported, raced>>

upsert_untagged(p) ==
    /\ pc[p] = "upsert"
    /\ untagged' = untagged \cup {entry[p]} /\ Goto(p, "referrer")
    /\ UNCHANGED <<names, disk, rot, remote, cmd, entry, work, tries, snap, left, reported, raced>>
----------------------------------------------------------------------------
(* Images and artifacts go up the same way.                                *)

Auth(p, m) ==
    \/ /\ Goto(p, "walk") /\ entry' = [entry EXCEPT ![p] = m]
       /\ work' = [work EXCEPT ![p] = <<[do |-> "tree", of |-> m]>>]
       /\ UNCHANGED <<cmd, tries, snap, reported>>
    \/ Fails(p)

push(p) ==
    /\ pc[p] = "push"
    /\ LET m == names[cmd[p].tag] IN IF m # None THEN Auth(p, m) ELSE Fails(p)
    /\ UNCHANGED <<local, remote, left, raced>>

push_referrer(p) ==
    /\ pc[p] = "referrer"
    /\ IF Intact(entry[p]) THEN Auth(p, entry[p]) ELSE Fails(p)
    /\ UNCHANGED <<local, remote, left, raced>>

At(p, what) == pc[p] = "walk" /\ work[p] # <<>> /\ Head(work[p]).do = what
Now(p)      == Head(work[p]).of
Next1(p)    == /\ work' = [work EXCEPT ![p] = Tail(@)] /\ tries' = [tries EXCEPT ![p] = 1]
               /\ UNCHANGED <<pc, cmd, entry, snap, reported>>

(* A faulty variant: the manifest goes first.                              *)
TasksTopDown(m) ==
    <<[do |-> "put", of |-> m]>>
    \o [i \in DOMAIN Content(m) |-> [do |-> IF m \in Index THEN "tree" ELSE "blob", of |-> Content(m)[i]]]

(* Parts, then the manifest, whose bytes have been read by then.           *)
Tasks(m) ==
    [i \in DOMAIN Content(m) |-> [do |-> IF m \in Index THEN "tree" ELSE "blob", of |-> Content(m)[i]]]
    \o <<[do |-> "put", of |-> m]>>

push_manifest_tree(p) ==
    /\ At(p, "tree")
    /\ IF Intact(Now(p))
       THEN /\ work' = [work EXCEPT ![p] = Tasks(Now(p)) \o Tail(@)]
            /\ UNCHANGED <<pc, cmd, entry, tries, snap, reported>>
       ELSE Fails(p)
    /\ UNCHANGED <<local, remote, left, raced>>

(* The file is streamed without being hashed; the registry compares the    *)
(* digest and refuses a damaged one.                                       *)
push_blob_attempt(p) ==
    /\ At(p, "blob") /\ Intact(Now(p))
    /\ hub' = hub \cup {Now(p)} /\ Next1(p)
    /\ UNCHANGED <<local, api, tags, fallback, left, raced>>

(* A faulty variant: the last attempt is not looked at.                    *)
retry_backoffGivesUp(p) ==
    IF tries[p] < MAX_BLOB_ATTEMPTS
    THEN /\ tries' = [tries EXCEPT ![p] = @ + 1]
         /\ UNCHANGED <<pc, cmd, entry, work, snap, reported>>
    ELSE Next1(p)

(* A faulty variant: the attempt is not counted.                           *)
retry_backoffUncounted(p) == UNCHANGED <<mine, reported>>

(* Every error of an attempt is one of transport, a file that cannot be    *)
(* read included, hence transient.                                         *)
retry_backoff(p) ==
    IF tries[p] < MAX_BLOB_ATTEMPTS
    THEN /\ tries' = [tries EXCEPT ![p] = @ + 1]
         /\ UNCHANGED <<pc, cmd, entry, work, snap, reported>>
    ELSE Fails(p)

push_blob_fails(p) ==
    /\ At(p, "blob")
    /\ \/ UNCHANGED hub
       \/ Intact(Now(p)) /\ hub' = hub \cup {Now(p)}
    /\ retry_backoff(p)
    /\ UNCHANGED <<local, api, tags, fallback, left, raced>>

(* The manifests of an index are put under the tag of the index; the       *)
(* artifacts under their own digest.                                       *)
Put(p) ==
    /\ hub' = hub \cup {Now(p)}
    /\ tags' = IF cmd[p].do = "push" THEN [tags EXCEPT ![cmd[p].tag] = Now(p)] ELSE tags

push_manifest_raw(p) ==
    /\ At(p, "put")
    /\ \/ Put(p) /\ Next1(p)
       \/ (Put(p) \/ UNCHANGED <<hub, tags>>) /\ Fails(p)
    /\ UNCHANGED <<local, api, fallback, left, raced>>

walk_done(p) ==
    /\ pc[p] = "walk" /\ work[p] = <<>>
    /\ IF cmd[p].do = "push" THEN Reports(p)
       ELSE Goto(p, "probe") /\ UNCHANGED <<cmd, entry, work, tries, snap, reported>>
    /\ UNCHANGED <<local, remote, left, raced>>
----------------------------------------------------------------------------
(* Referrers.                                                              *)

Subject(p) == entry[p].of

(* The probe answers, answers that there is no such endpoint, or fails.    *)
probe_referrers(p) ==
    /\ pc[p] = "probe"
    /\ \/ api /\ Reports(p)
       \/ ~api /\ Goto(p, "fallback") /\ UNCHANGED <<cmd, entry, work, tries, snap, reported>>
       \/ Fails(p)
    /\ UNCHANGED <<local, remote, left, raced>>

(* A faulty variant: an index that cannot be read is taken for none.       *)
pull_fallback_indexLenient(p) ==
    /\ pc[p] = "fallback"
    /\ \E read \in {fallback[Subject(p)], {}} :
          /\ snap' = [snap EXCEPT ![p] = read] /\ Goto(p, "write")
          /\ UNCHANGED <<cmd, entry, work, tries, reported>>
    /\ UNCHANGED <<local, remote, left, raced>>

(* A tag that is missing is the empty index; any other error is an error.  *)
pull_fallback_index(p) ==
    /\ pc[p] = "fallback"
    /\ \/ /\ snap' = [snap EXCEPT ![p] = fallback[Subject(p)]] /\ Goto(p, "write")
          /\ UNCHANGED <<cmd, entry, work, tries, reported>>
       \/ Fails(p)
    /\ UNCHANGED <<local, remote, left, raced>>

upsert(ix, a) == {d \in ix : d # a} \cup {a}

(* Who else holds a copy that is about to be written back.                 *)
Racing(p) == \E q \in Proc \ {p} : pc[q] = "write" /\ Subject(q) = Subject(p)

PutIndex(p) == fallback' = [fallback EXCEPT ![Subject(p)] = upsert(snap[p], entry[p])]

push_fallback_index(p) ==
    /\ pc[p] = "write"
    /\ \/ PutIndex(p) /\ Reports(p)
       \/ (PutIndex(p) \/ UNCHANGED fallback) /\ Fails(p)
    /\ raced' = IF Racing(p) THEN raced \cup {entry[p]} ELSE raced
    /\ UNCHANGED <<local, api, hub, tags, left>>

(* What a client that lists the referrers of m sees.  The API filters by   *)
(* type in the registry, the fallback path in the client.                  *)
artifact_type(a) == IF a.kind \in {"sbom", "generated"} THEN "cyclonedx" ELSE "cosign"
filtered(S, type) == {a \in S : type = None \/ artifact_type(a) = type}

list_referrers(m, type) ==
    filtered(IF api THEN {a \in hub \cap Artifact : a.of = m} ELSE fallback[m], type)
----------------------------------------------------------------------------
Start(p) ==
    \E t \in Tag : \/ run_push_subcommand(p, t)
                   \/ \E m \in Tagged : build_and_push(p, t, m)
                   \/ run_sign(p, t) \/ run_attest(p, t)
                   \/ run_attach(p, t) \/ run_generate(p, t)

Step(p) ==
    \/ emit_artifact_manifest(p) \/ upsert_untagged(p)
    \/ push(p) \/ push_referrer(p) \/ push_manifest_tree(p)
    \/ push_blob_attempt(p) \/ push_blob_fails(p) \/ push_manifest_raw(p) \/ walk_done(p)
    \/ probe_referrers(p) \/ pull_fallback_index(p) \/ push_fallback_index(p)

Layout ==
    \/ \E t \in Tag : remove_ref(t) \/ \E m \in Tagged : Retag(t, m)
    \/ prune_blobs \/ Rot

Next == Layout \/ \E p \in Proc : Start(p) \/ Step(p) \/ Kill(p)

(* A process that has started a command goes on; every request is answered *)
(* or times out.                                                           *)
Spec == Init /\ [][Next]_vars /\ \A p \in Proc : WF_vars(Step(p))
----------------------------------------------------------------------------
TypeOK ==
    /\ names \in [Tag -> Tagged \cup {None}] /\ untagged \subseteq Artifact
    /\ rot \subseteq disk /\ disk \subseteq Digest
    /\ api \in BOOLEAN /\ hub \subseteq Digest
    /\ tags \in [Tag -> Index \cup Image \cup {None}]
    /\ fallback \in [Tagged -> SUBSET Artifact]
    /\ pc \in [Proc -> {"idle", "push", "emit", "upsert", "referrer", "walk", "probe",
                        "fallback", "write"}]
    /\ cmd \in [Proc -> Cmd \cup {None}]
    /\ entry \in [Proc -> Manifest \cup {None}]
    /\ work \in [Proc -> Seq([do : {"tree", "blob", "put"}, of : Digest])]
    /\ tries \in [Proc -> 1..MAX_BLOB_ATTEMPTS]
    /\ snap \in [Proc -> SUBSET Artifact]
    /\ left \in 0..MaxCommands
    /\ reported \subseteq Manifest /\ raced \subseteq Artifact

(* The registry never has a manifest without everything it names, however  *)
(* pushes interleave, fail, lose answers or are killed, and whatever       *)
(* happens to the layout under them; what a command reported as pushed is  *)
(* there, so with all its tree; what a tag stands for is there.            *)
HubClosed ==
    /\ \A m \in hub \cap Manifest : Range(Content(m)) \subseteq hub
    /\ reported \subseteq hub
    /\ \A t \in Tag : tags[t] # None => tags[t] \in hub

(* What is listed as a referrer has been pushed and refers to the subject  *)
(* it is listed under.                                                     *)
ListingTrue == \A m \in Tagged : \A a \in fallback[m] : a \in hub /\ a.of = m

(* What a command has in hand by its point: the subject or the artifact    *)
(* that it pushes, and a copy of the index that lists the artifact's kin.  *)
Attaching == {"emit", "upsert", "referrer", "probe", "fallback", "write"}
EntryInv ==
    \A p \in Proc :
        /\ pc[p] # "idle" => cmd[p] \in Cmd
        /\ pc[p] = "push" => cmd[p].do = "push"
        /\ pc[p] \in Attaching => cmd[p].do = "attach"
        /\ pc[p] \in Attaching \cup {"walk"} =>
              IF cmd[p].do = "attach" THEN entry[p] \in Artifact ELSE entry[p] \in Tagged
        /\ pc[p] \in {"probe", "fallback", "write"} => entry[p] \in hub
        /\ pc[p] = "write" => \A a \in snap[p] : a \in hub /\ a.of = Subject(p)

(* The walk: a blob is no manifest, and what a manifest to be put consists *)
(* of is in the registry or ahead of it; so is, in the end, the entry.     *)
WalkInv ==
    \A p \in Proc :
        /\ pc[p] # "walk" => work[p] = <<>>
        /\ pc[p] = "walk" => entry[p] \in hub \/ \E i \in DOMAIN work[p] : work[p][i].of = entry[p]
        /\ \A i \in DOMAIN work[p] :
             LET d == work[p][i].of
             IN  CASE work[p][i].do = "blob" -> d \notin Manifest
                   [] OTHER -> /\ d \in Manifest
                               /\ cmd[p].do = "push" => d \in Index \cup Image
                               /\ work[p][i].do = "put" =>
                                    \A e \in Range(Content(d)) :
                                        e \in hub \/ \E j \in 1..(i - 1) : work[p][j].of = e

(* Who holds a copy of an index holds every referrer that was reported and *)
(* not raced.                                                              *)
CopiesKept ==
    ~api => \A a \in (reported \cap Artifact) \ raced :
        /\ a \in fallback[a.of]
        /\ \A q \in Proc : pc[q] = "write" /\ Subject(q) = a.of => a \in snap[q]

(* The state of the registry: well typed, closed, with true listings, and  *)
(* with pushes under way that will leave it so.                            *)
HubInv == TypeOK /\ HubClosed /\ ListingTrue /\ EntryInv /\ WalkInv /\ CopiesKept

(* A referrer that a command has reported stays listed, under its type and *)
(* without a filter, unless its index was written while another process    *)
(* held a copy, which push_referrer's comment concedes.  Failed, repeated  *)
(* and killed pushes of other referrers lose nothing.                      *)
ReferrerKept ==
    \A a \in (reported \cap Artifact) \ raced :
        a \in list_referrers(a.of, None) \cap list_referrers(a.of, artifact_type(a))

(* A command ends: attempts are counted and nobody waits for anybody.      *)
PushesEnd == \A p \in Proc : pc[p] # "idle" ~> pc[p] = "idle"
=============================================================================
