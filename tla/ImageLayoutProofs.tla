------------------------- MODULE ImageLayoutProofs -------------------------
(***************************************************************************)
(* Proofs about ImageLayout, for any number of processes, names, blobs and *)
(* archives, and any sharing between images.                               *)
(***************************************************************************)
EXTENDS ImageLayout, TLAPS

USE DEF Manifests, Leaves

(***************************************************************************)
(* What Reach is: the least closed set around a digest.                    *)
(***************************************************************************)

(* A digest reaches itself.                                                *)
LEMMA ReachSelf == \A d \in Digest : d \in Reach[d] /\ Reach[d] \subseteq Digest
BY DEF Reach

(* Whatever closed set holds d holds all d reaches.                        *)
LEMMA ReachLeast ==
    ASSUME NEW S \in SUBSET Digest, Closed(S), NEW d \in S
    PROVE  Reach[d] \subseteq S
BY DEF Reach

(* What d reaches is closed.                                               *)
LEMMA ReachClosed == \A d \in Digest : Closed(Reach[d])
<1> SUFFICES ASSUME NEW d \in Digest, NEW y \in Reach[d], NEW z \in Links[y]
             PROVE  z \in Reach[d]
  BY DEF Closed
<1>1. y \in Digest /\ z \in Digest
  BY ReachSelf, LayoutAssumption
<1>2. ASSUME NEW S \in SUBSET Digest, d \in S, Closed(S) PROVE z \in S
  <2>1. y \in S BY <1>2 DEF Reach
  <2> QED BY <2>1, <1>2 DEF Closed
<1> QED BY <1>1, <1>2 DEF Reach

(* A child reaches no more than its parent.                                *)
LEMMA ReachChild ==
    ASSUME NEW d \in Digest, NEW k \in Links[d]
    PROVE  k \in Digest /\ Reach[k] \subseteq Reach[d]
<1>1. k \in Digest BY LayoutAssumption
<1>2. k \in Reach[d] BY ReachSelf, ReachClosed DEF Closed
<1> QED BY <1>1, <1>2, ReachSelf, ReachClosed, ReachLeast

(* A parent reaches itself and what its children reach, no more.           *)
LEMMA ReachParent ==
    ASSUME NEW d \in Digest, NEW S \in SUBSET Digest,
           d \in S, \A k \in Links[d] : Reach[k] \subseteq S
    PROVE  Reach[d] \subseteq S
<1> DEFINE T == {d} \cup UNION {Reach[k] : k \in Links[d]}
<1>1. T \in SUBSET Digest
  BY ReachSelf, LayoutAssumption
<1>2. Closed(T)
  <2> SUFFICES ASSUME NEW y \in T, NEW z \in Links[y] PROVE z \in T
    BY DEF Closed
  <2>1. CASE y = d
    BY <2>1, ReachSelf, LayoutAssumption
  <2>2. CASE y \in UNION {Reach[k] : k \in Links[d]}
    <3>1. PICK k \in Links[d] : y \in Reach[k] BY <2>2
    <3>2. z \in Reach[k] BY <3>1, ReachClosed, LayoutAssumption DEF Closed
    <3> QED BY <3>2
  <2> QED BY <2>1, <2>2
<1>3. Reach[d] \subseteq T
  <2> HIDE DEF T
  <2>1. d \in T BY DEF T
  <2> QED BY <1>1, <1>2, <2>1, ReachLeast
<1> QED BY <1>3

(***************************************************************************)
(* Type correctness.                                                       *)
(***************************************************************************)

LEMMA TypeInit == Init => TypeOK
BY LayoutAssumption DEF Init, TypeOK, Points, Kinds

(* The helpers through which processes change their memory keep its type.  *)
LEMMA ReturnType ==
    ASSUME TypeOK, NEW p \in Proc, Return(p), blobs' \in [Digest -> {"absent", "ok", "bad"}],
           index' \subseteq Entries, rots' \in 0 .. MaxRot, lost' \subseteq Digest
    PROVE  TypeOK'
BY LayoutAssumption DEF TypeOK, Return, Points, Kinds

LEMMA StartType ==
    ASSUME TypeOK, NEW p \in Proc, NEW k \in Kinds,
           NEW pt \in Points \ {"fetch", "write", "persist"},
           NEW ns \in SUBSET Ref, NEW es \in SUBSET Entries, NEW ds \in SUBSET Digest,
           Start(p, k, pt, ns, es, ds)
    PROVE  TypeOK'
BY DEF TypeOK, Start, Shares, Flaws, Goto

LEMMA StoredType ==
    ASSUME TypeOK, NEW p \in Proc, Stored(p), pc[p] \in {"write", "persist"},
           blobs' \in [Digest -> {"absent", "ok", "bad"}], lost' \subseteq Digest,
           UNCHANGED <<index, rots>>
    PROVE  TypeOK'
BY LayoutAssumption DEF TypeOK, Stored, Goto, Points

LEMMA RetryType ==
    ASSUME TypeOK, NEW p \in Proc, Retry(p), pc[p] \in {"fetch", "persist"}, UNCHANGED <<blobs, lost, index, rots>>
    PROVE  TypeOK'
BY LayoutAssumption DEF TypeOK, Retry, Goto, Points

LEMMA BeginType ==
    ASSUME TypeOK, NEW p \in Proc, Begin(p) PROVE TypeOK'
<1> USE LayoutAssumption, ArchiveAssumption DEF Entries, Kinds, Points
<1>1. CASE pull(p)
  <2>1. PICK r \in Ref, d \in Remote :
           Start(p, "pull", "get", {}, {[ref |-> r, digest |-> d]}, {d})
    BY <1>1 DEF pull
  <2>2. [ref |-> r, digest |-> d] \in Entries
    OBVIOUS
  <2> QED BY <2>1, <2>2, StartType
<1>2. CASE emit(p)
  <2>1. PICK r \in Ref \cup {NoRef}, d \in Built :
           Start(p, "emit", "get", {}, {[ref |-> r, digest |-> d]}, Links[d] \cup {d})
    BY <1>2 DEF emit
  <2>2. [ref |-> r, digest |-> d] \in Entries
    OBVIOUS
  <2> QED BY <2>1, <2>2, StartType
<1>3. CASE run_index(p)
  <2>1. PICK r \in Ref, d \in Composed :
           Start(p, "compose", "resolve", {}, {[ref |-> r, digest |-> d]}, Links[d])
    BY <1>3 DEF run_index
  <2>2. [ref |-> r, digest |-> d] \in Entries
    OBVIOUS
  <2> QED BY <2>1, <2>2, StartType
<1>4. CASE load_from_reader(p)
  <2>1. PICK ar \in Archives :
           \/ Start(p, "load", "preflight", {e.ref : e \in ar.entries}, ar.entries, ar.blobs)
           \/ Start(p, "reload", "preflight", {}, ar.entries, ar.blobs)
    BY <1>4 DEF load_from_reader
  <2>2. {e.ref : e \in ar.entries} \in SUBSET Ref
    BY <2>1
  <2> QED BY <2>1, <2>2, StartType
<1>5. CASE save_to_writer(p)
  <2>1. PICK rs \in SUBSET Ref : Start(p, "save", "roots", rs, {}, {})
    BY <1>5 DEF save_to_writer
  <2> QED BY <2>1, StartType
<1>6. CASE run_images(p)
  <2>1. PICK rs \in SUBSET Ref : \/ Start(p, "prune", "remove", rs, {}, {})
                                \/ Start(p, "remove", "remove", rs, {}, {})
    BY <1>6 DEF run_images
  <2> QED BY <2>1, StartType
<1> QED BY <1>1, <1>2, <1>3, <1>4, <1>5, <1>6 DEF Begin

LEMMA PutType ==
    ASSUME TypeOK, NEW p \in Proc, Put(p) PROVE TypeOK'
<1> USE LayoutAssumption
<1>a. {"idle", "get", "fetch", "write", "persist", "resolve", "reread"} \subseteq Points
  BY DEF Points
<1>1. CASE TakeBlob(p)
  BY <1>1, <1>a DEF TakeBlob, NextUp, Goto, TypeOK
<1>2. CASE SkipCachedBlob(p)
  BY <1>2 DEF SkipCachedBlob, NextUp, TypeOK
<1>3. CASE Fetch(p)
  BY <1>3, <1>a DEF Fetch, Goto, TypeOK, local
<1>4. CASE FetchFails(p)
  BY <1>4, ReturnType, RetryType DEF FetchFails, TypeOK
<1>5. CASE write_blob_with_digest(p)
  <2>1. CASE has_blob(cur[p]) /\ Stored(p)
    BY <1>5, <2>1, StoredType DEF write_blob_with_digest, has_blob, TypeOK
  <2>2. CASE ~ (has_blob(cur[p]) /\ Stored(p))
    <3>1. /\ pc[p] = "write" /\ Goto(p, "persist") /\ tmp' = [tmp EXCEPT ![p] = TRUE]
          /\ UNCHANGED <<blobs, lost, index, rots, kind, names, ents, todo, done, cur, tries, snap, flaw>>
      BY <1>5, <2>2 DEF write_blob_with_digest
    <3> QED BY <3>1, <1>a DEF Goto, TypeOK
  <2> QED BY <2>1, <2>2
<1>6. CASE Persist(p)
  <2>1. CASE Stored(p)
    BY <1>6, <2>1, StoredType DEF Persist, TypeOK
  <2>2. CASE ~ Stored(p)
    BY <1>6, <2>2, ReturnType, RetryType DEF Persist, TypeOK
  <2> QED BY <2>1, <2>2
<1>7. CASE resolve_child(p)
  <2>1. CASE Return(p)
    BY <1>7, <2>1, ReturnType DEF resolve_child, TypeOK
  <2>2. CASE ~ Return(p)
    BY <1>7, <2>2, <1>a DEF resolve_child, Goto, TypeOK
  <2> QED BY <2>1, <2>2
<1>8. CASE emit_index(p)
  <2>1. CASE Return(p)
    BY <1>8, <2>1, ReturnType DEF emit_index, TypeOK
  <2>2. CASE ~ Return(p)
    BY <1>8, <2>2, <1>a DEF emit_index, Goto, TypeOK, Entries
  <2> QED BY <2>1, <2>2
<1>9. CASE preflight(p)
  <2>1. CASE Return(p)
    BY <1>9, <2>1, ReturnType DEF preflight, TypeOK
  <2>2. CASE ~ Return(p)
    BY <1>9, <2>2, <1>a DEF preflight, Goto, TypeOK, local
  <2> QED BY <2>1, <2>2
<1> QED BY <1>1, <1>2, <1>3, <1>4, <1>5, <1>6, <1>7, <1>8, <1>9 DEF Put

LEMMA UpsertType ==
    ASSUME NEW ix \in SUBSET Entries, NEW e \in Entries
    PROVE  Upsert(ix, e) \in SUBSET Entries
BY DEF Upsert, upsert_ref, upsert_untagged

LEMMA RecordType ==
    ASSUME TypeOK, NEW p \in Proc, Record(p) PROVE TypeOK'
<1>a. {"read", "commit"} \subseteq Points
  BY DEF Points
<1>1. CASE AllStored(p)
  BY <1>1, <1>a, ReturnType DEF AllStored, Goto, TypeOK, local
<1>2. CASE read_index(p)
  BY <1>2, <1>a DEF read_index, Goto, TypeOK
<1>3. CASE write_index(p)
  <2>1. PICK e \in ents[p] :
          /\ index' = Upsert(snap[p], e)
          /\ \/ Return(p)
             \/ /\ Goto(p, "read")
                /\ ents' = [ents EXCEPT ![p] = @ \ {e}]
                /\ snap' = [snap EXCEPT ![p] = {}]
                /\ UNCHANGED <<kind, names, todo, done, cur, tries, tmp, flaw>>
    BY <1>3 DEF write_index
  <2>2. index' \subseteq Entries /\ pc[p] = "commit" /\ UNCHANGED <<blobs, lost, rots>>
    BY <1>3, <2>1, UpsertType DEF write_index, TypeOK
  <2>3. CASE Return(p)
    BY <2>2, <2>3, ReturnType DEF TypeOK
  <2>4. CASE ~ Return(p)
    BY <2>1, <2>2, <2>4, <1>a DEF Goto, TypeOK
  <2> QED BY <2>3, <2>4
<1> QED BY <1>1, <1>2, <1>3 DEF Record

LEMMA CollectType ==
    ASSUME TypeOK, NEW p \in Proc, Collect(p) PROVE TypeOK'
<1> USE LayoutAssumption
<1>a. {"remove", "removing", "roots", "walk", "sweep", "stream"} \subseteq Points
  BY DEF Points
<1>1. CASE RemoveRead(p)
  BY <1>1, <1>a DEF RemoveRead, Goto, TypeOK
<1>2. CASE RemoveWrite(p)
  <2>1. \E r \in names[p] : /\ names' = [names EXCEPT ![p] = @ \ {r}]
                            /\ index' = index \/ index' = remove_ref(snap[p], r)
    BY <1>2 DEF RemoveWrite
  <2>2. index' \subseteq Entries
    BY <2>1 DEF remove_ref, TypeOK
  <2> QED BY <1>2, <2>1, <2>2, <1>a DEF RemoveWrite, Goto, TypeOK
<1>3. CASE RemoveEnd(p)
  BY <1>3, <1>a, ReturnType DEF RemoveEnd, Goto, TypeOK, local
<1>4. CASE read_roots(p)
  <2>1. CASE Return(p)
    BY <1>4, <2>1, ReturnType DEF read_roots, TypeOK
  <2>2. CASE ~ Return(p)
    BY <1>4, <2>2, <1>a DEF read_roots, Roots, Goto, TypeOK, Entries
  <2> QED BY <2>1, <2>2
<1>5. CASE collect_reachable(p)
  <2>1. CASE Return(p)
    BY <1>5, <2>1, ReturnType DEF collect_reachable, TypeOK
  <2>2. CASE ~ Return(p)
    BY <1>5, <2>2 DEF collect_reachable, Misses, Flaws, TypeOK
  <2> QED BY <2>1, <2>2
<1>6. CASE WalkEnd(p)
  BY <1>6, <1>a DEF WalkEnd, Present, Goto, TypeOK
<1>7. CASE prune_dir(p)
  BY <1>7 DEF prune_dir, Unlink, TypeOK
<1>8. CASE write_file_entry(p)
  <2>1. CASE Return(p)
    BY <1>8, <2>1, ReturnType DEF write_file_entry, TypeOK
  <2>2. CASE ~ Return(p)
    BY <1>8, <2>2 DEF write_file_entry, TypeOK
  <2> QED BY <2>1, <2>2
<1>9. CASE Finish(p)
  BY <1>9, ReturnType DEF Finish, TypeOK
<1> QED BY <1>1, <1>2, <1>3, <1>4, <1>5, <1>6, <1>7, <1>8, <1>9 DEF Collect

LEMMA TypeStep == TypeOK /\ [Next]_vars => TypeOK'
<1> SUFFICES ASSUME TypeOK, [Next]_vars PROVE TypeOK' OBVIOUS
<1>1. ASSUME NEW p \in Proc, Begin(p) \/ Step(p) PROVE TypeOK'
  BY <1>1, BeginType, PutType, RecordType, CollectType DEF Step
<1>2. ASSUME NEW p \in Proc, PruneLateBlob(p) PROVE TypeOK'
  BY <1>2 DEF PruneLateBlob, Unlink, Present, TypeOK, local
<1>3. ASSUME NEW p \in Proc, PruneTempFile(p) PROVE TypeOK'
  BY <1>3 DEF PruneTempFile, TypeOK
<1>4. ASSUME NEW p \in Proc, Crash(p) PROVE TypeOK'
  BY <1>4, ReturnType DEF Crash, TypeOK
<1>5. CASE Rot
  BY <1>5, LayoutAssumption DEF Rot, TypeOK, local
<1>6. CASE UNCHANGED vars
  BY <1>6 DEF vars, local, TypeOK
<1> QED BY <1>1, <1>2, <1>3, <1>4, <1>5, <1>6 DEF Next

(* Every state of the layout is well typed, whatever is interleaved.       *)
THEOREM TypeCorrect == Spec => []TypeOK
BY TypeInit, TypeStep, PTL DEF Spec

(***************************************************************************)
(* The index is closed.  A process's knowledge (ProcInv) survives the      *)
(* steps of the others because what is held, on disk or lost to a misled   *)
(* prune, only shrinks in a sweep that has the layout to itself.           *)
(***************************************************************************)

(* Nothing ProcInv(q) mentions is changed by the step.                     *)
Same(q) ==
    /\ pc'[q] = pc[q] /\ kind'[q] = kind[q] /\ ents'[q] = ents[q]
    /\ todo'[q] = todo[q] /\ done'[q] = done[q] /\ cur'[q] = cur[q] /\ snap'[q] = snap[q]
    /\ flaw[q] \subseteq flaw'[q]

LEMMA Frame ==
    ASSUME NEW q \in Proc, ProcInv(q), Same(q),
           pc[q] = "idle" \/ Held \subseteq Held',
           kind[q] # "prune" \/ "shared" \in flaw'[q] \/ index' = index
    PROVE  ProcInv(q)'
<1>1. CASE pc[q] = "idle"
  <2>1. kind[q] = "none" BY <1>1 DEF ProcInv, Idle
  <2> QED BY <1>1, <2>1 DEF ProcInv, Idle, WriterInv, ComposeInv, WalkInv, SnapInv, Same
<1>2. CASE pc[q] # "idle"
  <2>1. Held \subseteq Held' BY <1>2
  <2>2. Idle(q)' BY DEF ProcInv, Idle, Same
  <2>3. WriterInv(q)'
    BY <2>1 DEF ProcInv, WriterInv, Pending, Closed, Same
  <2>4. ComposeInv(q)'
    BY <2>1 DEF ProcInv, ComposeInv, Same
  <2>5. WalkInv(q)'
    BY <2>1 DEF ProcInv, WalkInv, Whole, Same
  <2>6. SnapInv(q)'
    BY <2>1 DEF ProcInv, SnapInv, Whole, Same
  <2> QED BY <2>2, <2>3, <2>4, <2>5, <2>6 DEF ProcInv
<1> QED BY <1>1, <1>2

(* A step of p has kept what p knows and the index whole: then it has kept *)
(* the invariant.                                                          *)
LEMMA StepKeeps ==
    ASSUME LayoutInv, TypeOK', NEW p \in Proc, pc[p] # "idle",
           \A q \in Proc \ {p} : Same(q),
           Held \subseteq Held' \/ (kind[p] = "prune" /\ "shared" \notin flaw[p]),
           kind'[p] \in {kind[p], "none"},
           flaw[p] \subseteq flaw'[p] \/ kind'[p] = "none",
           ProcInv(p)', IndexClosed'
    PROVE  LayoutInv'
<1>1. \A q \in Proc \ {p} : kind[q] # "prune" \/ "shared" \in flaw'[q]
  BY DEF LayoutInv, Alone, Same
<1>2. kind[p] = "prune" /\ "shared" \notin flaw[p] => \A q \in Proc \ {p} : pc[q] = "idle"
  BY DEF LayoutInv, Alone
<1>3. Alone'
  BY <1>1, <1>2 DEF Alone, Same
<1>4. ASSUME NEW q \in Proc \ {p} PROVE ProcInv(q)'
  BY <1>1, <1>2, Frame DEF LayoutInv
<1> QED BY <1>3, <1>4 DEF LayoutInv

LEMMA StartKeeps ==
    ASSUME LayoutInv, TypeOK', NEW p \in Proc,
           NEW k \in Kinds \ {"none"}, NEW pt, NEW ns, NEW es, NEW ds,
           Start(p, k, pt, ns, es, ds), ProcInv(p)'
    PROVE  LayoutInv'
<1>1. /\ \A q \in Proc \ {p} : Same(q) /\ (kind[q] = "prune" => "shared" \in flaw'[q])
      /\ Held' = Held /\ index' = index /\ kind'[p] = k
      /\ k = "prune" /\ "shared" \notin flaw'[p] => \A q \in Proc \ {p} : pc[q] = "idle"
  BY DEF Start, Shares, Goto, Same, Held, Present, LayoutInv, TypeOK
<1>2. \A q \in Proc \ {p} : /\ kind'[q] = "prune" => "shared" \in flaw'[q]
                            /\ pc'[q] = pc[q]
  BY <1>1 DEF Same
<1>3. Alone'
  BY <1>1, <1>2 DEF Alone
<1>4. IndexClosed'
  BY <1>1 DEF LayoutInv, IndexClosed
<1>5. ASSUME NEW q \in Proc \ {p} PROVE ProcInv(q)'
  BY <1>1, Frame DEF LayoutInv
<1> QED BY <1>3, <1>4, <1>5 DEF LayoutInv

(* A command that ends knows nothing.                                      *)
LEMMA ReturnKnows ==
    ASSUME TypeOK, NEW p \in Proc, Return(p)
    PROVE  ProcInv(p)' /\ kind'[p] = "none" /\ \A q \in Proc \ {p} : Same(q)
<1>1. /\ pc'[p] = "idle" /\ kind'[p] = "none" /\ done'[p] = {}
      /\ \A q \in Proc \ {p} : Same(q)
  BY DEF TypeOK, Return, Same, Flaws
<1> QED BY <1>1 DEF ProcInv, Idle, WriterInv, ComposeInv, WalkInv, SnapInv

LEMMA ReturnKeeps ==
    ASSUME LayoutInv, NEW p \in Proc, pc[p] # "idle", Return(p),
           UNCHANGED <<blobs, lost, index, rots>>
    PROVE  LayoutInv'
<1>1. TypeOK' BY ReturnType DEF LayoutInv, TypeOK
<1>2. Held' = Held BY DEF Held, Present
<1>3. IndexClosed' BY <1>2 DEF IndexClosed, LayoutInv
<1> QED BY <1>1, <1>2, <1>3, ReturnKnows, StepKeeps DEF LayoutInv

LEMMA BeginKeeps ==
    ASSUME LayoutInv, NEW p \in Proc, Begin(p)
    PROVE  LayoutInv'
<1>1. TypeOK' BY BeginType DEF LayoutInv
<1>2. TypeOK BY DEF LayoutInv
<1>3. ASSUME NEW k, NEW pt, NEW ns, NEW es, NEW ds, Start(p, k, pt, ns, es, ds)
      PROVE  /\ pc'[p] = pt /\ kind'[p] = k /\ ents'[p] = es /\ todo'[p] = ds
             /\ done'[p] = {} /\ cur'[p] = NoDigest
  BY <1>2, <1>3 DEF Start, Goto, TypeOK, LayoutInv, ProcInv, Idle
<1>4. CASE pull(p)
  <2>1. PICK r \in Ref, d \in Remote :
           Start(p, "pull", "get", {}, {[ref |-> r, digest |-> d]}, {d})
    BY <1>4 DEF pull
  <2>2. ProcInv(p)'
    BY <1>3, <2>1 DEF ProcInv, Idle, WriterInv, ComposeInv, WalkInv, SnapInv, Pending, Storing
  <2> QED BY <1>1, <2>1, <2>2, StartKeeps DEF Kinds
<1>5. CASE emit(p)
  <2>1. PICK r \in Ref \cup {NoRef}, d \in Built :
           Start(p, "emit", "get", {}, {[ref |-> r, digest |-> d]}, Links[d] \cup {d})
    BY <1>5 DEF emit
  <2>2. Closed(Links[d] \cup {d})
    BY LayoutAssumption DEF Closed
  <2>3. Pending(p)' = Links[d] \cup {d}
    BY <1>3, <2>1 DEF Pending
  <2>4. ProcInv(p)'
    BY <1>3, <2>1, <2>2, <2>3 DEF ProcInv, Idle, WriterInv, ComposeInv, WalkInv, SnapInv, Storing
  <2> QED BY <1>1, <2>1, <2>4, StartKeeps DEF Kinds
<1>6. CASE run_index(p)
  <2>1. PICK r \in Ref, d \in Composed :
           Start(p, "compose", "resolve", {}, {[ref |-> r, digest |-> d]}, Links[d])
    BY <1>6 DEF run_index
  <2>2. ProcInv(p)'
    BY <1>3, <2>1 DEF ProcInv, Idle, WriterInv, ComposeInv, WalkInv, SnapInv, Pending, Storing
  <2> QED BY <1>1, <2>1, <2>2, StartKeeps DEF Kinds
<1>7. CASE load_from_reader(p)
  <2>1. PICK ar \in Archives, k \in {"load", "reload"}, ns \in SUBSET Ref :
           Start(p, k, "preflight", ns, ar.entries, ar.blobs)
    BY <1>7, ArchiveAssumption DEF load_from_reader
  <2>2. Pending(p)' = ar.blobs
    BY <1>3, <2>1 DEF Pending
  <2>3. ProcInv(p)'
    BY <1>3, <2>1, <2>2, ArchiveAssumption
    DEF ProcInv, Idle, WriterInv, ComposeInv, WalkInv, SnapInv, Storing
  <2> QED BY <1>1, <2>1, <2>3, StartKeeps DEF Kinds
<1>8. CASE save_to_writer(p)
  <2>1. PICK rs \in SUBSET Ref : Start(p, "save", "roots", rs, {}, {})
    BY <1>8 DEF save_to_writer
  <2>2. ProcInv(p)'
    BY <1>3, <2>1 DEF ProcInv, Idle, WriterInv, ComposeInv, WalkInv, SnapInv
  <2> QED BY <1>1, <2>1, <2>2, StartKeeps DEF Kinds
<1>9. CASE run_images(p)
  <2>1. PICK rs \in SUBSET Ref, k \in {"remove", "prune"} : Start(p, k, "remove", rs, {}, {})
    BY <1>9 DEF run_images
  <2>2. ProcInv(p)'
    BY <1>3, <2>1 DEF ProcInv, Idle, WriterInv, ComposeInv, WalkInv, SnapInv
  <2> QED BY <1>1, <2>1, <2>2, StartKeeps DEF Kinds
<1> QED BY <1>4, <1>5, <1>6, <1>7, <1>8, <1>9 DEF Begin

(* The blob in hand has been stored.                                       *)
LEMMA StoredKnows ==
    ASSUME LayoutInv, NEW p \in Proc, Stored(p), pc[p] \in {"write", "persist"},
           Held \subseteq Held', cur[p] \in Held'
    PROVE  /\ ProcInv(p)' /\ kind'[p] = kind[p] /\ flaw'[p] = flaw[p]
           /\ \A q \in Proc \ {p} : Same(q)
<1>1. TypeOK /\ cur[p] \in Digest /\ ProcInv(p)
  BY LayoutAssumption DEF LayoutInv, TypeOK
<1>2. /\ pc'[p] = "get" /\ kind'[p] = kind[p] /\ ents'[p] = ents[p] /\ flaw'[p] = flaw[p]
      /\ done'[p] = done[p] \cup {cur[p]} /\ cur'[p] = NoDigest
      /\ todo'[p] = IF kind[p] = "pull" THEN todo[p] \cup Links[cur[p]] ELSE todo[p]
      /\ \A q \in Proc \ {p} : Same(q)
  BY <1>1 DEF Stored, Goto, TypeOK, Same
<1>3. kind[p] \notin {"prune", "save", "remove", "none"}
  BY <1>1 DEF ProcInv, WalkInv, Idle
<1>4. WriterInv(p)'
  <2> SUFFICES ASSUME kind[p] \in {"pull", "emit", "load", "reload"} PROVE WriterInv(p)'
    BY <1>2 DEF WriterInv
  <2>1. Pending(p)' = IF kind[p] = "pull" THEN Pending(p) \cup Links[cur[p]] ELSE Pending(p)
    BY <1>1, <1>2, LayoutAssumption DEF Pending
  <2> QED BY <1>1, <1>2, <2>1 DEF WriterInv, ProcInv, Storing, Closed, Pending
<1>5. ComposeInv(p)'
  <2> SUFFICES ASSUME kind[p] = "compose" PROVE ComposeInv(p)'
    BY <1>2 DEF ComposeInv
  <2>1. \A e \in ents[p] : e.digest \in Held \cup todo[p] \cup {cur[p]}
    BY <1>1 DEF ComposeInv, ProcInv, Storing
  <2> QED BY <1>1, <1>2, <2>1 DEF ComposeInv, ProcInv, Storing
<1> QED BY <1>2, <1>3, <1>4, <1>5 DEF ProcInv, Idle, WalkInv, SnapInv

(* Steps that only move p along: blobs and index.json are not touched.     *)
LEMMA QuietKeeps ==
    ASSUME LayoutInv, NEW p \in Proc, pc[p] # "idle", TypeOK',
           \A q \in Proc \ {p} : Same(q), kind'[p] = kind[p], flaw[p] \subseteq flaw'[p],
           UNCHANGED <<blobs, lost, index>>, ProcInv(p)'
    PROVE  LayoutInv'
<1>1. Held' = Held BY DEF Held, Present
<1>2. IndexClosed' BY <1>1 DEF LayoutInv, IndexClosed
<1> QED BY <1>1, <1>2, StepKeeps

LEMMA PutKeeps ==
    ASSUME LayoutInv, NEW p \in Proc, Put(p)
    PROVE  LayoutInv'
<1> USE LayoutAssumption
<1>t. TypeOK /\ TypeOK' /\ ProcInv(p)
  BY PutType DEF LayoutInv
<1>p. UNCHANGED <<blobs, lost>> => Held' = Held
  BY DEF Held, Present
<1>1. CASE TakeBlob(p)
  <2>1. PICK d \in todo[p] :
          /\ pc[p] = "get" /\ pc'[p] \in {"fetch", "write"}
          /\ cur'[p] = d /\ todo'[p] = todo[p] \ {d}
          /\ kind'[p] = kind[p] /\ ents'[p] = ents[p] /\ flaw'[p] = flaw[p] /\ done'[p] = done[p]
          /\ \A q \in Proc \ {p} : Same(q)
          /\ UNCHANGED <<blobs, lost, index>>
    BY <1>1, <1>t DEF TakeBlob, NextUp, Goto, TypeOK, Same
  <2>2. Pending(p)' = Pending(p)
    BY <1>t, <2>1 DEF Pending, TypeOK
  <2>a. cur[p] = NoDigest /\ \A e \in ents[p] : e.digest # NoDigest
    BY <1>t, <2>1 DEF TypeOK, Entries
  <2>3. ProcInv(p)'
    BY <1>t, <1>p, <2>1, <2>2, <2>a
    DEF ProcInv, Idle, WriterInv, ComposeInv, WalkInv, SnapInv, Storing
  <2> QED BY <1>t, <2>1, <2>3, QuietKeeps
<1>2. CASE SkipCachedBlob(p)
  <2>1. PICK d \in todo[p] :
          /\ pc[p] = "get" /\ kind[p] = "pull" /\ d \in Leaves /\ d \in Held
          /\ pc'[p] = pc[p] /\ cur'[p] = cur[p]
          /\ todo'[p] = todo[p] \ {d} /\ done'[p] = done[p] \cup {d}
          /\ kind'[p] = kind[p] /\ ents'[p] = ents[p] /\ flaw'[p] = flaw[p]
          /\ \A q \in Proc \ {p} : Same(q)
          /\ UNCHANGED <<blobs, lost, index>>
    BY <1>2, <1>t DEF SkipCachedBlob, NextUp, has_blob, Held, Present, TypeOK, Same
  <2>2. Pending(p)' = Pending(p)
    BY <1>t, <2>1 DEF Pending
  <2>3. ProcInv(p)'
    BY <1>t, <1>p, <2>1, <2>2
    DEF ProcInv, Idle, WriterInv, ComposeInv, WalkInv, SnapInv, Storing
  <2> QED BY <1>t, <2>1, <2>3, QuietKeeps
<1>3. ASSUME pc[p] \in {"fetch", "write", "persist"}, pc'[p] \in {"fetch", "write", "persist"},
             UNCHANGED <<blobs, lost, index>>, UNCHANGED <<kind, ents, todo, done, cur, snap, flaw>>,
             \A q \in Proc \ {p} : pc'[q] = pc[q]
      PROVE  LayoutInv'
  <2>1. Pending(p)' = Pending(p)
    BY <1>3 DEF Pending
  <2>2. ProcInv(p)'
    BY <1>t, <1>p, <1>3, <2>1
    DEF ProcInv, Idle, WriterInv, ComposeInv, WalkInv, SnapInv, Storing
  <2>3. \A q \in Proc \ {p} : Same(q)
    BY <1>3 DEF Same
  <2> QED BY <1>t, <1>3, <2>2, <2>3, QuietKeeps
<1>4. CASE Fetch(p)
  BY <1>3, <1>4, <1>t DEF Fetch, Goto, local, TypeOK
<1>5. ASSUME Retry(p), pc[p] \in {"fetch", "persist"}, UNCHANGED <<blobs, lost, index>>
      PROVE  LayoutInv'
  BY <1>3, <1>5, <1>t DEF Retry, Goto, TypeOK
<1>6. CASE FetchFails(p)
  BY <1>5, <1>6, ReturnKeeps DEF FetchFails
<1>7. ASSUME Stored(p), pc[p] \in {"write", "persist"}, Held \subseteq Held',
             cur[p] \in Held', UNCHANGED index
      PROVE  LayoutInv'
  <2>1. IndexClosed' BY <1>7 DEF LayoutInv, IndexClosed
  <2> QED BY <1>7, <1>t, <2>1, StoredKnows, StepKeeps
<1>8. CASE write_blob_with_digest(p)
  <2>1. CASE has_blob(cur[p]) /\ Stored(p)
    <3>1. cur[p] \in Held /\ pc[p] = "write" /\ UNCHANGED <<blobs, lost, index>>
      BY <1>8, <1>t, <2>1 DEF write_blob_with_digest, has_blob, Held, Present, TypeOK
    <3> QED BY <1>7, <1>p, <2>1, <3>1
  <2>2. CASE ~ (has_blob(cur[p]) /\ Stored(p))
    BY <1>3, <1>8, <1>t, <2>2 DEF write_blob_with_digest, Goto, TypeOK
  <2> QED BY <2>1, <2>2
<1>9. CASE Persist(p)
  <2>1. CASE tmp[p]
    <3>1. /\ blobs' = [blobs EXCEPT ![cur[p]] = "ok"] /\ lost' = lost \ {cur[p]} /\ Stored(p)
          /\ pc[p] = "persist" /\ UNCHANGED index /\ cur[p] \in Digest
      BY <1>9, <1>t, <2>1 DEF Persist, TypeOK
    <3>2. Held \subseteq Held' /\ cur[p] \in Held'
      BY <1>t, <3>1 DEF Held, Present, TypeOK
    <3> QED BY <1>7, <3>1, <3>2
  <2>2. CASE ~ tmp[p]
    BY <1>5, <1>9, <2>2, ReturnKeeps DEF Persist
  <2> QED BY <2>1, <2>2
<1>10. CASE resolve_child(p)
  <2>k. kind[p] = "compose" /\ pc[p] = "resolve" /\ UNCHANGED <<blobs, lost, index, rots>>
    BY <1>10, <1>t DEF resolve_child, ProcInv, WriterInv, WalkInv, Idle, Storing, TypeOK, Kinds
  <2>1. CASE Return(p)
    BY <2>k, <2>1, ReturnKeeps
  <2>2. ASSUME NEW d \in todo[p], \E e \in index : e.digest = d,
               todo' = [todo EXCEPT ![p] = @ \ {d}], done' = [done EXCEPT ![p] = @ \cup {d}],
               UNCHANGED <<pc, kind, ents, cur, snap, flaw>>
        PROVE  LayoutInv'
    <3>1. Reach[d] \subseteq Held
      BY <2>2 DEF LayoutInv, IndexClosed
    <3>2. /\ pc'[p] = pc[p] /\ kind'[p] = kind[p] /\ ents'[p] = ents[p] /\ flaw'[p] = flaw[p]
          /\ todo'[p] = todo[p] \ {d} /\ done'[p] = done[p] \cup {d}
          /\ \A q \in Proc \ {p} : Same(q)
      BY <1>t, <2>2 DEF TypeOK, Same
    <3>3. ProcInv(p)'
      BY <1>t, <1>p, <2>k, <3>1, <3>2
      DEF ProcInv, Idle, WriterInv, ComposeInv, WalkInv, SnapInv, Storing
    <3> QED BY <1>t, <2>k, <3>2, <3>3, QuietKeeps
  <2>3. ASSUME todo[p] = {}, pc' = [pc EXCEPT ![p] = "reread"],
               todo' = [todo EXCEPT ![p] = done[p]],
               UNCHANGED <<kind, ents, done, cur, snap, flaw>>
        PROVE  LayoutInv'
    <3>2. /\ pc'[p] = "reread" /\ kind'[p] = kind[p] /\ ents'[p] = ents[p] /\ flaw'[p] = flaw[p]
          /\ \A q \in Proc \ {p} : Same(q)
      BY <1>t, <2>3 DEF TypeOK, Same
    <3>3. ProcInv(p)'
      BY <1>t, <1>p, <2>k, <2>3, <3>2
      DEF ProcInv, Idle, WriterInv, ComposeInv, WalkInv, SnapInv, Storing
    <3> QED BY <1>t, <2>k, <3>2, <3>3, QuietKeeps
  <2> QED BY <1>10, <2>1, <2>2, <2>3 DEF resolve_child, Goto
<1>11. CASE emit_index(p)
  <2>k. kind[p] = "compose" /\ pc[p] = "reread" /\ UNCHANGED <<blobs, lost, index, rots>>
    BY <1>11, <1>t DEF emit_index, ProcInv, WriterInv, WalkInv, Idle, Storing, TypeOK, Kinds
  <2>1. CASE Return(p)
    BY <2>k, <2>1, ReturnKeeps
  <2>2. CASE ~ Return(p)
    <3>1. /\ \/ pc'[p] = "reread"
             \/ pc'[p] = "get" /\ todo'[p] = {e.digest : e \in ents[p]}
          /\ kind'[p] = kind[p] /\ ents'[p] = ents[p] /\ flaw'[p] = flaw[p] /\ done'[p] = done[p]
          /\ \A q \in Proc \ {p} : Same(q)
      BY <1>11, <1>t, <2>2 DEF emit_index, Goto, TypeOK, Same
    <3>2. ProcInv(p)'
      BY <1>t, <1>p, <2>k, <3>1
      DEF ProcInv, Idle, WriterInv, ComposeInv, WalkInv, SnapInv, Storing
    <3> QED BY <1>t, <2>k, <3>1, <3>2, QuietKeeps
  <2> QED BY <2>1, <2>2
<1>12. CASE preflight(p)
  <2>k. kind[p] \in {"pull", "emit", "load", "reload"} /\ pc[p] = "preflight"
        /\ UNCHANGED <<blobs, lost, index, rots>>
    BY <1>12, <1>t DEF preflight, ProcInv, ComposeInv, WalkInv, Idle, Storing, TypeOK, Kinds
  <2>1. CASE Return(p)
    BY <2>k, <2>1, ReturnKeeps
  <2>2. CASE ~ Return(p)
    <3>1. /\ pc'[p] \in {"preflight", "get"}
          /\ UNCHANGED <<kind, ents, todo, done, cur, snap, flaw>>
          /\ \A q \in Proc \ {p} : Same(q)
      BY <1>12, <1>t, <2>2 DEF preflight, Goto, TypeOK, Same, local
    <3>2. Pending(p)' = Pending(p)
      BY <3>1 DEF Pending
    <3>3. ProcInv(p)'
      BY <1>t, <1>p, <2>k, <3>1, <3>2
      DEF ProcInv, Idle, WriterInv, ComposeInv, WalkInv, SnapInv, Storing
    <3> QED BY <1>t, <2>k, <3>1, <3>3, QuietKeeps
  <2> QED BY <2>1, <2>2
<1> QED BY <1>1, <1>2, <1>4, <1>6, <1>8, <1>9, <1>10, <1>11, <1>12 DEF Put

(* At the commit the entry's image is whole.                               *)
LEMMA CommitWhole ==
    ASSUME LayoutInv, NEW p \in Proc, pc[p] = "commit", NEW e \in ents[p]
    PROVE  Reach[e.digest] \subseteq Held
<1>1. TypeOK /\ ProcInv(p) /\ cur[p] = NoDigest /\ e.digest \in Digest
  BY DEF LayoutInv, TypeOK, Entries
<1>2. Held \in SUBSET Digest
  BY <1>1 DEF Held, Present, TypeOK
<1>3. CASE kind[p] = "compose"
  <2>1. e.digest \in Held /\ \A k \in Links[e.digest] : Reach[k] \subseteq Held
    BY <1>1, <1>3 DEF ProcInv, ComposeInv
  <2> QED BY <1>1, <1>2, <2>1, ReachParent
<1>4. CASE kind[p] # "compose"
  <2>1. kind[p] \in {"pull", "emit", "load", "reload"}
    BY <1>1, <1>4 DEF ProcInv, Idle, WalkInv, TypeOK, Kinds
  <2>2. done[p] \subseteq Held /\ e.digest \in done[p] /\ Closed(done[p])
    BY <1>1, <2>1 DEF ProcInv, WriterInv, Pending, Closed
  <2>3. Reach[e.digest] \subseteq done[p]
    BY <1>1, <2>2, ReachLeast DEF TypeOK
  <2> QED BY <2>2, <2>3
<1> QED BY <1>3, <1>4

LEMMA RecordKeeps ==
    ASSUME LayoutInv, NEW p \in Proc, Record(p)
    PROVE  LayoutInv'
<1> USE LayoutAssumption
<1>t. TypeOK /\ TypeOK' /\ ProcInv(p)
  BY RecordType DEF LayoutInv
<1>p. UNCHANGED <<blobs, lost>> => Held' = Held
  BY DEF Held, Present
<1>1. CASE AllStored(p)
  <2>1. CASE Return(p)
    BY <1>1, <2>1, ReturnKeeps DEF AllStored
  <2>2. CASE ~ Return(p)
    <3>1. /\ pc[p] = "get" /\ pc'[p] = "read" /\ todo[p] = {}
          /\ UNCHANGED <<blobs, lost, index, kind, ents, todo, done, cur, snap, flaw>>
          /\ \A q \in Proc \ {p} : Same(q)
      BY <1>1, <1>t, <2>2 DEF AllStored, Goto, TypeOK, Same, local
    <3>2. Pending(p)' = Pending(p)
      BY <3>1 DEF Pending
    <3>3. cur[p] = NoDigest /\ \A e \in ents[p] : e.digest # NoDigest
      BY <1>t, <3>1 DEF TypeOK, Entries
    <3>4. ProcInv(p)'
      BY <1>t, <1>p, <3>1, <3>2, <3>3
      DEF ProcInv, Idle, WriterInv, ComposeInv, WalkInv, SnapInv, Storing
    <3> QED BY <1>t, <3>1, <3>4, QuietKeeps
  <2> QED BY <2>1, <2>2
<1>2. CASE read_index(p)
  <2>1. /\ pc[p] = "read" /\ pc'[p] = "commit" /\ snap'[p] = index
        /\ UNCHANGED <<blobs, lost, index, kind, ents, todo, done, cur, flaw>>
        /\ \A q \in Proc \ {p} : Same(q)
    BY <1>2, <1>t DEF read_index, Goto, TypeOK, Same
  <2>2. Pending(p)' = Pending(p)
    BY <2>1 DEF Pending
  <2>3. Whole(index)'
    BY <1>p, <2>1 DEF LayoutInv, IndexClosed, Whole
  <2>4. ProcInv(p)'
    BY <1>t, <1>p, <2>1, <2>2, <2>3
    DEF ProcInv, Idle, WriterInv, ComposeInv, WalkInv, SnapInv, Whole, Storing
  <2> QED BY <1>t, <2>1, <2>4, QuietKeeps
<1>3. CASE write_index(p)
  <2>1. PICK e \in ents[p] :
          /\ pc[p] = "commit" /\ index' = Upsert(snap[p], e) /\ UNCHANGED <<blobs, lost, rots>>
          /\ \/ Return(p)
             \/ /\ Goto(p, "read")
                /\ ents' = [ents EXCEPT ![p] = @ \ {e}]
                /\ snap' = [snap EXCEPT ![p] = {}]
                /\ UNCHANGED <<kind, todo, done, cur, flaw>>
    BY <1>3 DEF write_index
  <2>2. Reach[e.digest] \subseteq Held /\ Whole(snap[p])
    BY <1>t, <2>1, CommitWhole DEF ProcInv, SnapInv
  <2>3. IndexClosed'
    BY <1>p, <2>1, <2>2 DEF IndexClosed, Whole, Upsert, upsert_ref, upsert_untagged
  <2>4. CASE Return(p)
    BY <1>p, <1>t, <2>1, <2>3, <2>4, ReturnKnows, StepKeeps
  <2>5. CASE ~ Return(p)
    <3>1. /\ pc'[p] = "read" /\ ents'[p] = ents[p] \ {e} /\ snap'[p] = {}
          /\ UNCHANGED <<kind, todo, done, cur, flaw>>
          /\ \A q \in Proc \ {p} : Same(q)
      BY <1>t, <2>1, <2>5 DEF Goto, TypeOK, Same
    <3>2. Pending(p)' = Pending(p)
      BY <3>1 DEF Pending
    <3>3. ProcInv(p)'
      BY <1>t, <1>p, <2>1, <3>1, <3>2
      DEF ProcInv, Idle, WriterInv, ComposeInv, WalkInv, SnapInv, Storing
    <3> QED BY <1>p, <1>t, <2>1, <2>3, <3>1, <3>3, StepKeeps
  <2> QED BY <2>4, <2>5
<1> QED BY <1>1, <1>2, <1>3 DEF Record

(* The commands that collect, and where in them they are.                  *)
LEMMA Collecting ==
    ASSUME LayoutInv, NEW p \in Proc,
           pc[p] \in {"remove", "removing", "roots", "walk", "sweep", "stream"}
    PROVE  kind[p] \in {"prune", "save", "remove"}
BY DEF LayoutInv, ProcInv, Idle, WriterInv, ComposeInv, Storing, TypeOK, Kinds

(* Removing names and reading the roots.                                   *)
LEMMA RemoveKeeps ==
    ASSUME LayoutInv, NEW p \in Proc,
           RemoveRead(p) \/ RemoveWrite(p) \/ RemoveEnd(p) \/ read_roots(p)
    PROVE  LayoutInv'
<1>t. TypeOK /\ TypeOK' /\ ProcInv(p)
  BY CollectType DEF LayoutInv, Collect
<1>p. UNCHANGED <<blobs, lost>> => Held' = Held
  BY DEF Held, Present
<1>i. Whole(index)
  BY DEF LayoutInv, IndexClosed, Whole
<1>1. CASE RemoveRead(p)
  <2>1. /\ pc[p] = "remove" /\ pc'[p] = "removing" /\ snap'[p] = index
        /\ UNCHANGED <<blobs, lost, index, kind, ents, todo, done, cur, flaw>>
        /\ \A q \in Proc \ {p} : Same(q)
    BY <1>1, <1>t DEF RemoveRead, Goto, TypeOK, Same
  <2>2. ProcInv(p)'
    BY <1>t, <1>p, <1>i, <2>1, Collecting
    DEF ProcInv, Idle, WriterInv, ComposeInv, WalkInv, SnapInv, Whole
  <2> QED BY <1>t, <2>1, <2>2, QuietKeeps
<1>2. CASE RemoveWrite(p)
  <2>1. /\ pc[p] = "removing" /\ pc'[p] = "remove"
        /\ \/ index' = index
           \/ \E r \in names[p] : index' = remove_ref(snap[p], r)
        /\ UNCHANGED <<blobs, lost, kind, ents, todo, done, cur, flaw>>
        /\ \A q \in Proc \ {p} : Same(q)
    BY <1>2, <1>t DEF RemoveWrite, Goto, TypeOK, Same
  <2>2. Whole(snap[p])
    BY <1>t, <2>1 DEF ProcInv, SnapInv
  <2>3. IndexClosed'
    BY <1>p, <1>i, <2>1, <2>2 DEF IndexClosed, Whole, remove_ref
  <2>4. ProcInv(p)'
    BY <1>t, <1>p, <2>1, Collecting
    DEF ProcInv, Idle, WriterInv, ComposeInv, WalkInv, SnapInv
  <2> QED BY <1>t, <1>p, <2>1, <2>3, <2>4, StepKeeps
<1>3. CASE RemoveEnd(p)
  <2>1. CASE Return(p)
    BY <1>3, <2>1, ReturnKeeps DEF RemoveEnd
  <2>2. CASE ~ Return(p)
    <3>1. /\ pc[p] = "remove" /\ pc'[p] = "roots" /\ kind[p] = "prune"
          /\ UNCHANGED <<blobs, lost, index, kind, ents, todo, done, cur, snap, flaw>>
          /\ \A q \in Proc \ {p} : Same(q)
      BY <1>3, <1>t, <2>2 DEF RemoveEnd, Goto, TypeOK, Same, local
    <3>2. ProcInv(p)'
      BY <1>t, <1>p, <3>1, Collecting
      DEF ProcInv, Idle, WriterInv, ComposeInv, WalkInv, SnapInv
    <3> QED BY <1>t, <3>1, <3>2, QuietKeeps
  <2> QED BY <2>1, <2>2
<1>4. CASE read_roots(p)
  <2>1. CASE Return(p)
    BY <1>4, <2>1, ReturnKeeps DEF read_roots
  <2>2. CASE ~ Return(p)
    <3>1. /\ pc[p] = "roots" /\ pc'[p] = "walk" /\ snap'[p] = Roots(p)
          /\ todo'[p] = {e.digest : e \in Roots(p)}
          /\ UNCHANGED <<blobs, lost, index, kind, ents, done, cur, flaw>>
          /\ \A q \in Proc \ {p} : Same(q)
      BY <1>4, <1>t, <2>2 DEF read_roots, Goto, TypeOK, Same
    <3>2. Whole(Roots(p)) /\ (kind[p] = "prune" => Roots(p) = index)
      BY <1>i DEF Roots, Whole
    <3>3. ProcInv(p)'
      BY <1>t, <1>p, <3>1, <3>2, Collecting
      DEF ProcInv, Idle, WriterInv, ComposeInv, WalkInv, SnapInv, Whole
    <3> QED BY <1>t, <3>1, <3>3, QuietKeeps
  <2> QED BY <2>1, <2>2
<1> QED BY <1>1, <1>2, <1>3, <1>4

(* The walk marks everything the roots reach.                              *)
LEMMA WalkKeeps ==
    ASSUME LayoutInv, NEW p \in Proc, collect_reachable(p) \/ WalkEnd(p)
    PROVE  LayoutInv'
<1> USE LayoutAssumption
<1>t. TypeOK /\ TypeOK' /\ ProcInv(p)
  BY CollectType DEF LayoutInv, Collect
<1>p. UNCHANGED <<blobs, lost>> => Held' = Held
  BY DEF Held, Present
<1>w. /\ pc[p] = "walk" /\ kind[p] \in {"prune", "save", "remove"} /\ WalkInv(p)
      /\ UNCHANGED <<blobs, lost, index, rots>>
  BY <1>t, Collecting DEF collect_reachable, WalkEnd, ProcInv
<1>1. CASE collect_reachable(p)
  <2>1. CASE Return(p)
    BY <1>1, <1>w, <2>1, ReturnKeeps
  <2>2. CASE ~ Return(p)
    <3> DEFINE marked(d) == {d} \cup (IF blobs[d] = "ok" /\ d \in Images THEN Links[d] ELSE {})
               child(d)  == IF blobs[d] = "ok" /\ d \in Indexes THEN Links[d] ELSE {}
    <3>1. PICK d \in todo[p] :
            /\ blobs[d] # "bad" /\ done'[p] = done[p] \cup marked(d)
            /\ todo'[p] = (todo[p] \cup child(d)) \ (done[p] \cup marked(d))
            /\ UNCHANGED <<pc, kind, ents, cur, snap>> /\ flaw' = Misses(p, d)
            /\ \A q \in Proc \ {p} : Same(q)
      BY <1>1, <1>t, <2>2 DEF collect_reachable, Misses, TypeOK, Same
    <3>2. d \in Digest /\ Reach[d] \subseteq Held
      BY <1>t, <1>w, <3>1 DEF WalkInv, TypeOK
    <3>3. /\ flaw[p] \subseteq flaw'[p]
          /\ "shared" \in flaw'[p] => "shared" \in flaw[p]
          /\ "missed" \notin flaw'[p] => blobs[d] = "ok" /\ "missed" \notin flaw[p]
      BY <1>t, <3>1, <3>2 DEF Misses, has_blob, TypeOK
    <3>4. "missed" \notin flaw'[p] => Links[d] \subseteq marked(d) \cup child(d)
      BY <3>2, <3>3
    <3>5. \A k \in marked(d) \cup child(d) : Reach[k] \subseteq Held
      BY <3>2, ReachChild
    <3>6. \A k \in marked(d) \ {d} : Links[k] = {}
      BY <3>2
    <3>7. WalkInv(p)'
      <4> HIDE DEF marked, child
      <4>1. d \in marked(d) BY DEF marked
      <4>2. done'[p] \cup todo'[p] = done[p] \cup todo[p] \cup marked(d) \cup child(d)
        BY <3>1, <4>1
      <4>3. "missed" \notin flaw'[p] =>
              \A k \in done'[p] : Links[k] \subseteq done'[p] \cup todo'[p]
        BY <1>w, <3>1, <3>3, <3>4, <3>6, <4>2 DEF WalkInv
      <4>4. \A k \in done'[p] \cup todo'[p] : Reach[k] \subseteq Held
        BY <1>w, <3>5, <4>2 DEF WalkInv
      <4>5. \A e \in snap[p] : e.digest \in done'[p] \cup todo'[p]
        BY <1>w, <4>2 DEF WalkInv
      <4> QED BY <1>p, <1>w, <3>1, <3>3, <4>3, <4>4, <4>5 DEF WalkInv, Whole
    <3>8. ProcInv(p)'
      BY <1>t, <1>w, <3>1, <3>7 DEF ProcInv, Idle, WriterInv, ComposeInv, SnapInv
    <3> QED BY <1>t, <1>w, <3>1, <3>3, <3>8, QuietKeeps
  <2> QED BY <2>1, <2>2
<1>2. CASE WalkEnd(p)
  <2>1. /\ todo[p] = {}
        /\ \/ kind[p] = "prune" /\ pc'[p] = "sweep" /\ todo'[p] = Present \ done[p]
           \/ kind[p] # "prune" /\ pc'[p] = "stream" /\ todo'[p] = done[p]
        /\ UNCHANGED <<kind, ents, done, cur, snap, flaw>>
        /\ \A q \in Proc \ {p} : Same(q)
    BY <1>2, <1>t DEF WalkEnd, Goto, TypeOK, Same
  <2>2. /\ "missed" \notin flaw[p] => Closed(done[p])
        /\ done[p] \in SUBSET Digest
    BY <1>t, <1>w, <2>1 DEF WalkInv, Closed, TypeOK
  <2>3. "missed" \notin flaw[p] => \A e \in snap[p] : Reach[e.digest] \subseteq done[p]
    BY <1>w, <2>1, <2>2, ReachLeast DEF WalkInv
  <2>4. done[p] \subseteq Held
    BY <1>w, <2>2, ReachSelf DEF WalkInv
  <2>5. kind[p] # "remove"
    BY <1>t, <1>w DEF ProcInv, WalkInv
  <2>6. ProcInv(p)'
    BY <1>t, <1>p, <1>w, <2>1, <2>3, <2>4, <2>5
    DEF ProcInv, Idle, WriterInv, ComposeInv, WalkInv, SnapInv, Whole
  <2> QED BY <1>t, <1>w, <2>1, <2>6, QuietKeeps
<1> QED BY <1>1, <1>2

(* A sweep only takes what no entry reaches.                               *)
LEMMA SweepKeeps ==
    ASSUME LayoutInv, NEW p \in Proc, prune_dir(p) \/ PruneLateBlob(p)
    PROVE  LayoutInv'
<1>t. TypeOK /\ TypeOK' /\ ProcInv(p)
  BY TypeStep DEF LayoutInv, Next, Step, Collect
<1>w. /\ pc[p] = "sweep" /\ kind[p] = "prune" /\ WalkInv(p) /\ UNCHANGED index
  BY <1>t, Collecting DEF prune_dir, PruneLateBlob, ProcInv, WalkInv
<1>1. /\ UNCHANGED <<pc, kind, ents, done, cur, snap, flaw>>
      /\ todo'[p] \subseteq todo[p]
      /\ \A q \in Proc \ {p} : Same(q)
      /\ Held \cap done[p] \subseteq Held'
      /\ flaw[p] # {} => Held \subseteq Held'
  <2>1. CASE prune_dir(p)
    BY <1>t, <1>w, <2>1 DEF prune_dir, Unlink, has_blob, TypeOK, Same, Held, Present, WalkInv
  <2>2. CASE PruneLateBlob(p)
    BY <1>t, <1>w, <2>2 DEF PruneLateBlob, Unlink, has_blob, TypeOK, Same, Held, Present, local
  <2> QED BY <2>1, <2>2
<1>2. \A e \in index : Reach[e.digest] \subseteq Held'
  <2>1. CASE flaw[p] # {}
    BY <1>1, <2>1 DEF LayoutInv, IndexClosed
  <2>2. CASE flaw[p] = {}
    BY <1>1, <1>w, <2>2 DEF WalkInv, LayoutInv, IndexClosed
  <2> QED BY <2>1, <2>2
<1>3. IndexClosed'
  BY <1>2, <1>w DEF IndexClosed
<1>4. ProcInv(p)'
  BY <1>t, <1>1, <1>w DEF ProcInv, Idle, WriterInv, ComposeInv, WalkInv, SnapInv
<1> QED BY <1>t, <1>1, <1>w, <1>3, <1>4, StepKeeps

LEMMA StreamKeeps ==
    ASSUME LayoutInv, NEW p \in Proc, write_file_entry(p) \/ Finish(p)
    PROVE  LayoutInv'
<1>t. TypeOK /\ TypeOK' /\ ProcInv(p)
  BY CollectType DEF LayoutInv, Collect
<1>p. UNCHANGED <<blobs, lost>> => Held' = Held
  BY DEF Held, Present
<1>1. CASE Return(p)
  BY <1>1, ReturnKeeps DEF write_file_entry, Finish
<1>2. CASE ~ Return(p)
  <2>1. /\ pc[p] = "stream"
        /\ UNCHANGED <<blobs, lost, index, pc, kind, ents, done, cur, snap, flaw>>
        /\ \A q \in Proc \ {p} : Same(q)
    BY <1>t, <1>2 DEF write_file_entry, Finish, TypeOK, Same
  <2>2. ProcInv(p)'
    BY <1>t, <1>p, <2>1, Collecting
    DEF ProcInv, Idle, WriterInv, ComposeInv, WalkInv, SnapInv, Whole
  <2> QED BY <1>t, <2>1, <2>2, QuietKeeps
<1> QED BY <1>1, <1>2

LEMMA LayoutInit == Init => LayoutInv
BY TypeInit DEF Init, LayoutInv, Alone, IndexClosed, ProcInv, Idle, WriterInv, ComposeInv,
                WalkInv, SnapInv

LEMMA LayoutStep ==
    ASSUME LayoutInv, [Next]_vars PROVE LayoutInv'
<1>1. ASSUME NEW p \in Proc, Begin(p) \/ Step(p) PROVE LayoutInv'
  BY <1>1, BeginKeeps, PutKeeps, RecordKeeps, RemoveKeeps, WalkKeeps, SweepKeeps, StreamKeeps
  DEF Step, Collect
<1>2. ASSUME NEW p \in Proc, PruneLateBlob(p) PROVE LayoutInv'
  BY <1>2, SweepKeeps
<1>3. ASSUME NEW p \in Proc, Crash(p) PROVE LayoutInv'
  BY <1>3, ReturnKeeps DEF Crash
<1>4. CASE \/ \E p \in Proc : PruneTempFile(p)
           \/ Rot
           \/ UNCHANGED vars
  <2>1. TypeOK' /\ UNCHANGED <<index, pc, kind, ents, todo, done, cur, snap, flaw>>
    BY <1>4, TypeStep DEF LayoutInv, Next, PruneTempFile, Rot, vars, local
  <2>2. Held \subseteq Held'
    BY <1>4 DEF LayoutInv, TypeOK, PruneTempFile, Rot, vars, Held, Present
  <2>3. Alone' /\ IndexClosed'
    BY <2>1, <2>2 DEF LayoutInv, Alone, IndexClosed
  <2>4. \A q \in Proc : ProcInv(q)'
    BY <2>1, <2>2, Frame DEF LayoutInv, Same
  <2> QED BY <2>1, <2>3, <2>4 DEF LayoutInv
<1> QED BY <1>1, <1>2, <1>3, <1>4 DEF Next

(* The inductive invariant holds of every reachable state, whatever        *)
(* commands overlap.                                                       *)
THEOREM LayoutInvariant == Spec => []LayoutInv
<1>1. LayoutInv /\ [Next]_vars => LayoutInv'
  BY LayoutStep
<1> QED BY <1>1, LayoutInit, PTL DEF Spec

(* Hence no interleaving of pulls, builds, loads, index compositions,      *)
(* removals, saves and prunes, no kill and no rotten blob ever leaves      *)
(* index.json naming an image that is not whole on disk, but for blobs     *)
(* that a prune took while another command ran beside it, or after its     *)
(* walk had missed such a blob.                                            *)
THEOREM IndexAlwaysClosed == Spec => []IndexClosed
<1>1. LayoutInv => IndexClosed
  BY DEF LayoutInv
<1> QED BY <1>1, LayoutInvariant, PTL

(* And a save that has begun to pack has walked the whole closure, unless  *)
(* its walk missed a blob, and finds each one but for those so taken.      *)
THEOREM SaveAlwaysWhole == Spec => []SaveWhole
<1>1. LayoutInv => SaveWhole
  BY Collecting DEF LayoutInv, ProcInv, WalkInv, SaveWhole
<1> QED BY <1>1, LayoutInvariant, PTL

(***************************************************************************)
(* Names are unique: each writer filters the very copy it writes back.     *)
(***************************************************************************)
Unique(ix) == \A e, f \in ix : e.ref = f.ref /\ e.ref \in Ref => e = f

UniqueInv == Unique(index) /\ \A p \in Proc : Unique(snap[p])

LEMMA UniqueStep == TypeOK /\ UniqueInv /\ [Next]_vars => UniqueInv'
<1> SUFFICES ASSUME TypeOK, UniqueInv, [Next]_vars PROVE UniqueInv' OBVIOUS
<1> USE LayoutAssumption
<1>1. ASSUME NEW p \in Proc, NEW S, Unique(S), snap' = [snap EXCEPT ![p] = S], Unique(index')
      PROVE  UniqueInv'
  BY <1>1 DEF UniqueInv, Unique, TypeOK
<1>2. Unique({}) /\ Unique(index) /\ \A p \in Proc : Unique(snap[p])
  BY DEF Unique, UniqueInv
<1>3. ASSUME NEW p \in Proc, Return(p), Unique(index') PROVE UniqueInv'
  BY <1>1, <1>2, <1>3 DEF Return
<1>4. ASSUME NEW p \in Proc, UNCHANGED <<index, snap>> PROVE UniqueInv'
  BY <1>4, <1>2 DEF UniqueInv
<1>5. ASSUME NEW p \in Proc, write_index(p) PROVE UniqueInv'
  <2>1. PICK e \in ents[p] : index' = Upsert(snap[p], e)
    BY <1>5 DEF write_index
  <2>2. Unique(index')
    BY <1>2, <2>1 DEF Unique, Upsert, upsert_ref, upsert_untagged, TypeOK, Entries
  <2> QED BY <1>1, <1>2, <1>3, <1>5, <2>2 DEF write_index
<1>6. ASSUME NEW p \in Proc, RemoveWrite(p) PROVE UniqueInv'
  <2>1. Unique(index')
    BY <1>2, <1>6 DEF RemoveWrite, Unique, remove_ref
  <2> QED BY <1>1, <1>2, <1>6, <2>1 DEF RemoveWrite
<1>7. ASSUME NEW p \in Proc, read_roots(p) PROVE UniqueInv'
  <2>1. Unique(Roots(p))
    BY <1>2 DEF Unique, Roots
  <2> QED BY <1>1, <1>2, <1>3, <1>7, <2>1 DEF read_roots
<1>8. ASSUME NEW p \in Proc, read_index(p) \/ RemoveRead(p) PROVE UniqueInv'
  BY <1>1, <1>2, <1>8 DEF read_index, RemoveRead
<1>9. ASSUME NEW p \in Proc, Begin(p) PROVE UniqueInv'
  BY <1>4, <1>9 DEF Begin, pull, emit, run_index, load_from_reader, save_to_writer,
                    run_images, Start
<1>10. ASSUME NEW p \in Proc, Put(p) PROVE UniqueInv'
  BY <1>2, <1>3, <1>4, <1>10
  DEF Put, TakeBlob, SkipCachedBlob, Fetch, FetchFails, Retry, Stored, write_blob_with_digest,
      Persist, resolve_child, emit_index, preflight, local
<1>11. ASSUME NEW p \in Proc,
              \/ AllStored(p) \/ RemoveEnd(p) \/ collect_reachable(p) \/ WalkEnd(p)
              \/ prune_dir(p) \/ write_file_entry(p) \/ Finish(p)
              \/ PruneLateBlob(p) \/ PruneTempFile(p) \/ Crash(p)
       PROVE  UniqueInv'
  BY <1>2, <1>3, <1>4, <1>11
  DEF AllStored, RemoveEnd, collect_reachable, WalkEnd, prune_dir, write_file_entry, Finish,
      PruneLateBlob, PruneTempFile, Crash, local
<1>12. CASE Rot \/ UNCHANGED vars
  BY <1>2, <1>12 DEF Rot, vars, local, UniqueInv
<1> QED BY <1>5, <1>6, <1>7, <1>8, <1>9, <1>10, <1>11, <1>12 DEF Next, Step, Record, Collect

(* However many stale copies of index.json are written back, a name never  *)
(* has two entries.                                                        *)
THEOREM NamesUnique == Spec => []RefsUnique
<1>1. Init => UniqueInv BY DEF Init, UniqueInv, Unique
<1>2. UniqueInv => RefsUnique BY DEF UniqueInv, Unique, RefsUnique
<1> QED BY <1>1, <1>2, TypeCorrect, UniqueStep, PTL DEF Spec

(***************************************************************************)
(* The layout implements the abstract store: every step of every command   *)
(* stores one blob, discards one, replaces the catalogue, or is invisible. *)
(***************************************************************************)

(* The steps that touch a blob file leave index.json alone and add or take *)
(* away one file; all others leave the set of files as it is.              *)
LEMMA OneBlobAtATime ==
    ASSUME TypeOK, [Next]_vars
    PROVE  \/ Held' = Held
           \/ /\ index' = index
              /\ \E d \in Digest : Held' = Held \cup {d} \/ Held' = Held \ {d}
<1> USE LayoutAssumption
<1>1. CASE UNCHANGED <<blobs, lost>>
  BY <1>1 DEF Held, Present
<1>2. ASSUME NEW p \in Proc, Persist(p), ~ UNCHANGED <<blobs, lost>>
      PROVE  index' = index /\ \E d \in Digest : Held' = Held \cup {d}
  <2>1. /\ cur[p] \in Digest /\ index' = index /\ lost' = lost \ {cur[p]}
        /\ blobs' = [blobs EXCEPT ![cur[p]] = "ok"]
    BY <1>2 DEF Persist, TypeOK
  <2>2. Held' = Held \cup {cur[p]}
    BY <2>1 DEF Held, Present, TypeOK
  <2> QED BY <2>1, <2>2
<1>3. ASSUME NEW p \in Proc, NEW d \in Digest, index' = index, Unlink(p, d)
      PROVE  index' = index /\ (Held' = Held \/ \E e \in Digest : Held' = Held \ {e})
  <2>1. Present' = Present \ {d} /\ (d \in Present <=> has_blob(d))
    BY <1>3 DEF Unlink, Present, has_blob, TypeOK
  <2>2. CASE d \in Present /\ flaw[p] # {}
    BY <1>3, <2>1, <2>2 DEF Unlink, Held
  <2>3. CASE ~ (d \in Present /\ flaw[p] # {})
    <3>1. lost' = lost
      BY <1>3, <2>1, <2>3 DEF Unlink
    <3>2. CASE d \in lost
      BY <1>3, <2>1, <3>1, <3>2 DEF Held
    <3>3. CASE d \notin lost
      BY <1>3, <2>1, <3>1, <3>3 DEF Held
    <3> QED BY <3>2, <3>3
  <2> QED BY <2>2, <2>3
<1>4. ASSUME NEW p \in Proc, prune_dir(p) \/ PruneLateBlob(p), ~ UNCHANGED <<blobs, lost>>
      PROVE  index' = index /\ (Held' = Held \/ \E e \in Digest : Held' = Held \ {e})
  <2>1. PICK d \in Digest : index' = index /\ Unlink(p, d)
    BY <1>4 DEF prune_dir, PruneLateBlob, Present, TypeOK
  <2> QED BY <1>3, <2>1
<1>5. CASE Rot
  <2>1. PICK d \in Digest : blobs[d] = "ok" /\ blobs' = [blobs EXCEPT ![d] = "bad"] /\ lost' = lost
    BY <1>5 DEF Rot
  <2> QED BY <2>1 DEF Held, Present, TypeOK
<1>6. \/ UNCHANGED <<blobs, lost>> \/ Rot
      \/ \E p \in Proc : Persist(p) \/ prune_dir(p) \/ PruneLateBlob(p)
  <2>1. ASSUME NEW p \in Proc, Begin(p) PROVE UNCHANGED <<blobs, lost>>
    BY <2>1 DEF Begin, pull, emit, run_index, load_from_reader, save_to_writer, run_images, Start
  <2>2. ASSUME NEW p \in Proc, Put(p), ~ Persist(p) PROVE UNCHANGED <<blobs, lost>>
    BY <2>2 DEF Put, TakeBlob, SkipCachedBlob, Fetch, FetchFails, write_blob_with_digest,
                resolve_child, emit_index, preflight
  <2>3. ASSUME NEW p \in Proc, Record(p) PROVE UNCHANGED <<blobs, lost>>
    BY <2>3 DEF Record, AllStored, read_index, write_index
  <2>4. ASSUME NEW p \in Proc, Collect(p), ~ prune_dir(p) PROVE UNCHANGED <<blobs, lost>>
    BY <2>4 DEF Collect, RemoveRead, RemoveWrite, RemoveEnd, read_roots, collect_reachable,
                WalkEnd, write_file_entry, Finish
  <2>5. ASSUME NEW p \in Proc, PruneTempFile(p) \/ Crash(p) PROVE UNCHANGED <<blobs, lost>>
    BY <2>5 DEF PruneTempFile, Crash
  <2>6. CASE UNCHANGED vars
    BY <2>6 DEF vars
  <2> QED BY <2>1, <2>2, <2>3, <2>4, <2>5, <2>6 DEF Next, Step
<1> QED BY <1>1, <1>2, <1>4, <1>5, <1>6

(* A step that ends with a complete and unambiguous catalogue is one of    *)
(* the store's steps.                                                      *)
LEMMA StoreStep ==
    ASSUME TypeOK, TypeOK', IndexClosed', RefsUnique', [Next]_vars
    PROVE  [Store!Next]_(Store!store)
<1>1. Store!Complete(index', Held')
  BY DEF IndexClosed, Store!Complete
<1>2. Store!Unambiguous(index') /\ index' \in Store!Catalogs
  BY DEF RefsUnique, Store!Unambiguous, TypeOK, Store!Catalogs, Entries
<1>3. CASE Held' = Held
  BY <1>1, <1>2, <1>3 DEF Store!Next, Store!write_index
<1>4. ASSUME NEW d \in Digest, index' = index, Held' = Held \cup {d} PROVE Store!Next
  BY <1>4 DEF Store!Next, Store!write_blob
<1>5. ASSUME NEW d \in Digest, index' = index, Held' = Held \ {d} PROVE Store!Next
  BY <1>1, <1>5 DEF Store!Next, Store!prune_blobs, Store!Complete
<1> QED BY <1>3, <1>4, <1>5, OneBlobAtATime

(* All that a reader of the layout can see is a behaviour of the abstract  *)
(* store, once the blobs that misled prunes took are counted as stored.    *)
THEOREM LayoutImplementsStore == Spec => ImplementsStore
<1>1. Init => Store!Init
  BY DEF Init, Store!Init, Held, Present
<1>2. TypeOK /\ TypeOK' /\ IndexClosed' /\ RefsUnique' /\ [Next]_vars => [Store!Next]_(Store!store)
  BY StoreStep
<1> QED BY <1>1, <1>2, TypeCorrect, IndexAlwaysClosed, NamesUnique, PTL
        DEF Spec, ImplementsStore, Store!Spec

(***************************************************************************)
(* What pull promises.  A pull has one entry to record, so the write that  *)
(* records it is its last step.                                            *)
(***************************************************************************)
OneEntry == \A p \in Proc : kind[p] = "pull" => \A e, f \in ents[p] : e = f

(* No step gives a pull a second entry.                                    *)
LEMMA OneEntryStep == TypeOK /\ OneEntry /\ [Next]_vars => OneEntry'
<1> SUFFICES ASSUME TypeOK, OneEntry, [Next]_vars PROVE OneEntry' OBVIOUS
<1>1. ASSUME UNCHANGED <<kind, ents>> PROVE OneEntry'
  BY <1>1 DEF OneEntry
<1>2. ASSUME NEW p \in Proc, Return(p) PROVE OneEntry'
  BY <1>2 DEF Return, OneEntry, TypeOK
<1>3. ASSUME NEW p \in Proc, NEW k, NEW l, NEW ns, NEW es, NEW ds, Start(p, k, l, ns, es, ds),
             k = "pull" => \A e, f \in es : e = f
      PROVE  OneEntry'
  BY <1>3 DEF Start, OneEntry, TypeOK
<1>4. ASSUME NEW p \in Proc, Begin(p) PROVE OneEntry'
  <2>1. CASE pull(p)
    BY <1>3, <2>1 DEF pull
  <2>2. CASE emit(p) \/ run_index(p) \/ load_from_reader(p) \/ save_to_writer(p) \/ run_images(p)
    <3>1. \E k \in Kinds \ {"pull"} : \E l, ns, es, ds : Start(p, k, l, ns, es, ds)
      BY <2>2, Zenon DEF emit, run_index, load_from_reader, save_to_writer, run_images, Kinds
    <3> QED BY <1>3, <3>1
  <2> QED BY <1>4, <2>1, <2>2 DEF Begin
<1>5. ASSUME NEW p \in Proc, write_index(p) PROVE OneEntry'
  <2>1. CASE Return(p)
    BY <1>2, <2>1
  <2>2. CASE \E e \in ents[p] : ents' = [ents EXCEPT ![p] = @ \ {e}] /\ UNCHANGED kind
    BY <2>2 DEF OneEntry, TypeOK
  <2> QED BY <1>5, <2>1, <2>2 DEF write_index
<1>6. ASSUME NEW p \in Proc, Put(p) PROVE OneEntry'
  BY <1>1, <1>2, <1>6
  DEF Put, TakeBlob, SkipCachedBlob, Fetch, FetchFails, Retry, Stored, write_blob_with_digest,
      Persist, resolve_child, emit_index, preflight, local
<1>7. ASSUME NEW p \in Proc,
             \/ AllStored(p) \/ read_index(p) \/ Collect(p)
             \/ PruneLateBlob(p) \/ PruneTempFile(p) \/ Crash(p)
      PROVE  OneEntry'
  BY <1>1, <1>2, <1>7
  DEF AllStored, read_index, Collect, RemoveRead, RemoveWrite, RemoveEnd, read_roots,
      collect_reachable, WalkEnd, prune_dir, write_file_entry, Finish, PruneLateBlob,
      PruneTempFile, Crash, local
<1>8. CASE Rot \/ UNCHANGED vars
  BY <1>1, <1>8 DEF Rot, vars, local
<1> QED BY <1>4, <1>5, <1>6, <1>7, <1>8 DEF Next, Step, Record

(* A pull that returns successfully has recorded its entry in index.json,  *)
(* and every blob reachable from it is in the layout, whatever else has    *)
(* run meanwhile, or was taken by a prune that overlapped another command  *)
(* (client.rs pull, layout.rs upsert_ref, prune_blobs).                    *)
THEOREM PullAlwaysDelivers == Spec => PullDelivers
<1> DEFINE Delivers ==
      \A p \in Proc : kind[p] = "pull" /\ write_index(p) =>
          \A e \in ents[p] : e \in index' /\ Reach[e.digest] \subseteq Held'
<1>1. Init => OneEntry
  BY DEF Init, OneEntry
<1>2. ASSUME OneEntry, IndexClosed' PROVE Delivers
  <2> SUFFICES ASSUME NEW p \in Proc, kind[p] = "pull", write_index(p), NEW e \in ents[p]
               PROVE  e \in index' /\ Reach[e.digest] \subseteq Held'
    OBVIOUS
  <2>1. PICK f \in ents[p] : index' = Upsert(snap[p], f)
    BY DEF write_index
  <2>2. e = f
    BY <1>2 DEF OneEntry
  <2>3. e \in index'
    BY <2>1, <2>2 DEF Upsert, upsert_ref, upsert_untagged
  <2> QED BY <1>2, <2>3 DEF IndexClosed
<1>3. OneEntry /\ IndexClosed' => [Delivers]_vars
  BY <1>2
<1>4. PullDelivers <=> [][Delivers]_vars
  BY DEF PullDelivers
<1> HIDE DEF Delivers
<1> QED BY <1>1, <1>3, <1>4, OneEntryStep, TypeCorrect, IndexAlwaysClosed, PTL DEF Spec
============================================================================
