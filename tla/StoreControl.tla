---------------------------- MODULE StoreControl ----------------------------
(* The control files of a store directory (selene-persist, control/ and        *)
(* logical_stream/): bootstrap of an empty store, checkpoints, rotation to a   *)
(* fresh log segment, replacement of CURRENT, reopen, reader leases and        *)
(* explicit prune, with an I/O failure, a process crash or a power loss        *)
(* between any two of their steps.                                             *)
(*                                                                             *)
(* The directory exists twice: `live` is what the operating system shows,      *)
(* `disk` is what the last directory sync made durable.  A file's contents     *)
(* are synchronized before its name is published, so an entry is a whole file. *)
(* A manifest's digest is a hash of all of it: CURRENT holds the manifest      *)
(* itself, and a link to a predecessor holds its generation and segment.       *)
(* The database is the sequence of transactions applied to it; one commit      *)
(* writes one transaction, and its inner steps are those of LogicalWal.        *)
EXTENDS Naturals, SequencesExt

CONSTANTS
    Tx,         \* transactions
    Reader,     \* LogicalReaders, in this process or another
    MaxGen,     \* bound: manifest generations
    MaxSegment, \* bound: log segments ever created
    Crashes     \* kinds of crash considered, a subset of {"process", "power"}

VARIABLES
    live,       \* the directory as the system shows it
    disk,       \* the directory as a power loss is sure to leave it
    frames,     \* the synchronized transactions of each segment
    loose,      \* a transaction written to the selected segment, still in doubt
    fresh,      \* the next segment identity (a random UUID pair in the code)
    owner,      \* holder of LOCK: "none", an EmptyStoreControl or a LogicalWal
    selected,   \* the owner's selection
    fenced,     \* the owner's fence
    view,       \* the database the owner has published
    pc,         \* where the owner's publication or prune is
    next,       \* the manifest under publication
    doomed,     \* what prune still has to unlink
    readers,    \* the manifest each reader holds its lease on
    told,       \* "new", "acked" or "failed", for each transaction
    settled     \* acknowledged under a CURRENT known to be durable

directory == <<live, disk>>
log == <<frames, loose, fresh>>
memory == <<owner, selected, fenced, view>>
task == <<pc, next, doomed>>
vars == <<directory, log, memory, task, readers, told, settled>>

Segment == 0..MaxSegment
NoManifest == [kind |-> "none", gen |-> 0, seg |-> 0,
               image |-> <<>>, end |-> <<>>, prev |-> <<0, 0>>]
EmptyDirectory == [current |-> NoManifest, manifests |-> {}, snapshots |-> {}, logs |-> {}]
Nothing == [manifests |-> {}, snapshots |-> {}, logs |-> {}]

(* SLEM describes an empty store, SLLM selects a log, SLDM a log and a         *)
(* snapshot of a prefix of it, SLRM a snapshot and the log that continues it.  *)
HasLog(m) == m.kind \in {"SLLM", "SLDM", "SLRM"}
HasSnapshot(m) == m.kind \in {"SLDM", "SLRM"}
Id(m) == <<m.gen, m.seg>>
SnapshotOf(m) == [gen |-> m.gen, image |-> m.image]
SnapshotNamed(d, gen) == \E s \in d.snapshots : s.gen = gen

(* What replay of a root yields: its snapshot and the frames after the log     *)
(* position the snapshot was taken at.  An SLLM root has no snapshot; only a   *)
(* LogicalReader replays it, ReopeningWal refuses it.                          *)
Contents(m) ==
    LET from == IF m.kind = "SLDM" THEN Len(m.end) + 1 ELSE 1
    IN  m.image \o SubSeq(frames[m.seg], from, Len(frames[m.seg]))

(* dependencies: the files a root needs.                                       *)
Complete(d, m) ==
    /\ m \in d.manifests
    /\ HasLog(m) => m.seg \in d.logs
    /\ HasSnapshot(m) => SnapshotOf(m) \in d.snapshots

(* Types, and the directory's own rule: a name denotes one file, so of one     *)
(* generation there is one manifest and one snapshot (never overwritten by     *)
(* publish_new).                                                               *)
TypeOK ==
    /\ fresh \in 1..MaxSegment + 1
    /\ owner \in {"none", "empty", "log"} /\ fenced \in BOOLEAN
    /\ frames \in [Segment -> Seq(Tx)] /\ loose \in Seq(Tx) /\ view \in Seq(Tx)
    /\ \A d \in {live, disk} :
         /\ \A m \in d.manifests : m.gen \in 1..MaxGen /\ m.seg \in Segment
         /\ \A m, o \in d.manifests : m.gen = o.gen => m = o
         /\ \A s, o \in d.snapshots : s.gen = o.gen => s = o
         /\ d.logs \subseteq Segment
    /\ told \in [Tx -> {"new", "acked", "failed"}]
    /\ settled \subseteq Tx

Init ==
    /\ live = EmptyDirectory /\ disk = EmptyDirectory
    /\ frames = [s \in Segment |-> <<>>] /\ loose = <<>> /\ fresh = 1
    /\ owner = "none" /\ selected = NoManifest /\ fenced = FALSE /\ view = <<>>
    /\ pc = "idle" /\ next = NoManifest /\ doomed = Nothing
    /\ readers = [r \in Reader |-> NoManifest]
    /\ told = [t \in Tx |-> "new"] /\ settled = {}

-----------------------------------------------------------------------------
(* The calls that publish a manifest.  Each names the manifest it will publish *)
(* and enters the common sequence at its first artifact.                       *)

(* image is the body of the snapshot, end the log position it is recorded at.  *)
Successor(m, kind, seg, image, end) ==
    [kind |-> kind, gen |-> m.gen + 1, seg |-> seg,
     image |-> image, end |-> end, prev |-> Id(m)]

(* validate_directory: an empty store has no data files.                       *)
NoData(d) == d.logs = {} /\ d.snapshots = {}

(* EmptyStoreControl::create_empty.                                            *)
CreateEmpty ==
    /\ owner = "none" /\ pc = "idle"
    /\ live = EmptyDirectory
    /\ owner' = "empty"
    /\ next' = Successor(NoManifest, "SLEM", 0, <<>>, <<>>)
    /\ pc' = "manifest"
    /\ UNCHANGED <<directory, log, selected, fenced, view, doomed, readers, told, settled>>

(* EmptyStoreControl::open.                                                    *)
OpenEmpty ==
    /\ owner = "none" /\ pc = "idle"
    /\ live.current.kind = "SLEM" /\ Complete(live, live.current) /\ NoData(live)
    /\ owner' = "empty" /\ selected' = live.current /\ fenced' = FALSE
    /\ UNCHANGED <<directory, log, view, task, readers, told, settled>>

EmptyReady ==
    /\ owner = "empty" /\ pc = "idle" /\ ~fenced
    /\ live.current = selected /\ Complete(live, selected) /\ NoData(live)
    /\ selected.gen < MaxGen

(* EmptyStoreControl::publish_empty.                                           *)
PublishEmpty ==
    /\ EmptyReady
    /\ next' = Successor(selected, "SLEM", 0, <<>>, <<>>)
    /\ pc' = "manifest"
    /\ UNCHANGED <<directory, log, memory, doomed, readers, told, settled>>

(* LogicalWal::create consumes the empty control.                              *)
CreateLog ==
    /\ EmptyReady
    /\ fresh \in Segment
    /\ next' = Successor(selected, "SLLM", fresh, <<>>, <<>>)
    /\ fresh' = fresh + 1
    /\ pc' = "log"
    /\ UNCHANGED <<directory, frames, loose, memory, doomed, readers, told, settled>>

(* Mutant: checkpoint does not look at the boundary.                           *)
EstablishedUnchecked == TRUE

(* The live boundary a checkpoint needs: no fence, nothing in doubt, and all   *)
(* that is synchronized is published.                                          *)
Established == ~fenced /\ loose = <<>> /\ view = Contents(selected)

(* LogicalWal::checkpoint fences the owner.  The first one keeps the segment,  *)
(* every later one rotates to a fresh segment.                                 *)
Checkpoint ==
    /\ owner = "log" /\ pc = "idle"
    /\ Established
    /\ selected.gen < MaxGen
    /\ fenced' = TRUE
    /\ \/ /\ ~HasSnapshot(selected)
          /\ next' = Successor(selected, "SLDM", selected.seg, view, Contents(selected))
          /\ fresh' = fresh
       \/ /\ HasSnapshot(selected)
          /\ fresh \in Segment
          /\ next' = Successor(selected, "SLRM", fresh, view, Contents(selected))
          /\ fresh' = fresh + 1
    /\ pc' = "snapshot"
    /\ UNCHANGED <<directory, frames, loose, owner, selected, view, doomed,
                   readers, told, settled>>

-----------------------------------------------------------------------------
(* The publication sequence: snapshot, segment, manifest, CURRENT, each made   *)
(* durable by a directory sync before the next.                                *)

AfterSync(stage) ==
    CASE stage = "snapshotSync" -> IF next.kind = "SLRM" THEN "log" ELSE "manifest"
      [] stage = "logSync"      -> "manifest"
      [] stage = "manifestSync" -> "current"

(* prune::verify of a root; a root that need not be complete may miss files,   *)
(* never hold wrong ones.                                                      *)
Verified(m, required) ==
    /\ required => m.seg \in live.logs
    /\ HasSnapshot(m) =>
         /\ required => SnapshotNamed(live, m.gen)
         /\ SnapshotNamed(live, m.gen) => SnapshotOf(m) \in live.snapshots
    /\ m.kind = "SLDM" /\ m.seg \in live.logs => IsPrefix(m.end, frames[m.seg])

(* Mutant: a snapshot left by a failed attempt of this generation is kept.     *)
PublishSnapshotKept ==
    /\ pc = "snapshot"
    /\ live.current = selected /\ selected \in live.manifests
    /\ next.kind = "SLRM" =>
         Verified(selected, TRUE) /\ next.end = Contents(selected) \o loose
    /\ live' = IF SnapshotNamed(live, next.gen) THEN live
               ELSE [live EXCEPT !.snapshots = @ \cup {SnapshotOf(next)}]
    /\ pc' = "snapshotSync"
    /\ UNCHANGED <<disk, log, memory, next, doomed, readers, told, settled>>

(* publish_checkpoint and publish_rotation reselect CURRENT; a rotation also   *)
(* verifies the old root up to the sealed end.  The snapshot is named after    *)
(* its generation and never overwrites a file.                                 *)
PublishSnapshot ==
    /\ pc = "snapshot"
    /\ live.current = selected /\ selected \in live.manifests
    /\ next.kind = "SLRM" =>
         Verified(selected, TRUE) /\ next.end = Contents(selected) \o loose
    /\ ~SnapshotNamed(live, next.gen)
    /\ live' = [live EXCEPT !.snapshots = @ \cup {SnapshotOf(next)}]
    /\ pc' = "snapshotSync"
    /\ UNCHANGED <<disk, log, memory, next, doomed, readers, told, settled>>

(* The new segment; a rotation first checks the length of the old one.         *)
CreateSegment ==
    /\ pc = "log"
    /\ next.seg \notin live.logs
    /\ live' = [live EXCEPT !.logs = @ \cup {next.seg}]
    /\ pc' = "logSync"
    /\ UNCHANGED <<disk, log, memory, next, doomed, readers, told, settled>>

(* Mutant: a manifest of the same generation is not looked for.                *)
PublishManifestBlindly ==
    /\ pc = "manifest"
    /\ live' = [live EXCEPT !.manifests = @ \cup {next}]
    /\ pc' = "manifestSync"
    /\ UNCHANGED <<disk, log, memory, next, doomed, readers, told, settled>>

(* Mutant: a manifest left by a failed attempt of this generation is kept.     *)
PublishManifestKept ==
    /\ pc = "manifest"
    /\ live' = IF \E m \in live.manifests : m.gen = next.gen THEN live
               ELSE [live EXCEPT !.manifests = @ \cup {next}]
    /\ pc' = "manifestSync"
    /\ UNCHANGED <<disk, log, memory, next, doomed, readers, told, settled>>

(* publish_bytes: an immutable manifest; only identical bytes may be there.    *)
PublishManifest ==
    /\ pc = "manifest"
    /\ \A m \in live.manifests : m.gen = next.gen => m = next
    /\ live' = [live EXCEPT !.manifests = @ \cup {next}]
    /\ pc' = "manifestSync"
    /\ UNCHANGED <<disk, log, memory, next, doomed, readers, told, settled>>

(* publish_bytes: CURRENT is linked once for a new store, replaced afterwards. *)
ReplaceCurrent ==
    /\ pc = "current"
    /\ next.gen = 1 => live.current = NoManifest
    /\ live' = [live EXCEPT !.current = next]
    /\ pc' = "currentSync"
    /\ UNCHANGED <<disk, log, memory, next, doomed, readers, told, settled>>

(* A directory sync makes every entry durable, CURRENT included, so all that   *)
(* was acknowledged under it is settled.                                       *)
DirectorySynced ==
    /\ disk' = live
    /\ settled' = settled \cup {t \in Range(Contents(live.current)) : told[t] = "acked"}

SyncArtifact ==
    /\ pc \in {"snapshotSync", "logSync", "manifestSync"}
    /\ pc' = AfterSync(pc)
    /\ DirectorySynced
    /\ UNCHANGED <<live, log, memory, next, doomed, readers, told>>

(* The last sync: the owner switches to the new selection and may go on.       *)
SyncCurrent ==
    /\ pc = "currentSync"
    /\ DirectorySynced
    /\ pc' = "idle" /\ next' = NoManifest
    /\ selected' = next /\ fenced' = FALSE
    /\ owner' = IF next.kind = "SLEM" THEN "empty" ELSE "log"
    /\ UNCHANGED <<live, log, view, doomed, readers, told>>

Publishing == pc \in {"snapshot", "snapshotSync", "log", "logSync", "manifest",
                      "manifestSync", "current", "currentSync"}

(* Mutant: a failed checkpoint releases the fence.                             *)
PublicationFailsUnfenced ==
    /\ Publishing
    /\ pc' = "idle" /\ next' = NoManifest
    /\ fenced' = FALSE
    /\ UNCHANGED <<directory, log, owner, selected, view, doomed, readers, told, settled>>

(* Any step of the sequence fails.  create_empty and create give the store up, *)
(* publish_empty fences only when CURRENT may have been replaced, a checkpoint *)
(* stays fenced.                                                               *)
PublicationFails ==
    /\ Publishing
    /\ pc' = "idle" /\ next' = NoManifest
    /\ \/ /\ next.gen = 1 \/ next.kind = "SLLM"
          /\ owner' = "none" /\ selected' = NoManifest /\ fenced' = FALSE
       \/ /\ next.gen > 1 /\ next.kind = "SLEM"
          /\ \/ pc \in {"manifest", "manifestSync", "current"} /\ fenced' = FALSE
             \/ pc \in {"current", "currentSync"} /\ fenced' = TRUE
          /\ UNCHANGED <<owner, selected>>
       \/ /\ HasSnapshot(next)
          /\ UNCHANGED <<owner, selected, fenced>>
    /\ UNCHANGED <<directory, log, view, doomed, readers, told, settled>>

-----------------------------------------------------------------------------
(* Prune: plan, establish CURRENT, unlink.                                     *)

(* The previous completed root, retained with the current one.                 *)
History == {r \in live.manifests : Id(r) = selected.prev /\ HasSnapshot(r)}

(* Mutant: the probe of the manifest locks is left out.                        *)
NotLeased == {}

Leased == {m \in live.manifests : \E r \in Reader : readers[r] = m}

(* Mutant: only the current and the leased roots are kept.                     *)
KeptRootsNoHistory == {selected} \cup Leased

KeptRoots == {selected} \cup History \cup Leased

(* Every root the directory names is verified before anything is unlinked.     *)
Plannable ==
    /\ live.current = selected
    /\ selected.kind = "SLRM" =>
         /\ History # {}
         /\ \A r \in History : Verified(r, TRUE) /\ Contents(r) = selected.end
    /\ Verified(selected, TRUE)
    /\ \A r \in live.manifests : HasLog(r) => Verified(r, r \in KeptRoots)

(* The files of obsolete roots that no kept root needs; a file no manifest     *)
(* describes is deferred.                                                      *)
Obsolete ==
    LET old == live.manifests \ KeptRoots
        described(R) == {s \in live.snapshots :
                           \E r \in R : HasSnapshot(r) /\ r.gen = s.gen}
        logs(R) == {r.seg : r \in {m \in R : HasLog(m)}}
    IN  [manifests |-> old,
         snapshots |-> described(old) \ described(KeptRoots),
         logs      |-> (logs(old) \cap live.logs) \ logs(KeptRoots)]

(* Mutant: prune runs on a fenced owner.                                       *)
PruneFenced ==
    /\ owner = "log" /\ pc = "idle"
    /\ Plannable
    /\ doomed' = Obsolete
    /\ pc' = "establish"
    /\ UNCHANGED <<directory, log, memory, next, readers, told, settled>>

Prune ==
    /\ owner = "log" /\ pc = "idle" /\ ~fenced
    /\ Plannable
    /\ doomed' = Obsolete
    /\ pc' = "establish"
    /\ UNCHANGED <<directory, log, memory, next, readers, told, settled>>

(* Mutant: prune trusts the sync that reopen made of the log.                  *)
EstablishLogOnly ==
    /\ pc = "establish"
    /\ pc' = IF doomed = Nothing THEN "idle" ELSE "unlink"
    /\ UNCHANGED <<directory, log, memory, next, doomed, readers, told, settled>>

(* CURRENT and its dependencies are synchronized before the first unlink.      *)
Establish ==
    /\ pc = "establish"
    /\ DirectorySynced
    /\ pc' = IF doomed = Nothing THEN "idle" ELSE "unlink"
    /\ UNCHANGED <<live, log, memory, next, doomed, readers, told>>

(* One unlink: snapshots, then segments, then manifests, in name order.        *)
Unlink ==
    /\ pc = "unlink"
    /\ \/ \E s \in doomed.snapshots :
            /\ \A o \in doomed.snapshots : s.gen <= o.gen
            /\ live' = [live EXCEPT !.snapshots = @ \ {s}]
            /\ doomed' = [doomed EXCEPT !.snapshots = @ \ {s}]
       \/ \E n \in doomed.logs :
            /\ doomed.snapshots = {}
            /\ live' = [live EXCEPT !.logs = @ \ {n}]
            /\ doomed' = [doomed EXCEPT !.logs = @ \ {n}]
       \/ \E m \in doomed.manifests :
            /\ doomed.snapshots = {} /\ doomed.logs = {}
            /\ \A o \in doomed.manifests : m.gen <= o.gen
            /\ live' = [live EXCEPT !.manifests = @ \ {m}]
            /\ doomed' = [doomed EXCEPT !.manifests = @ \ {m}]
    /\ pc' = "unlinkSync"
    /\ UNCHANGED <<disk, log, memory, next, readers, told, settled>>

SyncUnlink ==
    /\ pc = "unlinkSync"
    /\ DirectorySynced
    /\ pc' = IF doomed = Nothing THEN "idle" ELSE "unlink"
    /\ UNCHANGED <<live, log, memory, next, doomed, readers, told>>

(* The first failure ends the call; cleanup debt never fences the owner.       *)
PruneFails ==
    /\ pc \in {"establish", "unlink", "unlinkSync"}
    /\ pc' = "idle" /\ doomed' = Nothing
    /\ UNCHANGED <<directory, log, memory, next, readers, told, settled>>

-----------------------------------------------------------------------------
(* LogicalWal::commit, by outcome; the steps inside are those of LogicalWal.   *)

CanCommit(t) ==
    /\ owner = "log" /\ pc = "idle" /\ ~fenced
    /\ told[t] = "new"

Acknowledged(t) ==
    /\ CanCommit(t)
    /\ frames' = [frames EXCEPT ![selected.seg] = Append(@, t)]
    /\ view' = Append(view, t)
    /\ told' = [told EXCEPT ![t] = "acked"]
    /\ settled' = IF disk.current = live.current THEN settled \cup {t} ELSE settled
    /\ UNCHANGED <<directory, loose, fresh, owner, selected, fenced, task, readers>>

(* Durability::Committed: synchronized, published or not, never acknowledged.  *)
FailedCommitted(t) ==
    /\ CanCommit(t)
    /\ frames' = [frames EXCEPT ![selected.seg] = Append(@, t)]
    /\ view' \in {view, Append(view, t)}
    /\ told' = [told EXCEPT ![t] = "failed"]
    /\ fenced' = TRUE
    /\ UNCHANGED <<directory, loose, fresh, owner, selected, task, readers, settled>>

(* Durability::Uncertain: rollback failed, or the process died before it.      *)
FailedUncertain(t) ==
    /\ CanCommit(t)
    /\ loose' = <<t>>
    /\ told' = [told EXCEPT ![t] = "failed"]
    /\ fenced' = TRUE
    /\ UNCHANGED <<directory, frames, fresh, owner, selected, view, task, readers, settled>>

(* Durability::Canceled after the append: the bytes are gone, the fence stays. *)
FailedCanceled ==
    /\ owner = "log" /\ pc = "idle" /\ ~fenced
    /\ fenced' = TRUE
    /\ UNCHANGED <<directory, log, owner, selected, view, task, readers, told, settled>>

-----------------------------------------------------------------------------
(* Crashes, reopen and readers.                                                *)

OwnerGone ==
    /\ owner' = "none" /\ selected' = NoManifest /\ fenced' = FALSE /\ view' = <<>>
    /\ pc' = "idle" /\ next' = NoManifest /\ doomed' = Nothing

(* The owner's process dies, or drops the owner: the kernel releases LOCK and  *)
(* the epoch lock, and keeps every entry and every written byte.               *)
ProcessCrash ==
    /\ owner # "none"
    /\ "process" \in Crashes
    /\ OwnerGone
    /\ UNCHANGED <<directory, log, readers, told, settled>>

(* Of entries a sync never covered, each may be there or not.                  *)
Survivors(a, b) == {(a \cap b) \cup e : e \in SUBSET ((a \ b) \cup (b \ a))}

PowerLoss ==
    /\ "power" \in Crashes
    /\ \E c \in {disk.current, live.current},
          ms \in Survivors(disk.manifests, live.manifests),
          ss \in Survivors(disk.snapshots, live.snapshots),
          ls \in Survivors(disk.logs, live.logs) :
         /\ \A m, o \in ms : m.gen = o.gen => m = o
         /\ \A x, o \in ss : x.gen = o.gen => x = o
         /\ live' = [current |-> c, manifests |-> ms, snapshots |-> ss, logs |-> ls]
    /\ disk' = live'
    /\ \E k \in 0..Len(loose) :
         frames' = [frames EXCEPT ![live.current.seg] = @ \o SubSeq(loose, 1, k)]
    /\ loose' = <<>>
    /\ readers' = [r \in Reader |-> NoManifest]
    /\ OwnerGone
    /\ UNCHANGED <<fresh, told, settled>>

(* Mutant: reopen cuts the log back to the snapshot's boundary.                *)
ReopenAtSnapshot ==
    /\ owner = "none" /\ pc = "idle"
    /\ HasSnapshot(live.current) /\ Complete(live, live.current)
    /\ frames' = [frames EXCEPT ![live.current.seg] =
                    IF live.current.kind = "SLRM" THEN <<>> ELSE live.current.end]
    /\ loose' = <<>>
    /\ owner' = "log" /\ selected' = live.current /\ fenced' = FALSE
    /\ view' = live.current.image
    /\ UNCHANGED <<directory, fresh, task, readers, told, settled>>

(* ReopeningWal: select CURRENT, load its snapshot, replay its segment and     *)
(* synchronize that segment; a transaction in doubt is there, or was cut off   *)
(* by a rollback that could not synchronize.  The directory is not             *)
(* synchronized.                                                               *)
Reopen ==
    /\ owner = "none" /\ pc = "idle"
    /\ HasSnapshot(live.current) /\ Complete(live, live.current)
    /\ \E k \in 0..Len(loose) :
         /\ frames' = [frames EXCEPT ![live.current.seg] = @ \o SubSeq(loose, 1, k)]
         /\ view' = Contents(live.current) \o SubSeq(loose, 1, k)
    /\ loose' = <<>>
    /\ owner' = "log" /\ selected' = live.current /\ fenced' = FALSE
    /\ UNCHANGED <<directory, fresh, task, readers, told, settled>>

(* LogicalReader::open selects CURRENT and locks its manifest under the shared *)
(* epoch, so never inside a publication or a prune.                            *)
ReaderOpen(r) ==
    /\ readers[r] = NoManifest /\ pc = "idle"
    /\ HasLog(live.current)
    /\ live.current \in live.manifests /\ live.current.seg \in live.logs
    /\ readers' = [readers EXCEPT ![r] = live.current]
    /\ UNCHANGED <<directory, log, memory, task, told, settled>>

ReaderClose(r) ==
    /\ readers[r] # NoManifest
    /\ readers' = [readers EXCEPT ![r] = NoManifest]
    /\ UNCHANGED <<directory, log, memory, task, told, settled>>

Publication ==
    \/ CreateEmpty \/ PublishEmpty \/ CreateLog \/ Checkpoint
    \/ PublishSnapshot \/ CreateSegment \/ PublishManifest \/ ReplaceCurrent
    \/ SyncArtifact \/ SyncCurrent \/ PublicationFails

Maintenance == Prune \/ Establish \/ Unlink \/ SyncUnlink \/ PruneFails

Commit ==
    \/ \E t \in Tx : Acknowledged(t) \/ FailedCommitted(t) \/ FailedUncertain(t)
    \/ FailedCanceled

Next ==
    \/ Publication \/ Maintenance \/ Commit
    \/ ProcessCrash \/ PowerLoss \/ OpenEmpty \/ Reopen
    \/ \E r \in Reader : ReaderOpen(r) \/ ReaderClose(r)

Spec == Init /\ [][Next]_vars

-----------------------------------------------------------------------------
(* Whatever CURRENT a crash may leave, old or new, the manifest, snapshot and  *)
(* log it selects are there: no failed publication, interrupted prune or later *)
(* prune removes a file of a root that could still be selected.                *)
SelectableRootsComplete ==
    \A c \in {live.current, disk.current} \ {NoManifest} :
        Complete(live, c) /\ Complete(disk, c)

(* docs/persistence-and-recovery.md: an acknowledged commit survives reopen.   *)
(* Every acknowledged transaction is in what CURRENT replays to (a commit of   *)
(* the facade is never under an SLLM root: create_in takes a checkpoint first).*)
AcknowledgedSurvives ==
    \A t \in Tx : told[t] = "acked" => t \in Range(Contents(live.current))

(* A transaction acknowledged under a CURRENT that is durable, or before a     *)
(* directory sync that made it so, is in the replay of every CURRENT a power   *)
(* loss may leave.                                                             *)
SettledSurvives ==
    \A t \in settled : \A c \in {live.current, disk.current} :
        t \in Range(Contents(c))

(* Replacing CURRENT changes no data: the new snapshot and the empty segment   *)
(* replay to exactly what the old root replays to, in-doubt tail included.     *)
ReplacementKeepsContents ==
    [][pc = "current" /\ live'.current # live.current =>
          Contents(live'.current) = Contents(live.current) \o loose]_vars

(* A reader holds no epoch while it consumes: the files of the root it leased  *)
(* stay in the directory, whatever is checkpointed, pruned or crashes.         *)
LeasedRootsComplete ==
    \A r \in Reader : readers[r] # NoManifest => Complete(live, readers[r])

(* Prune keeps the latest two completed checkpoints: the root that the current *)
(* rotating root names as its predecessor stays complete, and its sealed log   *)
(* still ends where the current snapshot begins.                               *)
PreviousRootKept ==
    live.current.kind = "SLRM" =>
        \E r \in live.manifests :
            /\ Id(r) = live.current.prev
            /\ Complete(live, r)
            /\ Contents(r) = live.current.image

(* A fenced owner that is inside no call changes no file, no log and no        *)
(* selection until it is replaced by a reopen.                                 *)
FencedOwnerInert ==
    [][owner # "none" /\ fenced /\ pc = "idle" /\ owner' # "none"
        => UNCHANGED <<directory, log, memory, pc>>]_vars

(* An owner that may commit appends to the segment CURRENT selects, holding    *)
(* exactly the database a reopen would rebuild.                                *)
OwnerMatchesCurrent ==
    owner = "log" /\ ~fenced /\ pc = "idle" =>
        /\ selected = live.current
        /\ view = Contents(live.current) /\ loose = <<>>

(* docs/v2/rotation-retention.md: missing obsolete dependencies may be the     *)
(* result of interrupted cleanup and do not prevent resuming removal of the    *)
(* rest.  An owner that may commit can always plan a prune.                    *)
PruneResumable ==
    owner = "log" /\ ~fenced /\ pc = "idle" => Plannable
=============================================================================
