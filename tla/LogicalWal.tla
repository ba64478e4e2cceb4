----------------------------- MODULE LogicalWal -----------------------------
(* The write-ahead log owner of selene-persist: LogicalWal::prepare, commit    *)
(* and rollback over one segment, the readers that capture an extent of that   *)
(* segment, and the crash and reopen that follow every way a commit can end.   *)
(*                                                                             *)
(* A Position of the code is (store, epoch, segment, sequence, offset,         *)
(* digest).  Within one segment the digest chains over every frame before it,  *)
(* so a position is modelled by the sequence of transactions written up to it: *)
(* equal positions are equal prefixes, the sequence number is the length.      *)
EXTENDS Naturals, Sequences, FiniteSets

CONSTANTS
    Tx,           \* transactions: every body ever handed to prepare is distinct
    Reader,       \* concurrent LogicalReaders, possibly in other processes
    MaxGroup,     \* MAX_GROUP, 32 in the code
    MaxPrepared,  \* bound: prepared groups a caller holds at the same time
    NoPosition    \* the None of Option<Position>

ASSUME MaxGroupAssumption == MaxGroup \in Nat \ {0}
ASSUME NoPositionAssumption == NoPosition \notin Seq(Tx)

VARIABLES
    synced,        \* frames the last successful sync_all put on the device
    cached,        \* complete frames of the file as the operating system shows it
    torn,          \* the file ends in a part of a frame
    dirty,         \* frames written since that sync, truncated or not
    smear,         \* a part of a frame was written since that sync
    owner,         \* "live": a LogicalWal owns the store; "down": none does
    pc,            \* where the owner's commit call is
    group,         \* the PreparedGroup that call consumed
    prepared,      \* groups prepared and not yet committed
    fenced,        \* LogicalWal.fenced
    written, synchronized, published, acknowledged,   \* LogicalWal.progress
    readers,       \* what each reader captured and has read
    told           \* what the caller was told of each transaction

file == <<synced, cached, torn, dirty, smear>>
progress == <<written, synchronized, published, acknowledged>>
vars == <<file, owner, pc, group, prepared, fenced, progress, readers, told>>

Position == Seq(Tx)
Group == [base : Position, body : Seq(Tx)]
NoGroup == [base |-> <<>>, body |-> <<>>]
Idle == "idle"
Phases == {Idle, "append", "synchronize", "publish", "acknowledge",
           "truncate", "cleanup"}
Verdicts == {"nothing", "canceled", "uncertain", "committed", "acknowledged"}
NotReading == [open |-> FALSE, extent |-> <<>>, got |-> <<>>]

Frames(s) == {s[i] : i \in 1..Len(s)}
IsPrefixOf(s, t) == /\ Len(s) <= Len(t)
                    /\ \A i \in 1..Len(s) : s[i] = t[i]
Distinct(s) == \A i, j \in 1..Len(s) : i # j => s[i] # s[j]
Candidate(g) == g.base \o g.body
Tell(ts, verdict) == told' = [t \in Tx |-> IF t \in ts THEN verdict ELSE told[t]]

(* Types, and the bound of prepare: a prepared group has 1 to MAX_GROUP bodies. *)
TypeOK ==
    /\ synced \in Seq(Tx) /\ cached \in Seq(Tx) /\ dirty \in Seq(Tx)
    /\ torn \in BOOLEAN /\ smear \in BOOLEAN /\ fenced \in BOOLEAN
    /\ owner \in {"live", "down"}
    /\ pc \in Phases
    /\ group \in Group
    /\ prepared \subseteq Group
    /\ \A g \in prepared : Len(g.body) \in 1..MaxGroup
    /\ written \in Position /\ synchronized \in Position
    /\ published \in Position \cup {NoPosition}
    /\ acknowledged \in Position \cup {NoPosition}
    /\ readers \in [Reader -> [open : BOOLEAN, extent : Seq(Tx), got : Seq(Tx)]]
    /\ told \in [Tx -> Verdicts]

-----------------------------------------------------------------------------
(* LogicalWal::create selects an empty segment that is already synchronized.   *)
Init ==
    /\ synced = <<>> /\ cached = <<>> /\ dirty = <<>>
    /\ torn = FALSE /\ smear = FALSE
    /\ owner = "live" /\ pc = Idle /\ group = NoGroup /\ prepared = {}
    /\ fenced = FALSE
    /\ written = <<>> /\ synchronized = <<>>
    /\ published = NoPosition /\ acknowledged = NoPosition
    /\ readers = [r \in Reader |-> NotReading]
    /\ told = [t \in Tx |-> "nothing"]

(* A transaction may be submitted when no file and no group holds it and its   *)
(* caller was told nothing of it yet; one a crash wiped out may come again.    *)
Fresh(t) ==
    /\ told[t] = "nothing"
    /\ t \notin Frames(cached) \cup Frames(dirty) \cup Frames(group.body)
    /\ \A g \in prepared : t \notin Frames(g.body)

(* Mutant: the check on the size of the group is missing.                      *)
PrepareAnySize(body) ==
    /\ owner = "live" /\ pc = Idle
    /\ ~fenced
    /\ \A i \in 1..Len(body) : Fresh(body[i])
    /\ Distinct(body)
    /\ Cardinality(prepared) < MaxPrepared
    /\ prepared' = prepared \cup {[base |-> synchronized, body |-> body]}
    /\ UNCHANGED <<file, owner, pc, group, fenced, progress, readers, told>>

(* prepare: encode a group against the synchronized boundary.                  *)
Prepare(body) ==
    /\ owner = "live" /\ pc = Idle
    /\ ~fenced
    /\ Len(body) \in 1..MaxGroup
    /\ \A i \in 1..Len(body) : Fresh(body[i])
    /\ Distinct(body)
    /\ Cardinality(prepared) < MaxPrepared
    /\ prepared' = prepared \cup {[base |-> synchronized, body |-> body]}
    /\ UNCHANGED <<file, owner, pc, group, fenced, progress, readers, told>>

(* Mutant: commit checks the base but not the fence.                           *)
AdmittedFenced(g) == g.base = synchronized

Admitted(g) == ~fenced /\ g.base = synchronized

(* commit, phase Prepare: a fenced writer, a stale base, canceled() or a       *)
(* failure to take the exclusive epoch returns Canceled without fencing.       *)
CommitRefused(g) ==
    /\ owner = "live" /\ pc = Idle
    /\ g \in prepared
    /\ prepared' = prepared \ {g}
    /\ Tell(Frames(g.body), "canceled")
    /\ UNCHANGED <<file, owner, pc, group, fenced, progress, readers>>

(* commit: the epoch is held and the writer fences itself before any byte.     *)
CommitBegin(g) ==
    /\ owner = "live" /\ pc = Idle
    /\ g \in prepared
    /\ Admitted(g)
    /\ prepared' = prepared \ {g}
    /\ group' = g
    /\ fenced' = TRUE
    /\ pc' = "append"
    /\ UNCHANGED <<file, owner, progress, readers, told>>

(* commit, phase Append: one write_all per frame, in order.                    *)
AppendFrame ==
    /\ owner = "live" /\ pc = "append"
    /\ Len(dirty) < Len(group.body)
    /\ LET t == group.body[Len(dirty) + 1] IN
         /\ cached' = Append(cached, t)
         /\ dirty' = Append(dirty, t)
         /\ written' = Append(group.base \o dirty, t)
    /\ pc' = IF Len(dirty) + 1 = Len(group.body) THEN "synchronize" ELSE "append"
    /\ UNCHANGED <<synced, torn, smear, owner, group, prepared, fenced,
                   synchronized, published, acknowledged, readers, told>>

(* write_all fails, leaving some or none of the frame's bytes behind.          *)
AppendFails ==
    /\ owner = "live" /\ pc = "append"
    /\ \E part \in BOOLEAN : torn' = part /\ smear' = part
    /\ pc' = "truncate"
    /\ UNCHANGED <<synced, cached, dirty, owner, group, prepared, fenced,
                   progress, readers, told>>

(* Mutant: the boundary moves although sync_all was never called.              *)
SynchronizeNothing ==
    /\ owner = "live" /\ pc = "synchronize"
    /\ synchronized' = Candidate(group)
    /\ pc' = "publish"
    /\ UNCHANGED <<file, owner, group, prepared, fenced, written,
                   published, acknowledged, readers, told>>

(* commit, phase Synchronize: sync_all, then the synchronized boundary moves.  *)
Synchronize ==
    /\ owner = "live" /\ pc = "synchronize"
    /\ synced' = cached /\ dirty' = <<>> /\ smear' = FALSE
    /\ synchronized' = Candidate(group)
    /\ pc' = "publish"
    /\ UNCHANGED <<cached, torn, owner, group, prepared, fenced, written,
                   published, acknowledged, readers, told>>

(* Mutant: the error of sync_all is dropped and publication goes ahead.        *)
SynchronizeErrorIgnored ==
    /\ owner = "live" /\ pc = "synchronize"
    /\ pc' = "publish"
    /\ UNCHANGED <<file, owner, group, prepared, fenced, progress, readers, told>>

SynchronizeFails ==
    /\ owner = "live" /\ pc = "synchronize"
    /\ pc' = "truncate"
    /\ UNCHANGED <<file, owner, group, prepared, fenced, progress, readers, told>>

(* commit, phase Publish: the callback stores the outer state and calls        *)
(* Publication::mark_published.                                                *)
Publish ==
    /\ owner = "live" /\ pc = "publish"
    /\ published' = Candidate(group)
    /\ pc' = "acknowledge"
    /\ UNCHANGED <<file, owner, group, prepared, fenced, written, synchronized,
                   acknowledged, readers, told>>

Acknowledge ==
    /\ owner = "live" /\ pc = "acknowledge"
    /\ acknowledged' = Candidate(group)
    /\ fenced' = FALSE
    /\ pc' = Idle
    /\ group' = NoGroup
    /\ Tell(Frames(group.body), "acknowledged")
    /\ UNCHANGED <<file, owner, prepared, written, synchronized, published, readers>>

(* canceled() after the sync, an error or unwind of the callback before its    *)
(* store, a callback that never marks, or any failure after it: the record is  *)
(* synchronized, so the failure says Committed and the writer stays fenced.    *)
FailAfterSync ==
    /\ owner = "live" /\ pc \in {"publish", "acknowledge"}
    /\ pc' = Idle
    /\ group' = NoGroup
    /\ Tell(Frames(group.body), "committed")
    /\ UNCHANGED <<file, owner, prepared, fenced, progress, readers>>

(* Mutant: rollback cuts one frame too many.                                   *)
TruncateTooFar ==
    /\ owner = "live" /\ pc = "truncate"
    /\ group.base = synchronized
    /\ cached' = SubSeq(cached, 1, Len(group.base) - 1)
    /\ torn' = FALSE
    /\ pc' = "cleanup"
    /\ UNCHANGED <<synced, dirty, smear, owner, group, prepared, fenced,
                   progress, readers, told>>

(* rollback: only the synchronized prefix is a legal boundary.                 *)
Truncate ==
    /\ owner = "live" /\ pc = "truncate"
    /\ group.base = synchronized
    /\ cached' = SubSeq(cached, 1, Len(group.base))
    /\ torn' = FALSE
    /\ pc' = "cleanup"
    /\ UNCHANGED <<synced, dirty, smear, owner, group, prepared, fenced,
                   progress, readers, told>>

(* Mutant: Canceled is reported without synchronizing the truncation.          *)
CleanupWithoutSync ==
    /\ owner = "live" /\ pc = "cleanup"
    /\ written' = group.base
    /\ pc' = Idle
    /\ group' = NoGroup
    /\ Tell(Frames(group.body), "canceled")
    /\ UNCHANGED <<file, owner, prepared, fenced, synchronized,
                   published, acknowledged, readers>>

(* rollback: sync_all of the truncation; only now is the group Canceled.       *)
Cleanup ==
    /\ owner = "live" /\ pc = "cleanup"
    /\ synced' = cached /\ dirty' = <<>> /\ smear' = FALSE
    /\ written' = group.base
    /\ pc' = Idle
    /\ group' = NoGroup
    /\ Tell(Frames(group.body), "canceled")
    /\ UNCHANGED <<cached, torn, owner, prepared, fenced, synchronized,
                   published, acknowledged, readers>>

(* Mutant: a failed rollback releases the fence.                               *)
RollbackFailsUnfenced ==
    /\ owner = "live" /\ pc \in {"truncate", "cleanup"}
    /\ pc' = Idle
    /\ group' = NoGroup
    /\ fenced' = FALSE
    /\ Tell(Frames(group.body), "uncertain")
    /\ UNCHANGED <<file, owner, prepared, progress, readers>>

(* set_len, seek or sync_all of the rollback fails: Uncertain.                 *)
RollbackFails ==
    /\ owner = "live" /\ pc \in {"truncate", "cleanup"}
    /\ pc' = Idle
    /\ group' = NoGroup
    /\ Tell(Frames(group.body), "uncertain")
    /\ UNCHANGED <<file, owner, prepared, fenced, progress, readers>>

-----------------------------------------------------------------------------
(* The owner is dropped between calls: LOCK is released, the file stays.       *)
Close ==
    /\ owner = "live" /\ pc = Idle
    /\ owner' = "down"
    /\ UNCHANGED <<file, pc, group, prepared, fenced, progress, readers, told>>

(* The owner's process dies anywhere: the page cache keeps every written byte, *)
(* readers in other processes go on, prepared groups are gone.                 *)
ProcessCrash ==
    /\ owner = "live"
    /\ owner' = "down" /\ pc' = Idle /\ group' = NoGroup /\ prepared' = {}
    /\ UNCHANGED <<file, fenced, progress, readers, told>>

(* The machine dies: of what was written since the last sync any prefix may    *)
(* be on the device, its end possibly in the middle of a frame.                *)
PowerLoss ==
    /\ \E k \in 0..Len(dirty) :
         /\ cached' = synced \o SubSeq(dirty, 1, k)
         /\ torn' \in IF smear \/ k < Len(dirty) THEN BOOLEAN ELSE {torn}
    /\ synced' = cached' /\ dirty' = <<>> /\ smear' = FALSE
    /\ owner' = "down" /\ pc' = Idle /\ group' = NoGroup /\ prepared' = {}
    /\ readers' = [r \in Reader |-> NotReading]
    /\ UNCHANGED <<fenced, progress, told>>

(* ReopeningWal: every frame is verified and consumed, an incomplete tail is   *)
(* refused and never truncated, and the complete file is synchronized before   *)
(* the new owner may append.                                                   *)
Reopen ==
    /\ owner = "down"
    /\ ~torn
    /\ synced' = cached /\ dirty' = <<>> /\ smear' = FALSE
    /\ owner' = "live"
    /\ fenced' = FALSE
    /\ written' = cached /\ synchronized' = cached /\ published' = cached
    /\ acknowledged' = NoPosition
    /\ UNCHANGED <<cached, torn, pc, group, prepared, readers, told>>

-----------------------------------------------------------------------------
(* Mutant: a reader captures its extent without taking the epoch.              *)
ReaderOpenNoEpoch(r) ==
    /\ ~readers[r].open
    /\ readers' = [readers EXCEPT ![r] =
                     [open |-> TRUE, extent |-> cached, got |-> <<>>]]
    /\ UNCHANGED <<file, owner, pc, group, prepared, fenced, progress, told>>

(* LogicalReader::open: the shared epoch excludes a running commit, and the    *)
(* length of the file is captured before the epoch is released.                *)
ReaderOpen(r) ==
    /\ ~readers[r].open
    /\ pc = Idle
    /\ readers' = [readers EXCEPT ![r] =
                     [open |-> TRUE, extent |-> cached, got |-> <<>>]]
    /\ UNCHANGED <<file, owner, pc, group, prepared, fenced, progress, told>>

(* next_body: the next complete frame within the captured extent.              *)
ReaderNext(r) ==
    /\ readers[r].open
    /\ Len(readers[r].got) < Len(readers[r].extent)
    /\ Len(readers[r].got) < Len(cached)
    /\ readers' = [readers EXCEPT ![r].got = Append(@, cached[Len(@) + 1])]
    /\ UNCHANGED <<file, owner, pc, group, prepared, fenced, progress, told>>

ReaderClose(r) ==
    /\ readers[r].open
    /\ readers' = [readers EXCEPT ![r] = NotReading]
    /\ UNCHANGED <<file, owner, pc, group, prepared, fenced, progress, told>>

-----------------------------------------------------------------------------
(* Bodies a caller may pass, empty and oversized slices included.              *)
Bodies == UNION {[1..n -> Tx] : n \in 0..MaxGroup + 1}

CommitStep ==
    \/ AppendFrame \/ AppendFails
    \/ Synchronize \/ SynchronizeFails
    \/ Publish \/ Acknowledge \/ FailAfterSync
    \/ Truncate \/ Cleanup \/ RollbackFails

Next ==
    \/ \E body \in Bodies : Prepare(body)
    \/ \E g \in prepared : CommitRefused(g) \/ CommitBegin(g)
    \/ CommitStep
    \/ Close \/ ProcessCrash \/ PowerLoss \/ Reopen
    \/ \E r \in Reader : ReaderOpen(r) \/ ReaderNext(r) \/ ReaderClose(r)

Spec == Init /\ [][Next]_vars

-----------------------------------------------------------------------------
(* A commit that was reported Canceled never comes back: its transactions are  *)
(* neither in the file nor among the bytes a crash could still leave on the    *)
(* device (Durability::Canceled is returned only after rollback's own sync).   *)
CanceledNeverRecovered ==
    \A t \in Tx : told[t] = "canceled" =>
        t \notin Frames(synced) \cup Frames(cached) \cup Frames(dirty)

(* A commit that was acknowledged, or whose failure said Committed, is on the  *)
(* device: no crash, rollback of a later group or reopen can lose it.          *)
CommittedNeverLost ==
    \A t \in Tx : told[t] \in {"committed", "acknowledged"} => t \in Frames(synced)

(* The boundaries of Progress are established in order: what is acknowledged   *)
(* was published, what is published was synchronized and is on the device,     *)
(* and what is synchronized was written.                                       *)
ProgressOrdered ==
    owner = "live" =>
        /\ acknowledged # NoPosition =>
             published # NoPosition /\ IsPrefixOf(acknowledged, published)
        /\ published # NoPosition => IsPrefixOf(published, synchronized)
        /\ IsPrefixOf(synchronized, synced)
        /\ IsPrefixOf(synchronized, written)

(* A writer that may still append stands exactly at the end of the file: no    *)
(* in-doubt byte of an earlier commit lies before its next frame.              *)
OpenWriterAtEnd ==
    owner = "live" /\ ~fenced =>
        /\ synchronized = cached /\ written = cached /\ synced = cached
        /\ dirty = <<>> /\ ~torn /\ ~smear

(* Readers hold no lock while they consume, yet what a reader returns is what  *)
(* it captured: append, rollback, crash of the owner and reopen never change   *)
(* a byte of an extent somebody captured (LogicalReader::open, next_body).     *)
ReadersSeeTheirCapture ==
    \A r \in Reader : readers[r].open =>
        IsPrefixOf(readers[r].got, readers[r].extent)

(* Frames once on the device stay there, in the same order: rollback and       *)
(* reopen never cut below the last successful synchronization.                 *)
DevicePrefixGrows == [][IsPrefixOf(synced, synced')]_vars

(* A fenced owner whose call has returned never touches the file again; only   *)
(* a crash of the machine or a reopen does.                                    *)
FencedOwnerIsInert ==
    [][owner = "live" /\ pc = Idle /\ fenced /\ owner' = "live"
        => UNCHANGED <<file, progress>> /\ fenced' /\ pc' = Idle]_vars

(* The log owner implements the promise of DurableLog: the device holds the    *)
(* durable log, the unsynchronized frames are the transactions in doubt, and   *)
(* every verdict commit returns is final and true.                             *)
Promise == INSTANCE DurableLog WITH log <- synced, pending <- dirty
ImplementsDurableLog == Promise!Spec
=============================================================================
