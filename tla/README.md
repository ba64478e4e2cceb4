# selene-db: specification and proofs

TLA+ models of the parts of selene-db in which the order of steps decides
whether data is lost: the write-ahead log, the control files of a store
directory, and the transactions of the database facade. Every definition is
translated from the source; `PROJECT.json` maps it to the lines it stands for.

- [1. The system](#1-the-system)
- [2. Modules](#2-modules)
- [3. Runs](#3-runs)
- [4. Where code and documentation differ](#4-where-code-and-documentation-differ)
- [5. Proofs](#5-proofs)
- [6. Abstractions and assumptions](#6-abstractions-and-assumptions)
- [7. What is not modelled](#7-what-is-not-modelled)
- [8. Plan](#8-plan)

## 1. The system

selene-db is an embedded property-graph database: a library that one process
opens on a directory, or in memory. Its parts, from the disk up:

| Part | Source | State | Operations | What is hard |
|---|---|---|---|---|
| Log stream | `selene-persist/src/logical_stream*` | one segment file, four boundaries (written, synchronized, published, acknowledged), a fence | prepare, commit, rollback, reopen, read | failures after each system call, a failed rollback, crash or power loss, readers without a lock |
| Store control | `selene-persist/src/control*`, `logical_stream/checkpoint.rs`, `prune.rs` | `CURRENT`, manifests, snapshots, segments, reader leases | create, checkpoint, rotate, prune, reopen | a power loss between an entry and its directory sync, an uncertain replacement, names reused after a failure |
| Frame and snapshot codecs | `logical_frame.rs`, `logical_snapshot.rs` | none | encode, verify | byte formats |
| Facade transactions | `selene-db/src/transaction*`, `session/`, `catalog*.rs`, `durable*` | the published database state, drafts, the mutation reservation, lifecycle locks | start, statement, commit, rollback, catalog call, live read, checkpoint, open | optimistic conflicts, log against memory, truthful outcomes, locks held while waiting |
| Plan cache | `selene-db/src/session/cache.rs` | a bounded cache of plans | look up, insert, invalidate | a plan that is stale when used |
| Graph | `selene-graph` | one graph: rows, adjacency, indexes, identity allocator | write transaction, commit pipeline, compaction, replay | provider votes, burned identities, compaction against readers |
| Catalog | `selene-catalog` | descriptors with parents, dependencies, generations | catalog transaction, snapshot | dependencies across one transaction |
| Core | `selene-core` | clock, cancellation token; values and types | tick, merge, cancel; compare, convert | numeric limits |
| Language | `selene-gql` | none that is shared | parse, analyze, plan, run | size |
| Algorithms, profile | `selene-algorithms`, `selene-profile` | none | pure functions, generated tables | |

How they interact. A session executes statements on a *draft*, a private copy
of the published state pinned at a publication number. A commit enters the one
mutation reservation, checks that the published state is still the draft's
base, takes the lifecycle locks of the graphs it replaces or removes, appends
one frame to the log, synchronizes it, stores the new state with one pointer
swap, and acknowledges. A checkpoint writes the published state as a snapshot
and, from the second one on, rotates to a new segment; `CURRENT` names the
manifest that names both. Opening replays the snapshot and the segment.

Properties wanted of each part, and whether they are stated here:

- Log: a verdict given to a caller stays true; boundaries keep their order; an
  owner in doubt does nothing more; a reader gets what it captured. *(checked
  and proved)*
- Store control: every selectable root is complete; replacement of `CURRENT`
  changes no data; leases and history are respected; an owner that may commit
  agrees with `CURRENT`. *(checked)*
- Facade: serializability, isolation, truthful outcomes, log before memory,
  exact recovery, identities never reused, no call blocked for ever. *(checked)*
- Plan cache, graph, catalog, clock: see the [plan](#8-plan).

The hazards behind these properties are listed with their source lines in
`PROJECT.json`.

## 2. Modules

### LogicalWal, DurableLog

`LogicalWal` models one segment and its owner. `cached` is the file as the
operating system shows it, `synced` what the last successful `sync_all` put on
the device, `dirty` the frames written since. A power loss leaves `synced` and
any prefix of `dirty`, and maybe a torn frame. A `Position` of the code is
identified by its digest chain, so the model uses the sequence of transactions
up to it.

| Code | Actions |
|---|---|
| `LogicalWal::prepare` | `Prepare` |
| `commit`, phase Prepare | `CommitRefused`, `CommitBegin` |
| `commit`, phases Append and Synchronize | `AppendFrame`, `AppendFails`, `Synchronize`, `SynchronizeFails` |
| `commit`, phases Publish and Acknowledge | `Publish`, `Acknowledge`, `FailAfterSync` |
| `rollback` | `Truncate`, `Cleanup`, `RollbackFails` |
| `ReopeningWal` | `Reopen` |
| `LogicalReader` | `ReaderOpen`, `ReaderNext`, `ReaderClose` |
| environment | `Close`, `ProcessCrash`, `PowerLoss` |

`DurableLog` is the promise to the caller without files: a durable sequence
that only grows, transactions in doubt, and final, true verdicts. `LogicalWal`
implements it with `log <- synced`, `pending <- dirty`.

### StoreControl

The directory twice: `live` as shown, `disk` as made durable by the last
directory sync. The publication of a manifest is a sequence of steps (`pc`):
snapshot, segment, manifest, `CURRENT`, each followed by a directory sync. The
calls `CreateEmpty`, `PublishEmpty`, `CreateLog` and `Checkpoint` enter it at
their first artifact; `PublicationFails` leaves it at any step with the fence
the code sets. `Prune` plans under the exclusive epoch, `Establish`
synchronizes `CURRENT` and its dependencies, `Unlink` and `SyncUnlink` remove
files one by one, dependencies before manifests. `Contents` is what a root
replays to: its snapshot and the frames after the position the snapshot was
taken at. A root without a snapshot (SLLM) is replayed by a `LogicalReader`
only, `ReopeningWal` refuses it; a database never commits under one, because
`Database::create_in` takes a checkpoint at once. `Reopen` selects `CURRENT`,
replays, and synchronizes the segment but not the directory. A commit appears
by its outcome, as `LogicalWal` establishes it: `Acknowledged`,
`FailedCommitted`, `FailedUncertain`, `FailedCanceled`.

The shared and exclusive epoch locks are the conditions on `pc`: a reader
opens only when no publication and no prune is under way.

### Facade

Threads with at most one session each, that also call the `Catalog` service.

| Code | Actions |
|---|---|
| session creation, `SESSION SET GRAPH`, `SESSION CLOSE` | `SelectGraph`, `Close` |
| `start_transaction_checked` | `Start`, `Pin` |
| data statements, refused statements | `Write`, `StatementFails` |
| catalog statements | `Define`, then the staging below |
| `Catalog::create_graph`, `drop_graph` | `CatalogCall`, then the staging below |
| staging inside the reservation (`CatalogStager`) | `Enter`, `CheckDroppable`, `StageCommand`, `StagingFails` |
| `commit_transaction_checked`, `rollback_transaction_checked` | `Commit`, `Rollback` |
| `with_mutation_reservation`, `publish_draft_checked` | `Reserve`, `Refuse`, `Guard`, `Reject`, `Unwind`, `LogFrame`, `LogCanceled`, `LogUncertain`, `Publish`, `Unacknowledged`, `Acknowledge` |
| `with_graph_request` | `Observe`, `TakeLease`, `EndRead` |
| `DatabaseInner::checkpoint`, `Database::open` | `Checkpoint`, `CheckpointFails`, `Restart` |

`Define` and `CatalogCall` only ask for the reservation: the wait for it is part
of the call. `Enter` is the moment it is granted. A drop then waits for the
lifecycle lock of its graph with the reservation in hand; `CheckDroppable` is
the moment that lock is granted and, as `check_droppable` returns, released
again. `Guard` takes it a second time for the publication, and requests may
lease the graph in between. No failure is possible while a thread is blocked:
`StagingFails` comes before the first wait or after it.

A graph is the sequence of transactions that wrote to it, so lost, doubled or
reordered updates are visible. An instance (`Arc<GraphInstance>`) is named by
the publication that created it.

### LogicalWalProofs

The theorems about `LogicalWal`; see [Proofs](#5-proofs).

### How the three fit

`StoreControl` and `Facade` use the log by its verdicts: committed frames are
in the log for good, canceled ones are gone, uncertain ones are there or not,
and after a failure the owner is fenced. These are the properties of
`LogicalWal` that are proved. `Facade` uses a checkpoint by its result, an
image with the sequence number it covers: `ReplacementKeepsContents` and
`SelectableRootsComplete` of `StoreControl` are what makes that sound.

## 3. Runs

| Run | Instance | Shows | Distinct states |
|---|---|---|---|
| `wal` | 4 transactions, groups of up to 2, 2 prepared groups, 1 reader | all properties of `LogicalWal`, and that it implements `DurableLog` | 112 thousand |
| `store` | 2 transactions, 5 generations, 3 segments, 1 reader, process crashes and power losses | roots, leases, history, contents and fences of `StoreControl` | 516 thousand |
| `store_process` | the same without power losses | acknowledged commits survive; a fenced owner is inert | 420 thousand |
| `store_power_loss` | as `store` | *violation*, see section 4 | |
| `store_prune_resume` | as `store_process` | *violation*, see section 4 | |
| `facade` | 2 threads, 2 transactions or catalog calls, 2 graphs, 2 writes each, every kind of call, with a log | serial state, isolation, outcomes, log before memory, leases | 337 thousand |
| `facade_recovery` | 2 threads, 3 implicit transactions or catalog calls | exact recovery, identities never reused | 1.36 million |
| `facade_memory` | 2 threads with explicit and implicit transactions and catalog calls, 1 thread that reads, memory only, fair | serial state; every call returns | 173 thousand |

Bounds, and why they are enough for the cases that matter.

- `wal`: a group of two can be cut between its frames; two prepared groups make
  one stale when the other commits; four transactions allow a commit, a failed
  group and a commit after reopen. A group of three exceeds `MAX_GROUP`.
- `store`: generations 1 and 2 are the bootstrap, 3 is the first checkpoint, 4
  and 5 are two rotations, so a previous root, an older one and a failed attempt
  of the same generation coexist. Segment 3 is the second fresh segment of a
  rotation. Six generations and four segments were also run once (4.1 million
  states, no error).
- `facade`: two transactions are the smallest conflict. The drop of a graph, a
  checkpoint and a new graph need the third call of `facade_recovery`.
- `facade_memory`: three threads are a reader, a drop that waits for it inside
  the reservation, and a third call that queues behind both. One call creates
  the second graph and an explicit transaction then drops both, so a publication
  that takes two lifecycle locks in turn occurs, with a reader on either graph.
  The third thread only reads; three threads with all calls were run once (555
  thousand states, no error).

Symmetry is used over transactions and over threads in runs without liveness.
Deadlock is checked in `wal`, `facade` and `facade_recovery`. The store runs and
`facade_memory` may stop: a store whose bootstrap failed half-way is never
opened again, and a memory-only database whose graphs are all dropped and whose
bound of transactions is used up has nothing left to do.

Fairness is assumed in `facade_memory` only. It is strong for the steps that a
lock held by others may disable again and again (`Granted`: entry into the
reservation, a request's lease), because the mutex and the lifecycle locks are
those of `parking_lot`, which hand over to waiters. It is weak for the other
steps of a call that succeeds (`Onward`), as a running thread is scheduled; the
two waits of a writer for a lifecycle lock are among them, and they end only
because a waiting writer blocks new readers (`Wanted`). No failure is fair, so
no call escapes from a wait by an error, and nothing is assumed of a caller
between calls. `CallsReturn` has two mutants: a request that needs the
reservation while it holds its lease deadlocks with a drop, and a lock that lets
readers pass a waiting writer starves it.

Every property has a mutant, some have several: an operator named in `PROJECT.json` that changes
one mapped definition the way a plausible bug would and makes the property
fail; the mutants stand before the definitions they change.

## 4. Where code and documentation differ

1. *Acknowledged commits and power loss* (`store_power_loss`).
   `docs/persistence-and-recovery.md:74-75`: "an acknowledged commit survives
   reopen". `ReopeningWal::finish` synchronizes the segment and not the
   directory. If the process dies in a rotation between the rename of `CURRENT`
   and its directory sync, reopen continues on the new segment; commits
   acknowledged there are lost when a power loss brings back the old `CURRENT`.
   The sentence quoted has no qualification; other places do.
   `docs/v2/rotation-retention.md:113-116` says of prune that it "deliberately
   reestablishes durability after reopen following an uncertain CURRENT
   replacement; reopen's WAL sync alone is insufficient" (so does
   `prune.rs:223-224`), and `logical_stream.rs:5-7` that "process-crash evidence
   is not a power-loss guarantee". A reader of all of them knows the gap; reopen
   does not close it before it accepts commits. What does hold is `SettledSurvives`: commits acknowledged under a durable `CURRENT`, or
   followed by any directory sync, survive. Without power losses
   `AcknowledgedSurvives` holds (`store_process`).
2. *Resuming an interrupted prune* (`store_prune_resume`).
   `docs/v2/rotation-retention.md:110-111`: missing obsolete dependencies "do
   not prevent resuming removal of the rest". A manifest of generation g that
   was published and never selected is obsolete. If a prune removes its snapshot
   and then stops, the next checkpoint, also of generation g, publishes another
   `SNAPSHOT-g` and fails on the manifest. From then on prune finds a snapshot
   that does not match the obsolete manifest and refuses to plan. No data is
   lost.

## 5. Proofs

`LogicalWalProofs` proves, for every set of transactions and readers and every
positive `MAX_GROUP`:

| Theorem | States |
|---|---|
| `Invariance` | the inductive invariant `IInv` |
| `TypeCorrect`, `CanceledIsFinal`, `CommittedIsFinal`, `BoundariesOrdered`, `WriterAtEnd`, `CaptureRespected` | the invariants of run `wal` |
| `FencedInert`, `DeviceGrows` | its action properties |
| `Refinement` | `LogicalWal` implements `DurableLog` |

Assumptions: `MaxGroup` is positive, and `NoPosition` is not a sequence of
transactions.

The argument. "A canceled transaction is nowhere" is not inductive: one must
know that rollback removes all that its group wrote and nothing else. `IInv`
adds

- `FileShape`: the file extends the device by frames in doubt only;
- `CallShape`: for each point of a commit, what file, device and boundaries
  are, relative to the group;
- `GroupsApart`: transactions of groups that were not judged yet are in no file
  and in no other group;
- `ExtentsKept`: no captured extent reaches into what a running commit may cut,
  because readers open only outside commits.

There is one lemma per action. The refinement needs one fact more, `FileWhole`:
the file holds all of the frames in doubt or none, so that what a reopen finds
is one of the ways in which `DurableLog` settles doubt.

Model-checked only: all of `StoreControl` and `Facade`, and liveness
(`CallsReturn`), which the prover does not cover.

## 6. Abstractions and assumptions

- `sync_all` that returns without error makes the file's contents durable, and a
  directory sync all entries. After a failed sync anything between is possible.
- A directory entry that was not synchronized survives a power loss or not,
  independently of the others. A file is synchronized before its name is
  published, so an entry means whole contents.
- Temporary files and their cleanup are left out: no step reads them back.
- Digests do not collide: `CURRENT` holds the manifest itself.
- A torn tail is modelled in `LogicalWal`, where reopen refuses it. In
  `StoreControl` and `Facade` a frame in doubt is whole or absent.
- Fault points (`check_fault`, `Fault`, `FailurePoint`) are test hooks; the
  models fail at the system calls around them.
- Transaction identifiers restart with the process; the model's identifiers go
  on, as they name transactions in the history.
- A transaction in a final state admits what an empty slot does, so the slot is
  emptied and `verdict` keeps the state.
- Catalog objects are abstracted to graphs; a command drops at most one graph
  and creates at most one. The calls on schemas and graph types follow the same
  path without a lifecycle lock and have no actions of their own. `SESSION RESET` selects a graph like `SET GRAPH`.
- A panic after the outer store of a memory-only database ends as a failed
  transaction although its changes are published (`Unwind`); with a log,
  `LogicalWal::commit` catches it and the outcome is indeterminate. The code that
  runs there today, `forget_graph`, only removes entries. `OutcomesTruthful` is
  therefore stated for databases with a log.
- `Facade` keeps the process's own restart and the log's doubt; which bytes a
  crash leaves is the subject of the other two modules.

## 7. What is not modelled

`PROJECT.json` lists every part with the reason. In short: byte formats
(codecs), values and types, the language (parser, analyzer, planner, runtime),
algorithms and the generated profile have much data and no shared control. The
plan cache, the graph's write transaction and commit pipeline, its identity
allocator and compaction, the catalog and the clock are planned.

Two hazards have no property: a snapshot left by a failed checkpoint stops
later checkpoints of its generation (documented as such), and the bound on the
number of files.

## 8. Plan

In this order.

1. **Graph write transaction** (`write_txn`, `committer`, `provider_fanout`,
   `id_allocator`): one action per phase of the pipeline, providers that veto,
   fail or panic. Properties: all or nothing towards providers, identities
   never reused after an abort, publication order. Compose with `Facade` by
   refining its `Write`.
2. **Compaction** (`compaction`): row renumbering against snapshot readers and
   identities. An abstract graph keyed by identity, refined by rows.
3. **Catalog** (`selene-catalog`): transactions over descriptors with parents,
   dependencies and generations, with the restrict rules of drops.
4. **Plan cache** (`session/cache.rs`): dependency stamp, characteristic epoch
   and bound. Property: a plan that is run is current for the snapshot it runs
   on.
5. **Clock and cancellation** (`hlc.rs`, `cancellation.rs`): monotonic at the
   counter's limits; first cause wins.
6. **Compositions**: `Facade` over an abstract store that `StoreControl`
   implements (a sequence of settled transactions with a durable selection).
7. **Proofs**: `StoreControl` (`SelectableRootsComplete`, `SettledSurvives`,
   then `OwnerMatchesCurrent`), `Facade` (`LogAhead`, `OutcomesTruthful`,
   `LeasedGraphRegistered`), then the identity allocator.
