------------------------------- MODULE Facade -------------------------------
(* Sessions and transactions of the selene-db facade (transaction.rs,          *)
(* transaction/, session/, catalog.rs, catalog_stage.rs, durable.rs): detached *)
(* drafts, the single mutation reservation, lifecycle leases, the one outer    *)
(* publication, the log in front of it, checkpoints and reopen.                *)
(*                                                                             *)
(* A thread uses one session at a time and may also call the Catalog service.  *)
(* A graph is the sequence of the transactions that wrote to it.  An instance  *)
(* (Arc<GraphInstance>) is named by the publication that created it, and a     *)
(* database state (Arc<DatabaseState>) by its publication number.              *)
EXTENDS Naturals, SequencesExt

CONSTANTS
    Thread,     \* threads, each with at most one session
    MaxGraph,   \* bound: graph identities ever allocated
    MaxTx,      \* bound: transactions and catalog calls
    MaxWrites,  \* bound: data statements of a transaction
    Workload,   \* the kinds of calls each thread makes
    Durable     \* TRUE for a database with a log, FALSE for a memory-only one

VARIABLES
    state,      \* the published DatabaseState
    wal,        \* the log: frames, a frame in doubt, the fence
    image,      \* the state in the selected checkpoint, with its sequence
    writer,     \* the thread inside the mutation reservation
    guards,     \* instances whose lifecycle lock the writer holds
    chosen,     \* the graph each session selects, 0 for no session
    slot,       \* the DetachedTransaction of each session
    step,       \* where each thread's call is
    call,       \* what that call works on
    lease,      \* the instance each live read works on
    last,       \* the last transaction identifier
    published,  \* history: the transactions in state
    verdict     \* history: what was reported for each transaction

session == <<chosen, slot, step, call, lease>>
store == <<state, wal, image, published>>
vars == <<store, writer, guards, session, last, verdict>>

Graph == 1..MaxGraph
Tx == 1..MaxTx
Nobody == "nobody"
NoDraft == [id |-> 0, base |-> 0, graph |-> 0, catalog |-> {}, high |-> 0,
            writes |-> 0, add |-> {}, drop |-> {}, data |-> <<>>]
NoSlot == [st |-> "none", id |-> 0, explicit |-> FALSE, access |-> "rw",
           mode |-> "none", draft |-> NoDraft]
NoCommand == [old |-> {}, new |-> {}]
Idle == [tx |-> FALSE, explicit |-> FALSE, access |-> "rw", command |-> NoCommand,
         draft |-> NoDraft]
NoLease == [graph |-> 0, inst |-> 0]
Outcome == {"RolledBack", "Unmodified", "Committed", "Indeterminate"}

-----------------------------------------------------------------------------
(* Databases: the data of each graph and the high-water mark of identities.    *)

Data(graphs) == [g \in DOMAIN graphs |-> graphs[g].data]

(* LogicalTransaction of a draft, relative to its base.                        *)
Frame(d) == [id |-> d.id, graph |-> d.graph, writes |-> d.writes,
             add |-> d.add, drop |-> d.drop, high |-> d.high]

Writes(f) == [i \in 1..f.writes |-> f.id]

(* ReplayState::apply_body.                                                    *)
Apply(db, f) ==
    [high  |-> f.high,
     data  |-> [g \in (DOMAIN db.data \ f.drop) \cup f.add |->
                  IF g \in f.add THEN <<>>
                  ELSE IF g = f.graph THEN db.data[g] \o Writes(f) ELSE db.data[g]]]

Replay(db, fs) == FoldLeft(Apply, db, fs)

Created == [id |-> 0, graph |-> 0, writes |-> 0, add |-> {1}, drop |-> {}, high |-> 1]
EmptyDatabase == [high |-> 0, data |-> <<>>]
Database == [high |-> state.high, data |-> Data(state.graphs)]

(* recovery::prepare: the checkpoint image and the frames after it.            *)
Recovered(fs) ==
    Replay([high |-> image.high, data |-> image.data], SubSeq(fs, image.sequence + 1, Len(fs)))

(* A database to which the first graph has been added.                         *)
Init ==
    /\ state = [publication |-> 1, catalog |-> {1}, high |-> 1,
                graphs |-> [g \in {1} |-> [inst |-> 1, data |-> <<>>]]]
    /\ published = <<Created>>
    /\ wal = [frames |-> <<Created>>, doubt |-> <<>>, fenced |-> FALSE]
    /\ image = [sequence |-> 0, high |-> 0, data |-> <<>>]
    /\ writer = Nobody /\ guards = {}
    /\ chosen = [t \in Thread |-> 0] /\ slot = [t \in Thread |-> NoSlot]
    /\ step = [t \in Thread |-> "idle"] /\ call = [t \in Thread |-> Idle]
    /\ lease = [t \in Thread |-> NoLease]
    /\ last = 0 /\ verdict = [i \in Tx |-> "open"]

-----------------------------------------------------------------------------
(* Sessions.                                                                   *)

(* session_with_options; SESSION SET GRAPH and RESET, refused inside a         *)
(* transaction.                                                                *)
SelectGraph(t, g) ==
    /\ step[t] = "idle" /\ g \in state.catalog /\ g # chosen[t]
    /\ slot[t].st \notin {"Active", "Failed"}
    /\ chosen' = [chosen EXCEPT ![t] = g]
    /\ UNCHANGED <<store, writer, guards, slot, step, call, lease, last, verdict>>

(* transition(): Failed and the terminal states drop the draft.  A transaction *)
(* in a terminal state admits what an empty slot does, so the slot is emptied  *)
(* and verdict keeps the state.                                                *)
Settle(t) == slot' = [slot EXCEPT ![t] = NoSlot]

Fail(t) == slot' = [slot EXCEPT ![t].st = "Failed", ![t].mode = "none", ![t].draft = NoDraft]

Report(id, outcome) == verdict' = [verdict EXCEPT ![id] = outcome]

Open(t) == step[t] = "idle" /\ slot[t].st \in {"Active", "Failed"}

(* rollback_transaction_checked.                                               *)
Rollback(t) ==
    /\ Open(t)
    /\ Settle(t) /\ Report(slot[t].id, "RolledBack")
    /\ UNCHANGED <<store, writer, guards, chosen, step, call, lease, last>>

(* execute_close rolls back what is open and drops the slot.                   *)
Close(t) ==
    /\ step[t] = "idle" /\ chosen[t] # 0
    /\ chosen' = [chosen EXCEPT ![t] = 0]
    /\ slot' = [slot EXCEPT ![t] = NoSlot]
    /\ verdict' = IF Open(t) THEN [verdict EXCEPT ![slot[t].id] = "RolledBack"] ELSE verdict
    /\ UNCHANGED <<store, writer, guards, step, call, lease, last>>

(* start_transaction_checked, up to the reservation: the slot admits a start,  *)
(* the session's references are current, an identifier is burned.  A modifying *)
(* statement outside a transaction starts an implicit one.                     *)
Start(t, explicit, access) ==
    /\ step[t] = "idle" /\ slot[t].st = "none"
    /\ chosen[t] \in state.catalog
    /\ last < MaxTx
    /\ last' = last + 1
    /\ step' = [step EXCEPT ![t] = "pin"]
    /\ call' = [call EXCEPT ![t].explicit = explicit, ![t].access = access,
                            ![t].draft.id = last + 1]
    /\ UNCHANGED <<store, writer, guards, chosen, slot, lease, verdict>>

(* DatabaseDraft::new and pin_graph, inside the reservation.                   *)
NewDraft(id, g) ==
    [id |-> id, base |-> state.publication, graph |-> g, catalog |-> state.catalog,
     high |-> state.high, writes |-> 0, add |-> {}, drop |-> {},
     data |-> IF g \in DOMAIN state.graphs THEN state.graphs[g].data ELSE <<>>]

Modified(d) == d.writes > 0 \/ d.add # {} \/ d.drop # {}

Pin(t) ==
    LET id == call[t].draft.id
        opened == [st |-> "Active", id |-> id, explicit |-> call[t].explicit,
                   access |-> call[t].access, mode |-> "none",
                   draft |-> NewDraft(id, chosen[t])]
        found == chosen[t] \in DOMAIN state.graphs
    IN
    /\ step[t] = "pin" /\ writer = Nobody
    /\ slot' = IF found THEN [slot EXCEPT ![t] = opened] ELSE slot
    /\ step' = [step EXCEPT ![t] = IF found /\ ~call[t].explicit THEN "stage" ELSE "idle"]
    /\ call' = [call EXCEPT ![t] = Idle]
    /\ UNCHANGED <<store, writer, guards, chosen, lease, last, verdict>>

-----------------------------------------------------------------------------
(* Commit up to the reservation.  An unmodified draft needs no publication.    *)

BeginCommit(t, draft) ==
    IF Modified(draft)
    THEN /\ slot' = [slot EXCEPT ![t].st = "Committing", ![t].draft = NoDraft]
         /\ call' = [call EXCEPT ![t] = [Idle EXCEPT !.tx = TRUE, !.draft = draft]]
         /\ step' = [step EXCEPT ![t] = "reserve"]
         /\ verdict' = verdict
    ELSE /\ Settle(t) /\ Report(draft.id, "Unmodified")
         /\ call' = [call EXCEPT ![t] = Idle]
         /\ step' = [step EXCEPT ![t] = "idle"]

(* commit_transaction_checked: a failed transaction is rolled back.            *)
Commit(t) ==
    /\ Open(t)
    /\ \/ slot[t].st = "Active" /\ BeginCommit(t, slot[t].draft)
       \/ /\ slot[t].st = "Failed"
          /\ Settle(t)
          /\ UNCHANGED <<step, call, verdict>>
    /\ UNCHANGED <<store, writer, guards, chosen, lease, last>>

-----------------------------------------------------------------------------
(* Statements.  An explicit transaction keeps its draft for later statements,  *)
(* an implicit one goes straight to its commit.                                *)

(* authorize_mutation: read-write, and data or catalog statements, not both.   *)
Authorized(t, mode) ==
    /\ slot[t].st = "Active" /\ step[t] = IF slot[t].explicit THEN "idle" ELSE "stage"
    /\ slot[t].access = "rw" /\ slot[t].mode \in {"none", mode}

Staged(t, mode, draft) ==
    IF slot[t].explicit
    THEN /\ slot' = [slot EXCEPT ![t].draft = draft, ![t].mode = mode]
         /\ step' = [step EXCEPT ![t] = "idle"] /\ call' = [call EXCEPT ![t] = Idle]
         /\ verdict' = verdict
    ELSE BeginCommit(t, draft)

(* Mutant: a statement starts from the live graph instead of the draft.        *)
WriteLive(t) ==
    LET d == slot[t].draft
        live == IF d.graph \in DOMAIN state.graphs THEN state.graphs[d.graph].data ELSE <<>>
    IN
    /\ Authorized(t, "data") /\ d.writes < MaxWrites
    /\ Staged(t, "data", [d EXCEPT !.writes = @ + 1, !.data = Append(live, d.id)])
    /\ UNCHANGED <<store, writer, guards, chosen, lease, last>>

(* execute_prepared_detached_mutation, on the draft and without the lock.      *)
Write(t) ==
    LET d == slot[t].draft IN
    /\ Authorized(t, "data") /\ d.writes < MaxWrites
    /\ Staged(t, "data", [d EXCEPT !.writes = @ + 1, !.data = Append(@, d.id)])
    /\ UNCHANGED <<store, writer, guards, chosen, lease, last>>

(* A catalog command drops graphs, creates the next one, does both (OR         *)
(* REPLACE) or finds nothing to do (IF EXISTS, IF NOT EXISTS).                 *)
Commands(d) ==
    [old : {{}} \cup {{g} : g \in d.catalog}, new : {{}} \cup {{g} : g \in {d.high + 1} \cap Graph}]

(* A catalog statement is authorized and asks for the reservation.             *)
Define(t) ==
    /\ Authorized(t, "catalog")
    /\ call' = [call EXCEPT ![t] = [Idle EXCEPT !.tx = TRUE]]
    /\ step' = [step EXCEPT ![t] = "enter"]
    /\ UNCHANGED <<store, writer, guards, chosen, slot, lease, last, verdict>>

(* Catalog::create_graph and drop_graph ask for the reservation; the draft is  *)
(* made, staged and published inside it.                                       *)
CatalogCall(t) ==
    /\ step[t] = "idle" /\ last < MaxTx
    /\ last' = last + 1
    /\ call' = [call EXCEPT ![t] = [Idle EXCEPT !.draft.id = last + 1]]
    /\ step' = [step EXCEPT ![t] = "enter"]
    /\ UNCHANGED <<store, writer, guards, chosen, slot, lease, verdict>>

(* The draft a command is staged on; a call of the Catalog service makes one   *)
(* when it has the reservation.                                                *)
Drafted(t) ==
    IF call[t].tx THEN slot[t].draft
    ELSE IF step[t] = "enter" THEN NewDraft(call[t].draft.id, 0) ELSE call[t].draft

(* Mutant: a data draft only needs its graph to be registered.                 *)
MatchesBaseRegistered(d) ==
    state.publication = d.base \/ (d.writes > 0 /\ d.graph \in DOMAIN state.graphs)

(* DatabaseDraft::matches_base.                                                *)
MatchesBase(d) == state.publication = d.base

Instance(g) == [graph |-> g, inst |-> state.graphs[g].inst]

(* The instances of the base, not of the draft, that the command drops: those  *)
(* whose lifecycle lock check_droppable takes.                                 *)
Dropping(t) == {Instance(g) : g \in call[t].command.old \ Drafted(t).add}

LeasedBy(i) == {u \in Thread : step[u] = "read" /\ lease[u] = i}

(* An error ends the statement or the call: fail_statement discards the draft, *)
(* and the reservation, where it is held, is released.                         *)
Abandon(t) ==
    /\ IF ~call[t].tx THEN slot' = slot
       ELSE IF slot[t].explicit THEN Fail(t) ELSE Settle(t)
    /\ Report(IF call[t].tx THEN slot[t].id ELSE call[t].draft.id, "RolledBack")
    /\ call' = [call EXCEPT ![t] = Idle] /\ step' = [step EXCEPT ![t] = "idle"]
    /\ writer' = IF writer = t THEN Nobody ELSE writer
    /\ UNCHANGED <<store, guards, chosen, lease, last>>

(* The reservation is granted and the command's path resolved.  A drop of a    *)
(* graph of the base goes on to wait for its lifecycle lock, unless another    *)
(* publication came first.                                                     *)
Enter(t, command) ==
    LET d == Drafted(t)
        held == command.old \ d.add # {}
    IN
    /\ step[t] = "enter" /\ writer = Nobody
    /\ command \in Commands(d)
    /\ \/ held /\ ~MatchesBase(d) /\ Abandon(t)
       \/ /\ held => MatchesBase(d)
          /\ writer' = t
          /\ call' = [call EXCEPT ![t].command = command,
                                  ![t].draft = IF call[t].tx THEN @ ELSE d]
          /\ step' = [step EXCEPT ![t] = IF held THEN "drop" ELSE "checked"]
          /\ UNCHANGED <<store, guards, chosen, slot, lease, last, verdict>>

(* check_droppable under the lifecycle lock, which no request's lease holds    *)
(* any more.  The lock is released when the graph is found empty or not.       *)
CheckDroppable(t) ==
    LET dropping == Dropping(t) IN
    /\ step[t] = "drop"
    /\ \A i \in dropping : LeasedBy(i) = {}
    /\ \/ /\ \A i \in dropping : state.graphs[i.graph].data = <<>>
          /\ step' = [step EXCEPT ![t] = "checked"]
          /\ UNCHANGED <<store, writer, guards, chosen, slot, call, lease, last, verdict>>
       \/ /\ \E i \in dropping : state.graphs[i.graph].data # <<>>
          /\ Abandon(t)

(* Staging fails inside the reservation, before check_droppable (no such       *)
(* object, one of another kind) or after it; never while it waits for a lock.  *)
StagingFails(t) ==
    /\ (step[t] = "enter" /\ writer = Nobody) \/ step[t] = "checked"
    /\ Abandon(t)

(* Mutant: a dropped graph gives its identity back.                            *)
StageCatalogReuse(d, c) ==
    [d EXCEPT !.catalog = (@ \ c.old) \cup c.new, !.add = (@ \ c.old) \cup c.new,
              !.drop = @ \cup c.old,
              !.high = IF c.new # {} THEN @ + 1 ELSE IF @ \in c.old THEN @ - 1 ELSE @]

(* CatalogStager: CREATE takes the next identity, OR REPLACE also drops.       *)
StageCatalog(d, c) ==
    [d EXCEPT !.catalog = (@ \ c.old) \cup c.new, !.add = (@ \ c.old) \cup c.new,
              !.drop = @ \cup c.old, !.high = IF c.new = {} THEN @ ELSE @ + 1]

(* The command is staged.  A statement gives the reservation back.  A call of  *)
(* the Catalog service goes on to publish, unless the log is fenced or the     *)
(* command found nothing to do.                                                *)
StageCommand(t) ==
    LET d == StageCatalog(Drafted(t), call[t].command) IN
    /\ step[t] = "checked"
    /\ \/ /\ call[t].tx
          /\ Staged(t, "catalog", d)
          /\ writer' = Nobody
          /\ UNCHANGED <<store, guards, chosen, lease, last>>
       \/ /\ ~call[t].tx /\ wal.fenced
          /\ Abandon(t)
       \/ /\ ~call[t].tx /\ ~wal.fenced /\ Modified(d)
          /\ call' = [call EXCEPT ![t].command = NoCommand, ![t].draft = d]
          /\ step' = [step EXCEPT ![t] = "guard"]
          /\ UNCHANGED <<store, writer, guards, chosen, slot, lease, last, verdict>>
       \/ /\ ~call[t].tx /\ ~wal.fenced /\ ~Modified(d)
          /\ Report(d.id, "Unmodified")
          /\ call' = [call EXCEPT ![t] = Idle] /\ step' = [step EXCEPT ![t] = "idle"]
          /\ writer' = Nobody
          /\ UNCHANGED <<store, guards, chosen, slot, lease, last>>

(* A data statement fails, or a statement is not authorized: a write in a      *)
(* read-only transaction, a mix of data and catalog statements.                *)
StatementFails(t) ==
    /\ slot[t].st = "Active" /\ step[t] = IF slot[t].explicit THEN "idle" ELSE "stage"
    /\ IF slot[t].explicit THEN Fail(t) ELSE Settle(t)
    /\ Report(slot[t].id, "RolledBack")
    /\ step' = [step EXCEPT ![t] = "idle"]
    /\ UNCHANGED <<store, writer, guards, chosen, call, lease, last>>

-----------------------------------------------------------------------------
(* Publication.                                                                *)

(* Mutant: the lifecycle guards outlive the publication.                       *)
FinishGuarded(t, outcome) ==
    /\ IF call[t].tx THEN Settle(t) ELSE slot' = slot
    /\ Report(call[t].draft.id, outcome)
    /\ call' = [call EXCEPT ![t] = Idle] /\ step' = [step EXCEPT ![t] = "idle"]
    /\ writer' = Nobody
    /\ UNCHANGED <<guards, chosen, lease, last>>

(* The end of every publication attempt: the reservation is released.          *)
Finish(t, outcome) ==
    /\ IF call[t].tx THEN Settle(t) ELSE slot' = slot
    /\ Report(call[t].draft.id, outcome)
    /\ call' = [call EXCEPT ![t] = Idle] /\ step' = [step EXCEPT ![t] = "idle"]
    /\ writer' = Nobody /\ guards' = {}
    /\ UNCHANGED <<chosen, lease, last>>

(* The reservation is taken and the base compared.                             *)
Reserve(t) ==
    /\ step[t] = "reserve" /\ writer = Nobody
    /\ MatchesBase(call[t].draft) /\ ~wal.fenced
    /\ writer' = t
    /\ step' = [step EXCEPT ![t] = "guard"]
    /\ UNCHANGED <<store, guards, chosen, slot, call, lease, last, verdict>>

(* Another publication came first, or the log is fenced.                       *)
Refuse(t) ==
    /\ step[t] = "reserve" /\ writer = Nobody
    /\ ~MatchesBase(call[t].draft) \/ wal.fenced
    /\ Finish(t, "RolledBack")
    /\ UNCHANGED store

(* The instances a draft replaces or removes.                                  *)
Touched(d) ==
    {Instance(g) : g \in (d.drop \cup (IF d.writes > 0 THEN {d.graph} ELSE {}))
                          \cap DOMAIN state.graphs}

(* The lifecycle locks a thread in the reservation still has to take, in graph *)
(* order.                                                                      *)
NextGuard(t) ==
    LET missing == Touched(call[t].draft) \ guards IN
    {i \in missing : \A o \in missing : i.graph <= o.graph}

Guard(t) ==
    /\ step[t] = "guard"
    /\ \E i \in NextGuard(t) : LeasedBy(i) = {} /\ guards' = guards \cup {i}
    /\ UNCHANGED <<store, writer, session, last, verdict>>

Guarded(t) == step[t] = "guard" /\ Touched(call[t].draft) \subseteq guards

(* A check under the guards, the encoding or its trial replay fails; nothing   *)
(* was appended.                                                               *)
Reject(t) ==
    /\ Guarded(t)
    /\ Finish(t, "RolledBack")
    /\ UNCHANGED store

(* abandon_on_unwind: a panic where Reject fails, or, without a log to catch   *)
(* it, after the outer store.                                                  *)
Unwind(t) ==
    /\ call[t].tx
    /\ Guarded(t) \/ (~Durable /\ step[t] = "acknowledge")
    /\ IF slot[t].explicit THEN Fail(t) ELSE Settle(t)
    /\ Report(slot[t].id, "RolledBack")
    /\ call' = [call EXCEPT ![t] = Idle] /\ step' = [step EXCEPT ![t] = "idle"]
    /\ writer' = Nobody /\ guards' = {}
    /\ UNCHANGED <<store, chosen, lease, last>>

(* LogicalWal::commit up to the sync of the frame.                             *)
LogFrame(t) ==
    /\ Guarded(t) /\ Durable
    /\ wal' = [wal EXCEPT !.frames = Append(@, Frame(call[t].draft))]
    /\ step' = [step EXCEPT ![t] = "publish"]
    /\ UNCHANGED <<state, image, published, writer, guards, chosen, slot, call, lease, last, verdict>>

(* Durability::Canceled after the append: rolled back, fenced.                 *)
LogCanceled(t) ==
    /\ Guarded(t) /\ Durable
    /\ wal' = [wal EXCEPT !.fenced = TRUE]
    /\ Finish(t, "RolledBack")
    /\ UNCHANGED <<state, image, published>>

(* Mutant: every durable failure is reported as a rollback.                    *)
LogUncertainRolledBack(t) ==
    /\ Guarded(t) /\ Durable
    /\ wal' = [wal EXCEPT !.fenced = TRUE, !.doubt = <<Frame(call[t].draft)>>]
    /\ Finish(t, "RolledBack")
    /\ UNCHANGED <<state, image, published>>

(* Durability::Uncertain: append or sync failed, and so did the rollback.      *)
LogUncertain(t) ==
    /\ Guarded(t) /\ Durable
    /\ wal' = [wal EXCEPT !.fenced = TRUE, !.doubt = <<Frame(call[t].draft)>>]
    /\ Finish(t, "Indeterminate")
    /\ UNCHANGED <<state, image, published>>

(* The successor state: catalog and marks of the draft, the instances of the   *)
(* current state except for those removed, replaced or added.                  *)
Successor(d) ==
    LET n == state.publication + 1
        fresh(data) == [inst |-> n, data |-> data]
    IN  [publication |-> n, catalog |-> d.catalog, high |-> d.high,
         graphs |-> [g \in (DOMAIN state.graphs \ d.drop) \cup d.add |->
                       IF g \in d.add THEN fresh(<<>>)
                       ELSE IF g = d.graph /\ d.writes > 0 THEN fresh(d.data)
                       ELSE state.graphs[g]]]

(* Mutant: the outer store does not wait for the log.                          *)
PublishUnlogged(t) ==
    /\ Guarded(t) \/ step[t] = "publish"
    /\ state' = Successor(call[t].draft)
    /\ published' = Append(published, Frame(call[t].draft))
    /\ step' = [step EXCEPT ![t] = "acknowledge"]
    /\ UNCHANGED <<wal, image, writer, guards, chosen, slot, call, lease, last, verdict>>

(* The sole outer store.  A memory-only database comes here from the guards.   *)
Publish(t) ==
    /\ IF Durable THEN step[t] = "publish" ELSE Guarded(t)
    /\ state' = Successor(call[t].draft)
    /\ published' = Append(published, Frame(call[t].draft))
    /\ step' = [step EXCEPT ![t] = "acknowledge"]
    /\ UNCHANGED <<wal, image, writer, guards, chosen, slot, call, lease, last, verdict>>

(* Durability::Committed, before or after the store: synchronized, fenced,     *)
(* not acknowledged.                                                           *)
Unacknowledged(t) ==
    /\ Durable /\ step[t] \in {"publish", "acknowledge"}
    /\ wal' = [wal EXCEPT !.fenced = TRUE]
    /\ Finish(t, "Indeterminate")
    /\ UNCHANGED <<state, image, published>>

Acknowledge(t) ==
    /\ step[t] = "acknowledge"
    /\ Finish(t, "Committed")
    /\ UNCHANGED store

-----------------------------------------------------------------------------
(* Live reads: with_graph_request.                                             *)

Observe(t) ==
    /\ step[t] = "idle" /\ slot[t].st = "none"
    /\ chosen[t] \in DOMAIN state.graphs
    /\ lease' = [lease EXCEPT ![t] = [graph |-> chosen[t], inst |-> state.graphs[chosen[t]].inst]]
    /\ step' = [step EXCEPT ![t] = "lease"]
    /\ UNCHANGED <<store, writer, guards, chosen, slot, call, last, verdict>>

Registered(i) == i.graph \in DOMAIN state.graphs /\ state.graphs[i.graph].inst = i.inst

(* Mutant: a waiting writer lets new readers pass.                             *)
WantedHeld(i) == i \in guards

(* A lifecycle lock held or waited for by a writer admits no new reader        *)
(* (parking_lot's RwLock is task-fair).                                        *)
Wanted(i) ==
    \/ i \in guards
    \/ \E u \in Thread : step[u] = "drop" /\ i \in Dropping(u)
    \/ \E u \in Thread : step[u] = "guard" /\ i \in NextGuard(u)

(* Mutant: the registration is not looked at again under the lease.            *)
TakeLeaseUnchecked(t) ==
    /\ step[t] = "lease" /\ ~Wanted(lease[t])
    /\ step' = [step EXCEPT ![t] = "read"]
    /\ lease' = lease
    /\ UNCHANGED <<store, writer, guards, chosen, slot, call, last, verdict>>

TakeLease(t) ==
    /\ step[t] = "lease" /\ ~Wanted(lease[t])
    /\ \/ Registered(lease[t]) /\ step' = [step EXCEPT ![t] = "read"] /\ lease' = lease
       \/ /\ ~Registered(lease[t])
          /\ step' = [step EXCEPT ![t] = "idle"] /\ lease' = [lease EXCEPT ![t] = NoLease]
    /\ UNCHANGED <<store, writer, guards, chosen, slot, call, last, verdict>>

(* Mutant: a request enters the reservation under its lease.                   *)
EndReadReserved(t) ==
    /\ step[t] = "read" /\ writer = Nobody
    /\ step' = [step EXCEPT ![t] = "idle"] /\ lease' = [lease EXCEPT ![t] = NoLease]
    /\ UNCHANGED <<store, writer, guards, chosen, slot, call, last, verdict>>

EndRead(t) ==
    /\ step[t] = "read"
    /\ step' = [step EXCEPT ![t] = "idle"] /\ lease' = [lease EXCEPT ![t] = NoLease]
    /\ UNCHANGED <<store, writer, guards, chosen, slot, call, last, verdict>>

-----------------------------------------------------------------------------
(* Maintenance and restart.                                                    *)

(* Mutant: the identities of the live graphs stand for the high-water mark.    *)
CheckpointLiveMark ==
    /\ Durable /\ writer = Nobody /\ ~wal.fenced
    /\ state.publication = Len(wal.frames)
    /\ image' = [sequence |-> state.publication, data |-> Data(state.graphs),
                 high |-> CHOOSE n \in 0..MaxGraph :
                            /\ n \in state.catalog \cup {0}
                            /\ \A g \in state.catalog : g <= n]
    /\ UNCHANGED <<state, wal, published, writer, guards, session, last, verdict>>

(* DatabaseInner::checkpoint, inside the reservation.                          *)
Checkpoint ==
    /\ Durable /\ writer = Nobody /\ ~wal.fenced
    /\ state.publication = Len(wal.frames)
    /\ image' = [sequence |-> state.publication, high |-> state.high,
                 data |-> Data(state.graphs)]
    /\ UNCHANGED <<state, wal, published, writer, guards, session, last, verdict>>

CheckpointFails ==
    /\ Durable /\ writer = Nobody /\ ~wal.fenced
    /\ wal' = [wal EXCEPT !.fenced = TRUE]
    /\ UNCHANGED <<state, image, published, writer, guards, session, last, verdict>>

(* What may follow the synchronized frames when the process ends.              *)
Tails ==
    {<<>>, wal.doubt} \cup {<<Frame(call[t].draft)>> : t \in {u \in Thread : Guarded(u)}}

(* The process ends and Database::open recovers: every session is gone, and a  *)
(* frame in doubt is found or not.                                             *)
Restart ==
    /\ Durable
    /\ \E tail \in Tails :
         LET fs == wal.frames \o tail
             db == Recovered(fs)
         IN  /\ wal' = [frames |-> fs, doubt |-> <<>>, fenced |-> FALSE]
             /\ published' = fs
             /\ state' = [publication |-> Len(fs), catalog |-> DOMAIN db.data, high |-> db.high,
                          graphs |-> [g \in DOMAIN db.data |->
                                        [inst |-> Len(fs), data |-> db.data[g]]]]
    /\ writer' = Nobody /\ guards' = {}
    /\ chosen' = [t \in Thread |-> 0] /\ slot' = [t \in Thread |-> NoSlot]
    /\ step' = [t \in Thread |-> "idle"] /\ call' = [t \in Thread |-> Idle]
    /\ lease' = [t \in Thread |-> NoLease]
    /\ UNCHANGED <<image, last, verdict>>

Request(t) ==
    \/ \E g \in Graph : SelectGraph(t, g)
    \/ "explicit" \in Workload[t] /\ Start(t, TRUE, "rw")
    \/ "read_only" \in Workload[t] /\ Start(t, TRUE, "r")
    \/ "implicit" \in Workload[t] /\ Start(t, FALSE, "rw")
    \/ Commit(t) \/ Rollback(t) \/ Close(t)
    \/ "catalog" \in Workload[t] /\ CatalogCall(t)
    \/ "read" \in Workload[t] /\ Observe(t)

EnterAny(t) == \E c \in Commands(Drafted(t)) : Enter(t, c)

Stage(t) ==
    \/ Write(t) \/ Define(t) \/ EnterAny(t) \/ CheckDroppable(t)
    \/ StageCommand(t) \/ StagingFails(t) \/ StatementFails(t)

Publication(t) ==
    \/ Reserve(t) \/ Refuse(t) \/ Guard(t) \/ Reject(t) \/ Unwind(t)
    \/ LogFrame(t) \/ LogCanceled(t) \/ LogUncertain(t)
    \/ Publish(t) \/ Unacknowledged(t) \/ Acknowledge(t)

Read(t) == TakeLease(t) \/ EndRead(t)

Next ==
    \/ \E t \in Thread : Request(t) \/ Pin(t) \/ Stage(t) \/ Publication(t) \/ Read(t)
    \/ Checkpoint \/ CheckpointFails \/ Restart

Spec == Init /\ [][Next]_vars

Running(t) == step[t] # "idle"

(* The steps that a lock held by another thread may disable again and again:   *)
(* entry into the reservation and a request's lease.  parking_lot hands both   *)
(* locks on to those who wait, so they are strongly fair.                      *)
Granted(t) == Pin(t) \/ EnterAny(t) \/ Reserve(t) \/ Refuse(t) \/ TakeLease(t)

(* The other steps of a call that succeeds, the waits of a writer for a        *)
(* lifecycle lock included, are weakly fair: a thread keeps running.  No       *)
(* failure, and nothing a caller does between two calls, has to happen.        *)
Onward(t) ==
    \/ step[t] = "stage" /\ (Write(t) \/ Define(t))
    \/ CheckDroppable(t) \/ StageCommand(t)
    \/ Guard(t) \/ LogFrame(t) \/ Publish(t) \/ Acknowledge(t)
    \/ EndRead(t)

Fairness == \A t \in Thread : SF_vars(Granted(t)) /\ WF_vars(Onward(t))

FairSpec == Spec /\ Fairness

-----------------------------------------------------------------------------
(* Properties.                                                                 *)

Ids(fs) == {fs[i].id : i \in DOMAIN fs}

DraftType ==
    [id : 0..MaxTx, base : Nat, graph : 0..MaxGraph, catalog : SUBSET Graph,
     high : 0..MaxGraph, writes : 0..MaxWrites, add : SUBSET Graph,
     drop : SUBSET Graph, data : Seq(Tx)]

(* Every variable has the type its declaration in the code gives it, the       *)
(* reservation has one owner, and guards and calls exist only within steps.    *)
TypeOK ==
    /\ state.publication \in Nat /\ state.catalog \subseteq Graph /\ state.high \in 0..MaxGraph
    /\ writer \in Thread \cup {Nobody}
    /\ writer = Nobody <=>
         \A t \in Thread : step[t] \notin {"drop", "checked", "guard", "publish", "acknowledge"}
    /\ guards # {} => writer # Nobody
    /\ verdict \in [Tx -> Outcome \cup {"open"}]
    /\ \A t \in Thread :
         /\ chosen[t] \in 0..MaxGraph
         /\ slot[t].st \in {"none", "Active", "Failed", "Committing"}
         /\ slot[t].draft \in DraftType /\ call[t].draft \in DraftType
         /\ slot[t].st = "Active" <=> slot[t].draft # NoDraft
         /\ slot[t].st = "Committing" => call[t].tx

(* The published state is what its transactions yield one after the other,     *)
(* each applied to the result of the one before: a commit whose base is no     *)
(* longer the current publication changes nothing (matches_base), and the      *)
(* catalog and the registered graph instances agree.                           *)
StateIsSerial ==
    /\ Database = Replay(EmptyDatabase, published)
    /\ state.publication = Len(published)
    /\ state.catalog = DOMAIN state.graphs

(* An open transaction sees the publication it was pinned at and its own       *)
(* statements, whatever other sessions publish meanwhile.                      *)
TransactionIsolated ==
    \A t \in Thread : slot[t].st = "Active" =>
      LET d == slot[t].draft
          pinned == Replay(EmptyDatabase, SubSeq(published, 1, d.base))
      IN  d.data = pinned.data[d.graph] \o Writes(Frame(d))

(* What the caller of a database with a log is told is what happened:          *)
(* Committed is published exactly once and recoverable; RolledBack is nowhere, *)
(* not even in doubt.  Without a log an unwind after the outer store is        *)
(* recorded as a failed transaction although it is published                   *)
(* (abandon_on_unwind), so nothing is claimed there.                           *)
OutcomesTruthful ==
    Durable =>
      \A i \in Tx :
        /\ verdict[i] = "Committed" =>
             /\ \E n \in DOMAIN published : published[n].id = i
             /\ \A n, m \in DOMAIN published :
                  published[n].id = i /\ published[m].id = i => n = m
             /\ i \in Ids(wal.frames)
        /\ verdict[i] \in {"RolledBack", "Unmodified"} =>
             i \notin Ids(published) \cup Ids(wal.frames \o wal.doubt)

(* Log before memory: nothing is visible that is not synchronized, and an      *)
(* unfenced log outside a publication holds exactly what is visible, so that   *)
(* checkpoint() finds publication and sequence equal.                          *)
LogAhead ==
    Durable =>
      /\ IsPrefix(published, wal.frames)
      /\ ~wal.fenced /\ (\A t \in Thread : step[t] # "publish") => published = wal.frames

(* The selected checkpoint and the frames after it recover the database that   *)
(* all frames yield, with the high-water mark of its identities.               *)
RecoveryExact == Recovered(wal.frames) = Replay(EmptyDatabase, wal.frames)

(* A graph identity is given out once, across drops, replacements, checkpoints *)
(* and restarts (next_id of the high-water mark).                              *)
IdentityNeverReused ==
    \A i, j \in DOMAIN published : i # j => published[i].add \cap published[j].add = {}

(* A live read works on the registered instance of its graph for as long as it *)
(* holds the lease (with_graph_request against replacement and drop).          *)
LeasedGraphRegistered ==
    \A t \in Thread : step[t] = "read" => Registered(lease[t])

(* Every call returns, whether it waits for the reservation, for the lifecycle *)
(* locks of the graphs it drops or replaces, or for a lease: a drop that holds *)
(* the reservation gets its lock although requests keep taking leases, and no  *)
(* thread waits for one that waits for it.                                     *)
CallsReturn == \A t \in Thread : Running(t) ~> ~Running(t)
=============================================================================
