--------------------------- MODULE PolymarketSync ---------------------------
(***************************************************************************)
(* The synchronisation with Polymarket: tasks that walk through the        *)
(* catalog of events page by page from a remembered cursor, and tasks that *)
(* take a snapshot of chosen events (PolymarketSyncService).               *)
(*                                                                         *)
(* Upstream numbers the events in the order of its catalog, appends new    *)
(* ones and changes old ones at any time.  What a task fetches is stored   *)
(* in a later transaction, so that other tasks, of the same catalog too,   *)
(* get between the two.  A transaction that stores fetched events is one   *)
(* step, which knows that its columns may have been read before; if        *)
(* another has inserted one of its rows meanwhile, it fails.               *)
(* Nothing reads the rows of polymarket_sync_run; they are left out, but    *)
(* for the moment in which a run says that it has succeeded.               *)
(***************************************************************************)
EXTENDS Naturals, FiniteSets

CONSTANTS
    Threads,          \* the worker threads, each of which runs one task at a time
    Steady,           \* one of them
    MaxEvents,        \* bound on the events of the catalog
    MaxChanges,       \* bound on the changes that upstream makes to an event
    Changing,         \* bound: the events that it changes
    MaxTime,          \* bound on the snapshot times (the buckets)
    PageLimit,        \* polymarket_catalog_limit
    SnapshotLimit     \* polymarket_snapshot_limit

ASSUME PolymarketSyncAssumption ==
    /\ {MaxEvents, PageLimit, SnapshotLimit, MaxTime} \subseteq Nat \ {0}
    /\ MaxChanges \in Nat
    /\ Steady \in Threads

VARIABLES
    listed,         \* the events 1..listed are in the catalog
    payload,        \* the version of each event that upstream serves
    now,            \* the current bucket
    stored,         \* polymarket_event: the versions its columns are of, none without a row
    raw,            \* polymarket_event_raw: the versions kept of each event
    snapshots,      \* polymarket_event_snapshot: <<event, snapshot_time>>
    active_cursor,  \* of polymarket_sync_state, 0 for none
    task            \* what each thread runs

upstream == <<listed, payload, now>>
database == <<stored, raw, snapshots, active_cursor>>
vars == <<listed, payload, now, stored, raw, snapshots, active_cursor, task>>

-----------------------------------------------------------------------------
(* The state.                                                              *)

Events == 1..MaxEvents
Versions == 1..(MaxChanges + 1)

\* page: what was fetched, as <<event, version>>.  A catalog run has a cursor and
\* the next_cursor of its page; a snapshot run has its bucket, its events and
\* those that are left to do.
Execution == [at     : {"idle", "fetch_page", "store_page", "finish_catalog",
                        "fetch_event", "store_event", "finish_snapshot",
                        "failed"},
              page   : SUBSET (Events \X Versions),
              cursor : 0..MaxEvents,
              next   : 0..MaxEvents,
              time   : 0..MaxTime,
              events : SUBSET Events,
              todo   : SUBSET Events]

\* A thread without a run.
Idle == [at |-> "idle", page |-> {}, cursor |-> 0, next |-> 0,
         time |-> 0, events |-> {}, todo |-> {}]

Init ==
    /\ listed = 0
    /\ payload = [e \in Events |-> 1]
    /\ now = 1
    /\ stored = [e \in Events |-> {}]
    /\ raw = [e \in Events |-> {}]
    /\ snapshots = {}
    /\ active_cursor = 0
    /\ task = [t \in Threads |-> Idle]

At(t, l) == task[t].at = l

-----------------------------------------------------------------------------
(* Upstream and time.                                                      *)

Appear ==
    /\ listed < MaxEvents
    /\ listed' = listed + 1
    /\ UNCHANGED <<payload, now, database, task>>

Change(e) ==
    /\ e \in Changing
    /\ e <= listed
    /\ payload[e] <= MaxChanges
    /\ payload' = [payload EXCEPT ![e] = @ + 1]
    /\ UNCHANGED <<listed, now, database, task>>

Tick ==
    /\ now < MaxTime
    /\ now' = now + 1
    /\ UNCHANGED <<listed, payload, database, task>>

\* The events after a cursor, and the next cursor.  At the end of the catalog
\* there may be none.
PageEvents(c) == {e \in 1..listed : c < e /\ e <= c + PageLimit}
PageEnd(c) == IF c + PageLimit < listed THEN c + PageLimit ELSE listed
NextCursors(c) == IF PageEnd(c) < listed THEN {PageEnd(c)} ELSE {0, PageEnd(c)}

-----------------------------------------------------------------------------
(* What both kinds store of a page.                                        *)

Fetched(events) == {<<e, payload[e]>> : e \in events}

\* The versions of an event on a page: one or none.
Of(page, e) == {v \in Versions : <<e, v>> \in page}

\* upsert_event: every column takes the fetched value, but one that had this value
\* when the row was read is not written, and keeps what others have made of it.
\* A new row is all of one version.
Upserts(page) ==
    {rows \in [Events -> SUBSET Versions] :
        \A e \in Events :
            IF Of(page, e) = {} THEN rows[e] = stored[e]
            ELSE rows[e] # {} /\ rows[e] \subseteq stored[e] \cup Of(page, e)}

\* Mutant: the payload is kept if there is none of that event.
RawFirst(page) ==
    [e \in Events |-> IF raw[e] = {} THEN Of(page, e) ELSE raw[e]]

\* store_raw_event: the payload is kept if it is not there.
Raw(page) == [e \in Events |-> raw[e] \cup Of(page, e)]

-----------------------------------------------------------------------------
(* run_catalog_sync.                                                       *)

\* The run starts at the remembered cursor, or at none if the caller says so.
StartCatalog(t, c) ==
    /\ At(t, "idle")
    /\ c \in {0, active_cursor}
    /\ task' = [task EXCEPT ![t].at = "fetch_page", ![t].cursor = c]
    /\ UNCHANGED <<upstream, database>>

FetchPage(t, n) ==
    /\ At(t, "fetch_page")
    /\ n \in NextCursors(task[t].cursor)
    /\ task' = [task EXCEPT ![t].at = "store_page",
                            ![t].page = Fetched(PageEvents(task[t].cursor)),
                            ![t].next = n]
    /\ UNCHANGED <<upstream, database>>

\* Mutant: one page per run.
LastPageAlways(t) == TRUE

\* The loop ends without a next cursor, with the one it had, or with an empty
\* page; the cursor moves if there is a next one.
LastPage(t) == task[t].next \in {0, task[t].cursor} \/ task[t].page = {}

StorePage(t) ==
    /\ At(t, "store_page")
    /\ stored' \in Upserts(task[t].page)
    /\ raw' = Raw(task[t].page)
    /\ task' = [task EXCEPT
         ![t].at = IF LastPage(t) THEN "finish_catalog" ELSE "fetch_page",
         ![t].cursor = IF task[t].next = 0 THEN @ ELSE task[t].next,
         ![t].page = {},
         ![t].next = 0]
    /\ UNCHANGED <<upstream, snapshots, active_cursor>>

\* Mutant: a page too far.
CursorBeyond(t) == task[t].cursor + PageLimit

\* update_sync_state, whatever another run has left there.
FinalCursor(t) == task[t].cursor

\* The run is over, also if the report of its progress still raises.
FinishCatalog(t) ==
    /\ At(t, "finish_catalog")
    /\ active_cursor' = FinalCursor(t)
    /\ task' = [task EXCEPT ![t] = Idle]
    /\ UNCHANGED <<upstream, stored, raw, snapshots>>

-----------------------------------------------------------------------------
(* run_snapshot_sync.                                                      *)

\* The events are named by the caller or chosen among the stored ones.  Without
\* any the run succeeds at once, and changes nothing that is modelled.
StartSnapshot(t, events) ==
    /\ At(t, "idle")
    /\ events # {}
    /\ events \subseteq 1..listed
    /\ Cardinality(events) <= SnapshotLimit
    /\ task' = [task EXCEPT ![t].at = "fetch_event", ![t].time = now,
                            ![t].events = events, ![t].todo = events]
    /\ UNCHANGED <<upstream, database>>

FetchEvent(t, e) ==
    /\ At(t, "fetch_event")
    /\ e \in task[t].todo
    /\ task' = [task EXCEPT ![t].at = "store_event",
                            ![t].page = Fetched({e}), ![t].todo = @ \ {e}]
    /\ UNCHANGED <<upstream, database>>

\* Mutant: the bucket is computed when the event is stored.
BucketAtStore(t) == now

\* _bucket_snapshot_time, once per run.
Bucket(t) == task[t].time

StoreEvent(t) ==
    /\ At(t, "store_event")
    /\ stored' \in Upserts(task[t].page)
    /\ raw' = Raw(task[t].page)
    /\ snapshots' = snapshots \cup {<<p[1], Bucket(t)>> : p \in task[t].page}
    /\ task' = [task EXCEPT ![t].at = IF task[t].todo = {} THEN "finish_snapshot" ELSE "fetch_event",
                            ![t].page = {}]
    /\ UNCHANGED <<upstream, active_cursor>>

\* The run is marked SUCCEEDED.
FinishSnapshot(t) ==
    /\ At(t, "finish_snapshot")
    /\ task' = [task EXCEPT ![t] = Idle]
    /\ UNCHANGED <<upstream, database>>

-----------------------------------------------------------------------------
(* Failures.                                                               *)

\* Mutant: the cursor of the page at hand.
CursorOfPage(t) == IF At(t, "store_page") /\ task[t].next # 0 THEN task[t].next ELSE active_cursor

\* The except block leaves the sync state alone.
CursorAfterFailure(t) == active_cursor

\* Something raises, and the run is marked FAILED; or the worker dies, and the
\* run stays RUNNING.
Fails(t) ==
    /\ task[t].at \notin {"idle", "failed"}
    /\ task' = [task EXCEPT ![t] = [Idle EXCEPT !.at = "failed"]]
    /\ active_cursor' = CursorAfterFailure(t)
    /\ UNCHANGED <<upstream, stored, raw, snapshots>>

\* The task has been handed back, or its lease has run out: the thread is free.
Recovers(t) ==
    /\ At(t, "failed")
    /\ task' = [task EXCEPT ![t] = Idle]
    /\ UNCHANGED <<upstream, database>>

-----------------------------------------------------------------------------

StartsCatalog(t) == \E c \in 0..MaxEvents : StartCatalog(t, c)

\* What a thread does once it has started.
Step(t) ==
    \/ \E n \in 0..MaxEvents : FetchPage(t, n)
    \/ StorePage(t)
    \/ FinishCatalog(t)
    \/ \E e \in Events : FetchEvent(t, e)
    \/ StoreEvent(t)
    \/ FinishSnapshot(t)
    \/ Recovers(t)

Next ==
    \/ Appear
    \/ \E e \in Events : Change(e)
    \/ Tick
    \/ \E t \in Threads :
         \/ StartsCatalog(t)
         \/ \E events \in SUBSET Events : StartSnapshot(t, events)
         \/ Step(t)
         \/ Fails(t)

Spec == Init /\ [][Next]_vars

\* A schedule makes catalog tasks for ever.  One of the threads gets to start one
\* again and again, carries on what it has started, and some day fails no more;
\* the others may do as they like.
FairSpec ==
    /\ Spec
    /\ SF_vars(StartsCatalog(Steady))
    /\ WF_vars(Step(Steady))
    /\ <>[]~At(Steady, "failed")

-----------------------------------------------------------------------------
(* Properties.                                                             *)

TypeOK ==
    /\ listed \in 0..MaxEvents
    /\ payload \in [Events -> Versions]
    /\ now \in 1..MaxTime
    /\ stored \in [Events -> SUBSET Versions]
    /\ raw \in [Events -> SUBSET Versions]
    /\ snapshots \subseteq Events \X (1..MaxTime)
    /\ active_cursor \in 0..MaxEvents
    /\ task \in [Threads -> Execution]

\* The remembered cursor never passes an event that is not stored, whatever
\* fails, crashes or runs side by side (run_catalog_sync).
CursorCovers == \A e \in 1..active_cursor : stored[e] # {}

\* The payloads of which an event row was made are kept, whichever tasks have
\* written it (upsert_event and store_raw_event in one transaction).
RowsHaveRaw == \A e \in Events : stored[e] \subseteq raw[e]

\* No event is lost on the way of the cursor: up to it there are rows, and every
\* row has the payloads it was made of.
CatalogStored == CursorCovers /\ RowsHaveRaw

\* A snapshot run that is about to be marked SUCCEEDED has a snapshot of every
\* one of its events, all at the same time (run_snapshot_sync).
SnapshotsComplete ==
    \A t \in Threads : At(t, "finish_snapshot") =>
        task[t].events \X {task[t].time} \subseteq snapshots

\* Again and again every event of the catalog is stored, though tasks fail, crash,
\* get in each other's way and set the cursor back (run_catalog_sync).
CatalogCatchesUp == []<>(\A e \in 1..listed : stored[e] # {})

=============================================================================
