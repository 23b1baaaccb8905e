----------------------- MODULE PolymarketSync_proofs -----------------------
(* The catalog that the sync tasks leave behind, for any number of threads, *)
(* events, changes and page sizes.                                          *)
EXTENDS PolymarketSync, TLAPS

\* A thread that walks through the catalog has stored what its cursor has
\* passed, and holds the events between its cursor and the next one.
Walked(t) ==
    /\ \A e \in 1..task[t].cursor : stored[e] # {}
    /\ At(t, "store_page") =>
          \A e \in 1..task[t].next : e <= task[t].cursor \/ Of(task[t].page, e) # {}

\* A snapshot run has a snapshot of every event that is not left to do, but the
\* one at hand.
Pictured(t) ==
    /\ At(t, "fetch_event") \/ At(t, "store_event") => task[t].time # 0
    /\ At(t, "fetch_event") =>
          (task[t].events \ task[t].todo) \X {task[t].time} \subseteq snapshots
    /\ At(t, "store_event") =>
          \A e \in task[t].events \ task[t].todo :
              <<e, task[t].time>> \in snapshots \/ Of(task[t].page, e) # {}
    /\ At(t, "finish_snapshot") =>
          task[t].events \X {task[t].time} \subseteq snapshots

IInv ==
    /\ TypeOK
    /\ CatalogStored
    /\ \A t \in Threads : Walked(t) /\ Pictured(t)

-----------------------------------------------------------------------------
(* Lemmas.                                                                 *)

\* A thread without a run, or with one that has failed, fits the invariant.
LEMMA IdleFits ==
  /\ Idle \in Execution
  /\ [Idle EXCEPT !.at = "failed"] \in Execution
  BY PolymarketSyncAssumption DEF Idle, Execution

LEMMA InitInv == Init => IInv
<1> SUFFICES ASSUME Init PROVE IInv
  OBVIOUS
<1>1. TypeOK
  BY IdleFits, PolymarketSyncAssumption DEF Init, TypeOK, Events, Versions
<1>2. CatalogStored
  BY DEF Init, CatalogStored, CursorCovers, RowsHaveRaw, Events
<1>3. \A t \in Threads : Walked(t) /\ Pictured(t)
  BY DEF Init, Idle, Walked, Pictured, At
<1>4. QED
  BY <1>1, <1>2, <1>3 DEF IInv

\* What a thread does to its own task disturbs no other, if rows and snapshots
\* only come.
LEMMA OthersFit ==
  ASSUME IInv, NEW t \in Threads, NEW x \in Execution,
         task' = [task EXCEPT ![t] = x],
         \A e \in Events : stored[e] # {} => stored'[e] # {},
         snapshots \subseteq snapshots',
         NEW u \in Threads, u # t
  PROVE  Walked(u)' /\ Pictured(u)'
<1>1. task'[u] = task[u]
  BY DEF IInv, TypeOK
<1>2. Walked(u) /\ Pictured(u)
  BY DEF IInv
<1>3. Walked(u)'
  <2>1. task[u].cursor \in 0..MaxEvents
    BY DEF IInv, TypeOK, Execution
  <2>2. \A e \in 1..task[u].cursor : e \in Events
    BY <2>1, PolymarketSyncAssumption DEF Events
  <2>3. QED
    BY <1>1, <1>2, <2>2 DEF Walked, At, Of
<1>4. Pictured(u)'
  BY <1>1, <1>2 DEF Pictured, At, Of
<1>5. QED
  BY <1>3, <1>4

\* A step of a thread that leaves the database alone.
LEMMA OwnStep ==
  ASSUME IInv, NEW t \in Threads, NEW x \in Execution,
         task' = [task EXCEPT ![t] = x],
         UNCHANGED <<upstream, database>>,
         Walked(t)', Pictured(t)'
  PROVE  IInv'
<1>1. TypeOK'
  BY DEF IInv, TypeOK, upstream, database
<1>2. CatalogStored'
  BY DEF IInv, CatalogStored, CursorCovers, RowsHaveRaw, database
<1>3. \A u \in Threads : Walked(u)' /\ Pictured(u)'
  BY OthersFit DEF database
<1>4. QED
  BY <1>1, <1>2, <1>3 DEF IInv

\* A transaction that stores a page keeps every row, adds those of the page and
\* keeps what they are made of.
LEMMA UpsertsKeep ==
  ASSUME TypeOK, NEW page \in SUBSET (Events \X Versions),
         stored' \in Upserts(page)
  PROVE  /\ stored' \in [Events -> SUBSET Versions]
         /\ Raw(page) \in [Events -> SUBSET Versions]
         /\ \A e \in Events : stored[e] # {} \/ Of(page, e) # {} => stored'[e] # {}
         /\ RowsHaveRaw => \A e \in Events : stored'[e] \subseteq Raw(page)[e]
  BY DEF TypeOK, Upserts, Raw, Of, RowsHaveRaw

-----------------------------------------------------------------------------
(* The steps.                                                              *)

LEMMA StartCatalogKeeps ==
  ASSUME IInv, NEW t \in Threads, NEW c \in 0..MaxEvents, StartCatalog(t, c)
  PROVE  IInv'
<1> DEFINE x == [task[t] EXCEPT !.at = "fetch_page", !.cursor = c]
<1>1. x \in Execution /\ task' = [task EXCEPT ![t] = x] /\ task'[t] = x
  BY DEF IInv, TypeOK, Execution, StartCatalog
<1>2. x.at = "fetch_page" /\ x.cursor = c
  BY DEF IInv, TypeOK, Execution
<1>3. stored' = stored /\ UNCHANGED <<upstream, database>>
  BY DEF StartCatalog, database
<1>4. Walked(t)'
  <2>1. \A e \in 1..c : stored[e] # {}
    BY DEF StartCatalog, IInv, CatalogStored, CursorCovers
  <2>2. QED
    BY <1>1, <1>2, <1>3, <2>1 DEF Walked, At
<1>5. Pictured(t)'
  BY <1>1, <1>2 DEF Pictured, At
<1>6. QED
  BY <1>1, <1>3, <1>4, <1>5, OwnStep

LEMMA FetchPageKeeps ==
  ASSUME IInv, NEW t \in Threads, NEW n \in 0..MaxEvents, FetchPage(t, n)
  PROVE  IInv'
<1> DEFINE c == task[t].cursor
           p == Fetched(PageEvents(c))
           x == [task[t] EXCEPT !.at = "store_page", !.page = p, !.next = n]
<1>1. c \in 0..MaxEvents /\ listed \in 0..MaxEvents
  BY DEF IInv, TypeOK, Execution
<1>2. p \in SUBSET (Events \X Versions)
  BY <1>1, PolymarketSyncAssumption DEF IInv, TypeOK, Fetched, PageEvents, Events
<1>3. /\ x \in Execution /\ task' = [task EXCEPT ![t] = x] /\ task'[t] = x
      /\ x.at = "store_page" /\ x.cursor = c
  BY <1>2 DEF IInv, TypeOK, Execution, FetchPage
<1>4. \A e \in 1..n : e <= c \/ e \in PageEvents(c)
  <2>1. n = 0 \/ n = PageEnd(c)
    BY DEF FetchPage, NextCursors
  <2>2. PageLimit \in Nat
    BY PolymarketSyncAssumption
  <2>3. PageEnd(c) \in Nat /\ PageEnd(c) <= listed /\ PageEnd(c) <= c + PageLimit
    BY <1>1, <2>2 DEF PageEnd
  <2>4. QED
    BY <1>1, <2>1, <2>2, <2>3 DEF PageEvents
<1>5. \A e \in PageEvents(c) : payload[e] \in Of(p, e)
  BY <1>1, PolymarketSyncAssumption DEF IInv, TypeOK, PageEvents, Events, Fetched, Of
<1>6. stored' = stored /\ UNCHANGED <<upstream, database>>
  BY DEF FetchPage, database
<1>7. Walked(t)'
  <2>1. \A e \in 1..x.next : e <= x.cursor \/ Of(x.page, e) # {}
    BY <1>4, <1>5
  <2>2. \A e \in 1..x.cursor : stored[e] # {}
    BY DEF IInv, Walked
  <2>3. QED
    BY <1>3, <1>6, <2>1, <2>2 DEF Walked, Of
<1>8. Pictured(t)'
  BY <1>3 DEF Pictured, At
<1>9. QED
  BY <1>3, <1>6, <1>7, <1>8, OwnStep

LEMMA StorePageKeeps ==
  ASSUME IInv, NEW t \in Threads, StorePage(t)
  PROVE  IInv'
<1> DEFINE k == task[t]
           x == [k EXCEPT !.at = IF LastPage(t) THEN "finish_catalog" ELSE "fetch_page",
                          !.cursor = IF k.next = 0 THEN @ ELSE k.next,
                          !.page = {}, !.next = 0]
<1>1. k \in Execution
  BY DEF IInv, TypeOK
<1>2. x \in Execution /\ x.at \in {"finish_catalog", "fetch_page"}
  <2>1. (IF k.next = 0 THEN k.cursor ELSE k.next) \in 0..MaxEvents /\ 0 \in 0..MaxEvents
    BY <1>1, PolymarketSyncAssumption DEF Execution
  <2>2. QED
    BY <1>1, <2>1 DEF Execution
<1>3. task' = [task EXCEPT ![t] = x] /\ task'[t] = x
  BY DEF IInv, TypeOK, StorePage
<1>4. /\ stored' \in [Events -> SUBSET Versions]
      /\ raw' \in [Events -> SUBSET Versions]
      /\ \A e \in Events : stored[e] # {} \/ Of(k.page, e) # {} => stored'[e] # {}
      /\ \A e \in Events : stored'[e] \subseteq raw'[e]
  BY <1>1, UpsertsKeep DEF IInv, CatalogStored, StorePage, Execution
<1>5. snapshots' = snapshots /\ active_cursor' = active_cursor /\ UNCHANGED upstream
  BY DEF StorePage
<1>6. TypeOK'
  BY <1>2, <1>3, <1>4, <1>5 DEF IInv, TypeOK, upstream
<1>7. CatalogStored'
  <2>1. \A e \in 1..active_cursor : e \in Events
    BY PolymarketSyncAssumption DEF IInv, TypeOK, Events
  <2>2. QED
    BY <1>4, <1>5, <2>1 DEF IInv, CatalogStored, CursorCovers, RowsHaveRaw
<1>8. Walked(t)'
  <2>1. k.cursor \in 0..MaxEvents /\ k.next \in 0..MaxEvents
    BY <1>1 DEF Execution
  <2>2. \A e \in 1..k.cursor : stored[e] # {}
    BY DEF IInv, Walked
  <2>3. \A e \in 1..k.next : e <= k.cursor \/ Of(k.page, e) # {}
    BY DEF IInv, Walked, StorePage
  <2>4. \A e \in 1..x.cursor : e \in Events /\ (stored[e] # {} \/ Of(k.page, e) # {})
    BY <2>1, <2>2, <2>3, PolymarketSyncAssumption DEF Events
  <2>5. \A e \in 1..x.cursor : stored'[e] # {}
    BY <1>4, <2>4
  <2>6. QED
    BY <1>2, <1>3, <2>5 DEF Walked, At
<1>9. Pictured(t)'
  BY <1>2, <1>3 DEF Pictured, At
<1>10. \A u \in Threads \ {t} : Walked(u)' /\ Pictured(u)'
  BY <1>2, <1>3, <1>4, <1>5, OthersFit
<1>11. QED
  BY <1>6, <1>7, <1>8, <1>9, <1>10 DEF IInv

LEMMA FinishCatalogKeeps ==
  ASSUME IInv, NEW t \in Threads, FinishCatalog(t)
  PROVE  IInv'
<1>1. task' = [task EXCEPT ![t] = Idle] /\ task'[t] = Idle
  BY DEF IInv, TypeOK, FinishCatalog
<1>2. stored' = stored /\ raw' = raw /\ snapshots' = snapshots /\ UNCHANGED upstream
  BY DEF FinishCatalog
<1>3. active_cursor' \in 0..MaxEvents /\ \A e \in 1..active_cursor' : stored[e] # {}
  BY DEF FinishCatalog, FinalCursor, IInv, TypeOK, Execution, Walked
<1>4. TypeOK'
  BY <1>1, <1>2, <1>3, IdleFits DEF IInv, TypeOK, upstream
<1>5. CatalogStored'
  BY <1>2, <1>3 DEF IInv, CatalogStored, CursorCovers, RowsHaveRaw
<1>6. Walked(t)' /\ Pictured(t)'
  BY <1>1 DEF Walked, Pictured, At, Idle
<1>7. \A u \in Threads \ {t} : Walked(u)' /\ Pictured(u)'
  BY <1>1, <1>2, IdleFits, OthersFit
<1>8. QED
  BY <1>4, <1>5, <1>6, <1>7 DEF IInv

LEMMA StartSnapshotKeeps ==
  ASSUME IInv, NEW t \in Threads, NEW events \in SUBSET Events, StartSnapshot(t, events)
  PROVE  IInv'
<1> DEFINE x == [task[t] EXCEPT !.at = "fetch_event", !.time = now,
                                !.events = events, !.todo = events]
<1>1. now \in 0..MaxTime /\ now # 0
  BY PolymarketSyncAssumption DEF IInv, TypeOK
<1>2. /\ x \in Execution /\ x.at = "fetch_event" /\ x.time = now
      /\ x.events = events /\ x.todo = events
  BY <1>1 DEF IInv, TypeOK, Execution
<1>3. task' = [task EXCEPT ![t] = x] /\ task'[t] = x
  BY DEF IInv, TypeOK, StartSnapshot
<1>4. stored' = stored /\ UNCHANGED <<upstream, database>>
  BY DEF StartSnapshot, database
<1>5. Walked(t)'
  <2>1. x.cursor = task[t].cursor
    BY DEF IInv, TypeOK, Execution
  <2>2. QED
    BY <1>2, <1>3, <1>4, <2>1 DEF IInv, Walked, At
<1>6. Pictured(t)'
  BY <1>1, <1>2, <1>3 DEF Pictured, At
<1>7. QED
  BY <1>2, <1>3, <1>4, <1>5, <1>6, OwnStep

LEMMA FetchEventKeeps ==
  ASSUME IInv, NEW t \in Threads, NEW e \in Events, FetchEvent(t, e)
  PROVE  IInv'
<1> DEFINE k == task[t]
           p == Fetched({e})
           x == [k EXCEPT !.at = "store_event", !.page = p, !.todo = @ \ {e}]
<1>1. p \in SUBSET (Events \X Versions) /\ payload[e] \in Of(p, e)
  BY DEF IInv, TypeOK, Fetched, Of
<1>2. /\ x \in Execution /\ task' = [task EXCEPT ![t] = x] /\ task'[t] = x
      /\ x.at = "store_event" /\ x.page = p /\ x.todo = k.todo \ {e}
      /\ x.events = k.events /\ x.time = k.time /\ x.cursor = k.cursor
  BY <1>1 DEF IInv, TypeOK, Execution, FetchEvent
<1>3. stored' = stored /\ snapshots' = snapshots /\ UNCHANGED <<upstream, database>>
  BY DEF FetchEvent, database
<1>4. Walked(t)'
  BY <1>2, <1>3 DEF IInv, Walked, At
<1>5. Pictured(t)'
  <2>1. k.time # 0 /\ (k.events \ k.todo) \X {k.time} \subseteq snapshots
    BY DEF IInv, Pictured, FetchEvent, At
  <2>2. \A d \in k.events \ (k.todo \ {e}) : <<d, k.time>> \in snapshots \/ Of(p, d) # {}
    BY <1>1, <2>1
  <2> HIDE DEF x, p, k
  <2>3. At(t, "store_event")' /\ task'[t].time # 0
    BY <1>2, <2>1 DEF At
  <2>4. \A d \in task'[t].events \ task'[t].todo :
           <<d, task'[t].time>> \in snapshots' \/ Of(task'[t].page, d) # {}
    BY <1>2, <1>3, <2>2
  <2>5. QED
    BY <2>3, <2>4 DEF Pictured, At, Of
<1>6. QED
  BY <1>2, <1>3, <1>4, <1>5, OwnStep

LEMMA StoreEventKeeps ==
  ASSUME IInv, NEW t \in Threads, StoreEvent(t)
  PROVE  IInv'
<1> DEFINE k == task[t]
           x == [k EXCEPT !.at = IF k.todo = {} THEN "finish_snapshot" ELSE "fetch_event",
                          !.page = {}]
<1>1. k \in Execution
  BY DEF IInv, TypeOK
<1>2. /\ x \in Execution /\ x.at = (IF k.todo = {} THEN "finish_snapshot" ELSE "fetch_event")
      /\ x.events = k.events /\ x.todo = k.todo /\ x.time = k.time /\ x.cursor = k.cursor
  BY <1>1 DEF Execution
<1>3. task' = [task EXCEPT ![t] = x] /\ task'[t] = x
  BY DEF IInv, TypeOK, StoreEvent
<1>4. /\ stored' \in [Events -> SUBSET Versions]
      /\ raw' \in [Events -> SUBSET Versions]
      /\ \A e \in Events : stored[e] # {} \/ Of(k.page, e) # {} => stored'[e] # {}
      /\ \A e \in Events : stored'[e] \subseteq raw'[e]
  BY <1>1, UpsertsKeep DEF IInv, CatalogStored, StoreEvent, Execution
<1>5. active_cursor' = active_cursor /\ UNCHANGED upstream
  BY DEF StoreEvent
<1>6. k.time # 0 /\ k.time \in 1..MaxTime
  BY <1>1, PolymarketSyncAssumption DEF IInv, Pictured, StoreEvent, At, Execution
<1>7. /\ snapshots \subseteq snapshots' /\ snapshots' \subseteq Events \X (1..MaxTime)
      /\ \A d \in Events : Of(k.page, d) # {} => <<d, k.time>> \in snapshots'
  <2>1. snapshots' = snapshots \cup {<<q[1], k.time>> : q \in k.page}
    BY DEF StoreEvent, Bucket
  <2>2. \A q \in k.page : q[1] \in Events
    BY <1>1 DEF Execution
  <2>3. \A d \in Events : Of(k.page, d) # {} => \E q \in k.page : q[1] = d
    BY DEF Of
  <2>4. QED
    BY <1>6, <2>1, <2>2, <2>3 DEF IInv, TypeOK
<1>8. TypeOK'
  BY <1>2, <1>3, <1>4, <1>5, <1>7 DEF IInv, TypeOK, upstream
<1>9. CatalogStored'
  <2>1. \A e \in 1..active_cursor : e \in Events
    BY PolymarketSyncAssumption DEF IInv, TypeOK, Events
  <2>2. QED
    BY <1>4, <1>5, <2>1 DEF IInv, CatalogStored, CursorCovers, RowsHaveRaw
<1>10. Walked(t)'
  <2>1. \A e \in 1..k.cursor : e \in Events /\ stored[e] # {}
    BY <1>1, PolymarketSyncAssumption DEF IInv, Walked, Execution, Events
  <2> HIDE DEF x, k
  <2>2. QED
    BY <1>2, <1>3, <1>4, <2>1 DEF Walked, At
<1>11. Pictured(t)'
  <2>1. \A d \in k.events \ k.todo : <<d, k.time>> \in snapshots'
    BY <1>1, <1>7 DEF IInv, Pictured, StoreEvent, At, Execution
  <2> HIDE DEF x, k
  <2>2. \A d \in task'[t].events \ task'[t].todo : <<d, task'[t].time>> \in snapshots'
    BY <1>2, <1>3, <2>1
  <2>3. k.todo = {} => \A d \in task'[t].events : <<d, task'[t].time>> \in snapshots'
    BY <1>2, <1>3, <2>1
  <2>4. task'[t].time # 0 /\ task'[t].at = (IF k.todo = {} THEN "finish_snapshot" ELSE "fetch_event")
    BY <1>2, <1>3, <1>6
  <2>5. QED
    BY <2>2, <2>3, <2>4 DEF Pictured, At
<1>12. \A u \in Threads \ {t} : Walked(u)' /\ Pictured(u)'
  BY <1>2, <1>3, <1>4, <1>7, OthersFit
<1>13. QED
  BY <1>8, <1>9, <1>10, <1>11, <1>12 DEF IInv

\* Whatever ends a run and leaves the database alone.
LEMMA EndKeeps ==
  ASSUME IInv, NEW t \in Threads, UNCHANGED <<upstream, database>>,
         NEW x \in {Idle, [Idle EXCEPT !.at = "failed"]}, task' = [task EXCEPT ![t] = x]
  PROVE  IInv'
<1>1. x \in Execution /\ task'[t] = x
  BY IdleFits DEF IInv, TypeOK
<1>2. x.at \in {"idle", "failed"} /\ x.cursor = 0
  BY DEF Idle
<1>3. Walked(t)' /\ Pictured(t)'
  BY <1>1, <1>2 DEF Walked, Pictured, At
<1>4. QED
  BY <1>1, <1>3, OwnStep

LEMMA UpstreamKeeps ==
  ASSUME IInv, UNCHANGED <<database, task>>,
         listed' \in 0..MaxEvents, payload' \in [Events -> Versions], now' \in 1..MaxTime
  PROVE  IInv'
<1>1. TypeOK'
  BY DEF IInv, TypeOK, database
<1>2. CatalogStored'
  BY DEF IInv, CatalogStored, CursorCovers, RowsHaveRaw, database
<1>3. \A t \in Threads : Walked(t)' /\ Pictured(t)'
  BY DEF IInv, Walked, Pictured, At, Of, database
<1>4. QED
  BY <1>1, <1>2, <1>3 DEF IInv

LEMMA NextKeeps == IInv /\ [Next]_vars => IInv'
<1> SUFFICES ASSUME IInv, [Next]_vars PROVE IInv'
  OBVIOUS
<1>1. CASE Appear
  BY <1>1, PolymarketSyncAssumption, UpstreamKeeps DEF Appear, IInv, TypeOK
<1>2. ASSUME NEW e \in Events, Change(e) PROVE IInv'
  BY <1>2, PolymarketSyncAssumption, UpstreamKeeps DEF Change, IInv, TypeOK, Versions
<1>3. CASE Tick
  BY <1>3, PolymarketSyncAssumption, UpstreamKeeps DEF Tick, IInv, TypeOK
<1>4. ASSUME NEW t \in Threads, StartsCatalog(t) PROVE IInv'
  BY <1>4, StartCatalogKeeps DEF StartsCatalog
<1>5. ASSUME NEW t \in Threads, NEW events \in SUBSET Events, StartSnapshot(t, events)
      PROVE  IInv'
  BY <1>5, StartSnapshotKeeps
<1>6. ASSUME NEW t \in Threads, Step(t) PROVE IInv'
  <2>1. ASSUME NEW n \in 0..MaxEvents, FetchPage(t, n) PROVE IInv'
    BY <2>1, FetchPageKeeps
  <2>2. ASSUME NEW e \in Events, FetchEvent(t, e) PROVE IInv'
    BY <2>2, FetchEventKeeps
  <2>3. CASE FinishSnapshot(t)
    BY <2>3, EndKeeps DEF FinishSnapshot
  <2>4. CASE Recovers(t)
    BY <2>4, EndKeeps DEF Recovers
  <2>5. QED
    BY <1>6, <2>1, <2>2, <2>3, <2>4, StorePageKeeps, FinishCatalogKeeps, StoreEventKeeps
       DEF Step
<1>7. ASSUME NEW t \in Threads, Fails(t) PROVE IInv'
  BY <1>7, EndKeeps DEF Fails, CursorAfterFailure, database
<1>8. CASE UNCHANGED vars
  BY <1>8, UpstreamKeeps DEF vars, database, IInv, TypeOK
<1>9. QED
  BY <1>1, <1>2, <1>3, <1>4, <1>5, <1>6, <1>7, <1>8 DEF Next

-----------------------------------------------------------------------------
(* Theorems.                                                               *)

LEMMA Invariance == Spec => []IInv
  BY InitInv, NextKeeps, PTL DEF Spec

\* Type correctness of the rows and of the runs of all threads.
THEOREM TypeCorrect == Spec => []TypeOK
<1>1. IInv => TypeOK
  BY DEF IInv
<1>2. QED
  BY <1>1, Invariance, PTL

\* However many tasks walk through the catalog, fail, or store what they fetched
\* long ago, the cursor passes no event without a row, and no row is without the
\* payloads that it is made of (run_catalog_sync, upsert_event).
THEOREM NothingLost == Spec => []CatalogStored
<1>1. IInv => CatalogStored
  BY DEF IInv
<1>2. QED
  BY <1>1, Invariance, PTL

\* A snapshot run that is about to be marked SUCCEEDED has pictured all of its
\* events at one time (run_snapshot_sync).
THEOREM CompleteSnapshots == Spec => []SnapshotsComplete
<1>1. IInv => SnapshotsComplete
  BY DEF IInv, SnapshotsComplete, Pictured
<1>2. QED
  BY <1>1, Invariance, PTL
=============================================================================
