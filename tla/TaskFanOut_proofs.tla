------------------------- MODULE TaskFanOut_proofs -------------------------
(* For any number of children, items, clients and aggregate ids.  One       *)
(* aggregate task, after all children, whatever is requested and fails.     *)
(* Then, each under the requests and faults it can bear, which are named:   *)
(* counters that are true (Undisturbed), success that is final (Firm),      *)
(* results that are complete (NoRowIsCanceled, OneAtATime), and that no     *)
(* batch is forgotten (Calm).                                               *)
EXTENDS TaskFanOut, FiniteSetTheorems, TLAPS

\* A request that is going to write a row has found it there.
RequestsKnowRows ==
    \A c \in Clients : api[c].row \in Aggregates => work[api[c].row].status # "NONE"

IInv == TypeOK /\ RequestsKnowRows /\ AtMostOneAggregate

\* What all steps do but the one that schedules an aggregate.
SchedulesNothing ==
    /\ TypeOK'
    /\ RequestsKnowRows'
    /\ Unused' = Unused
    /\ parent'.dispatched = parent.dispatched

-----------------------------------------------------------------------------
(* Lemmas about refresh_parent_state.                                      *)

LEMMA Constants ==
    /\ MaxChildren \in Nat /\ MaxChildren # 0
    /\ ShardSize \in Nat /\ ShardSize # 0
    /\ IsFiniteSet(Aggregates)
    /\ Aggregates \cap Children = {}
    /\ Parent \notin Rows /\ NoTask \notin Rows /\ NoTask # Parent
    /\ ClientHeaders \subseteq {"present", "absent"}
    /\ MaxItems \in Nat
  BY TaskFanOutAssumption DEF Rows, Children

LEMMA CountIn ==
  ASSUME TypeOK, NEW rows, NEW S
  PROVE  /\ InStatus(rows, S) \in 0..MaxChildren
         /\ IsFiniteSet(kids) /\ Cardinality(kids) \in 0..MaxChildren
<1>1. /\ IsFiniteSet(1..MaxChildren) /\ Cardinality(1..MaxChildren) = MaxChildren
      /\ MaxChildren \in Nat
  BY Constants, FS_Interval
<1>2. kids \in SUBSET (1..MaxChildren)
  BY DEF TypeOK, Children
<1>3. \A T \in SUBSET (1..MaxChildren) : IsFiniteSet(T) /\ Cardinality(T) \in 0..MaxChildren
  <2>1. ASSUME NEW T \in SUBSET (1..MaxChildren)
        PROVE  IsFiniteSet(T) /\ Cardinality(T) \in 0..MaxChildren
    <3>1. IsFiniteSet(T) /\ Cardinality(T) <= MaxChildren
      BY <1>1, FS_Subset
    <3>2. Cardinality(T) \in Nat
      BY <3>1, FS_CardinalityType
    <3>3. QED
      BY <1>1, <3>1, <3>2
  <2>2. QED
    BY <2>1
<1>4. {x \in kids : rows[x].status \in S} \in SUBSET (1..MaxChildren)
  BY <1>2
<1>5. QED
  BY <1>2, <1>3, <1>4 DEF InStatus

LEMMA CountedType ==
  ASSUME TypeOK, NEW p \in ParentRow, NEW rows
  PROVE  /\ Counted(p, rows) \in ParentRow
         /\ Counted(p, rows).dispatched = p.dispatched
         /\ Counted(p, rows).status = p.status
         /\ Counted(p, rows).succeeded = InStatus(rows, {"SUCCEEDED"})
         /\ Counted(p, rows).total = Cardinality(kids)
<1>1. /\ Cardinality(kids) \in 0..MaxChildren
      /\ InStatus(rows, {"SUCCEEDED"}) \in 0..MaxChildren
      /\ InStatus(rows, {"FAILED", "CANCELED", "DEAD"}) \in 0..MaxChildren
      /\ InStatus(rows, {"RUNNING"}) \in 0..MaxChildren
  BY CountIn
<1>2. QED
  BY <1>1 DEF Counted, ParentRow

LEMMA RefreshedType ==
  ASSUME TypeOK, NEW p \in ParentRow, NEW rows
  PROVE  /\ Refreshed(p, rows) \in ParentRow
         /\ Refreshed(p, rows).dispatched = p.dispatched
         /\ Refreshed(p, rows).succeeded = InStatus(rows, {"SUCCEEDED"})
         /\ Refreshed(p, rows).total = Cardinality(kids)
<1> DEFINE c == Counted(p, rows)
<1>1. /\ c \in ParentRow /\ c.dispatched = p.dispatched
      /\ c.succeeded = InStatus(rows, {"SUCCEEDED"}) /\ c.total = Cardinality(kids)
  BY CountedType
<1>2. Refreshed(p, rows) = [c EXCEPT !.status = RefreshedStatus(c)]
  BY DEF Refreshed
<1> HIDE DEF c
<1>3. RefreshedStatus(c) \in ParentStatus
  BY <1>1 DEF RefreshedStatus, ParentRow, ParentStatus
<1>4. QED
  BY <1>1, <1>2, <1>3 DEF ParentRow

LEMMA RefreshedForType ==
  ASSUME TypeOK, NEW p \in ParentRow, NEW rows, NEW moved
  PROVE  /\ RefreshedFor(moved, p, rows) \in ParentRow
         /\ RefreshedFor(moved, p, rows).dispatched = p.dispatched
  BY RefreshedType DEF RefreshedFor

\* A parent whose count of successes is its total has no other children.
LEMMA AllSucceeded ==
  ASSUME TypeOK, AggregateReady(Refreshed(parent, work))
  PROVE  \A k \in kids : work[k].status = "SUCCEEDED"
<1> DEFINE S == {x \in kids : work[x].status \in {"SUCCEEDED"}}
<1>1. Refreshed(parent, work).succeeded = Cardinality(S)
      /\ Refreshed(parent, work).total = Cardinality(kids)
  BY RefreshedType DEF InStatus, TypeOK
<1>2. Cardinality(S) = Cardinality(kids)
  BY <1>1 DEF AggregateReady
<1>3. IsFiniteSet(kids) /\ S \in SUBSET kids
  BY CountIn
<1>4. kids = S
  BY <1>2, <1>3, FS_Subset
<1>5. QED
  BY <1>4

-----------------------------------------------------------------------------
(* Every action keeps the invariant.                                       *)

LEMMA InitInv == Init => IInv
<1> SUFFICES ASSUME Init PROVE IInv
  OBVIOUS
<1>1. TypeOK
  BY Constants DEF Init, TypeOK, ParentRow, ParentStatus, WorkRow, RowStatus, Thread, NoParent,
                   NoRow, NoThread, NoRequest
<1>2. RequestsKnowRows
  BY Constants DEF Init, RequestsKnowRows, NoRequest, Rows
<1>3. Unused = Aggregates
  BY DEF Init, Unused, NoRow, Rows
<1>4. Aggregates \ Unused = {}
  BY <1>3
<1>5. parent.dispatched = FALSE
  BY DEF Init, NoParent
<1>6. AtMostOneAggregate
  BY <1>3, <1>4, <1>5, FS_EmptySet DEF AtMostOneAggregate
<1>7. QED
  BY <1>1, <1>2, <1>6 DEF IInv

LEMMA SchedulesNothingInv == IInv /\ SchedulesNothing => IInv'
  BY DEF IInv, SchedulesNothing, AtMostOneAggregate

LEMMA CreateFanOutStep ==
  ASSUME IInv, NEW items \in 1..MaxItems, NEW header \in ClientHeaders, CreateFanOut(items, header)
  PROVE  SchedulesNothing
<1> USE DEF IInv
<1> DEFINE n == ShardCount(items)
<1>1. n \in 0..MaxChildren
  <2>1. ShardCount(items) \in Nat
    BY Constants DEF ShardCount
  <2>2. QED
    BY <2>1, Constants DEF CreateFanOut
<1>2. /\ kids' = 1..n
      /\ parent' = [parent EXCEPT !.status = "PARTIALLY_RUNNING", !.total = n]
      /\ work' = [x \in Rows |-> IF x \in kids' THEN NewWork ELSE work[x]]
      /\ UNCHANGED <<thread, posts, api, mishaps, retried>> /\ createdBy' = header
  BY DEF CreateFanOut
<1> HIDE DEF n
<1>3. kids' \subseteq Children
  BY <1>1, <1>2, Constants DEF Children
<1>4. parent' \in ParentRow /\ parent'.dispatched = parent.dispatched
  BY <1>1, <1>2 DEF TypeOK, ParentRow, ParentStatus
<1>5. work' \in [Rows -> WorkRow]
  BY <1>2 DEF TypeOK, NewWork, NoRow, WorkRow, RowStatus
<1>6. \A g \in Aggregates : work'[g] = work[g]
  BY <1>2, <1>3, Constants DEF Rows
<1>7. createdBy' \in {"present", "absent"}
  BY <1>2, Constants
<1>8. TypeOK'
  BY <1>2, <1>3, <1>4, <1>5, <1>7 DEF TypeOK
<1>9. Unused' = Unused
  BY <1>6 DEF Unused
<1>10. RequestsKnowRows'
  BY <1>2, <1>6 DEF RequestsKnowRows
<1>11. QED
  BY <1>4, <1>8, <1>9, <1>10 DEF SchedulesNothing

LEMMA RunOnceStep ==
  ASSUME IInv, NEW R \in SUBSET Rows, NEW C \in SUBSET Rows, RunOnce(R, C)
  PROVE  SchedulesNothing
<1> USE DEF IInv
<1> DEFINE recovered == [x \in Rows |-> IF x \in R THEN [work[x] EXCEPT !.status = "PENDING"]
                                        ELSE work[x]]
           claimed == [x \in Rows |-> IF x \in C
                          THEN [status |-> "RUNNING", cancel |-> FALSE,
                                attempt_no |-> work[x].attempt_no + 1]
                          ELSE recovered[x]]
           first == RefreshedFor(R, parent, recovered)
<1>1. /\ work' = claimed
      /\ parent' = RefreshedFor(C, first, claimed)
      /\ thread' = [x \in Rows |-> IF x \in C THEN [pc |-> "running", covers |-> {}]
                                   ELSE thread[x]]
      /\ UNCHANGED <<kids, posts, api, createdBy, mishaps, retried>>
  BY DEF RunOnce
<1>2. /\ \A x \in R : work[x].status = "RUNNING"
      /\ \A x \in C : work[x].status = "PENDING"
  BY DEF RunOnce
<1>3. recovered \in [Rows -> WorkRow]
  BY DEF TypeOK, WorkRow, RowStatus
<1>4. \A x \in Rows : recovered[x].status = "NONE" <=> work[x].status = "NONE"
  BY <1>2 DEF TypeOK, WorkRow
<1> HIDE DEF recovered
<1>5. claimed \in [Rows -> WorkRow]
  BY <1>3 DEF TypeOK, WorkRow, RowStatus
<1>6. \A x \in Rows : claimed[x].status = "NONE" <=> work[x].status = "NONE"
  BY <1>2, <1>4
<1> HIDE DEF claimed
<1>7. first \in ParentRow /\ first.dispatched = parent.dispatched
  BY RefreshedForType DEF TypeOK
<1> HIDE DEF first
<1>8. parent' \in ParentRow /\ parent'.dispatched = parent.dispatched
  BY <1>1, <1>7, RefreshedForType
<1>9. thread' \in [Rows -> Thread]
  BY <1>1 DEF TypeOK, Thread
<1>10. TypeOK'
  BY <1>1, <1>5, <1>8, <1>9 DEF TypeOK
<1>11. Unused' = Unused
  BY <1>1, <1>6 DEF Unused, Rows
<1>12. RequestsKnowRows'
  BY <1>1, <1>6 DEF RequestsKnowRows, Rows
<1>13. QED
  BY <1>8, <1>10, <1>11, <1>12 DEF SchedulesNothing

\* A step that writes no row and not the parent.
LEMMA SameRows ==
  ASSUME IInv, TypeOK', UNCHANGED <<parent, work, api>>
  PROVE  SchedulesNothing
  BY DEF IInv, SchedulesNothing, Unused, RequestsKnowRows

LEMMA ObserveCancelStep ==
  ASSUME IInv, NEW x \in Rows, ObserveCancel(x)
  PROVE  SchedulesNothing
<1>1. thread' \in [Rows -> Thread]
  BY DEF IInv, TypeOK, ObserveCancel, Thread
<1>2. TypeOK'
  BY <1>1 DEF IInv, TypeOK, ObserveCancel
<1>3. QED
  BY <1>2, SameRows DEF ObserveCancel

LEMMA LoadChildResultsStep ==
  ASSUME IInv, NEW x \in Rows, LoadChildResults(x)
  PROVE  SchedulesNothing
<1>1. thread' \in [Rows -> Thread]
  BY DEF IInv, TypeOK, LoadChildResults, Thread
<1>2. TypeOK'
  BY <1>1 DEF IInv, TypeOK, LoadChildResults
<1>3. QED
  BY <1>2, SameRows DEF LoadChildResults

LEMMA NoThreadType == NoThread \in Thread
  BY DEF NoThread, Thread

LEMMA FinishStep ==
  ASSUME IInv, NEW x \in Rows, NEW verdict \in {"SUCCEEDED", "FAILED", "CANCELED"},
         Finish(x, verdict)
  PROVE  SchedulesNothing
<1>1. /\ thread' = [thread EXCEPT ![x] = NoThread]
      /\ UNCHANGED <<parent, kids, api, createdBy, mishaps, retried>>
  BY DEF Finish
<1>2. thread' \in [Rows -> Thread]
  BY <1>1, NoThreadType DEF IInv, TypeOK
<1>3. CASE UNCHANGED <<work, posts>>
  <2>1. TypeOK'
    BY <1>1, <1>2, <1>3 DEF IInv, TypeOK
  <2>2. QED
    BY <1>1, <1>3, <2>1, SameRows
<1>4. CASE /\ work[x].status = "RUNNING"
           /\ work' = [work EXCEPT ![x].status = verdict]
           /\ posts' = posts \cup {[row |-> x, attempt_no |-> work[x].attempt_no,
                                    verdict |-> verdict, covers |-> thread[x].covers]}
  <2>1. work' \in [Rows -> WorkRow]
    BY <1>4 DEF IInv, TypeOK, WorkRow, RowStatus
  <2>2. posts' \in SUBSET Post
    <3>1. work[x].attempt_no \in Nat /\ thread[x].covers \in SUBSET Children
      BY DEF IInv, TypeOK, WorkRow, Thread
    <3>2. QED
      BY <1>4, <3>1 DEF IInv, TypeOK, Post
  <2>3. TypeOK'
    BY <1>1, <1>2, <2>1, <2>2 DEF IInv, TypeOK
  <2>4. \A y \in Rows : work'[y].status = "NONE" <=> work[y].status = "NONE"
    BY <1>4 DEF IInv, TypeOK, WorkRow
  <2>5. Unused' = Unused
    BY <2>4 DEF Unused, Rows
  <2>6. RequestsKnowRows'
    BY <1>1, <2>4 DEF IInv, RequestsKnowRows, Rows
  <2>7. QED
    BY <1>1, <2>3, <2>5, <2>6 DEF SchedulesNothing
<1>5. QED
  BY <1>3, <1>4 DEF Finish

LEMMA LoseRunStep ==
  ASSUME IInv, NEW x \in Rows, LoseRun(x)
  PROVE  SchedulesNothing
<1>1. thread' \in [Rows -> Thread] /\ mishaps' \in Nat
  BY NoThreadType DEF IInv, TypeOK, LoseRun, Mishap
<1>2. TypeOK'
  BY <1>1 DEF IInv, TypeOK, LoseRun
<1>3. QED
  BY <1>2, SameRows DEF LoseRun

LEMMA LosePostStep ==
  ASSUME IInv, NEW post \in posts, LosePost(post)
  PROVE  SchedulesNothing
<1>1. posts' \in SUBSET Post /\ mishaps' \in Nat
  BY DEF IInv, TypeOK, LosePost, Mishap
<1>2. TypeOK'
  BY <1>1 DEF IInv, TypeOK, LosePost
<1>3. QED
  BY <1>2, SameRows DEF LosePost

LEMMA PostAggregateStep ==
  ASSUME IInv, NEW post \in posts, PostAggregate(post),
         posts' = posts \ {post}, UNCHANGED <<kids, thread, api, createdBy, mishaps, retried>>
  PROVE  SchedulesNothing
<1> DEFINE c == Counted(parent, work)
<1>1. c \in ParentRow /\ c.dispatched = parent.dispatched
  BY CountedType DEF IInv, TypeOK
<1>2. parent' = [c EXCEPT !.status = post.verdict,
                          !.covers = IF post.verdict = "SUCCEEDED" THEN post.covers ELSE @]
  BY DEF PostAggregate
<1> HIDE DEF c
<1>3. post.verdict \in {"SUCCEEDED", "FAILED"} /\ post.covers \in SUBSET Children
  BY DEF PostAggregate, IInv, TypeOK, Post
<1>4. parent' \in ParentRow /\ parent'.dispatched = parent.dispatched
  BY <1>1, <1>2, <1>3 DEF ParentRow, ParentStatus
<1>5. work' = work
  BY DEF PostAggregate
<1>6. TypeOK'
  BY <1>4, <1>5 DEF IInv, TypeOK
<1>7. Unused' = Unused /\ RequestsKnowRows'
  BY <1>5 DEF IInv, Unused, RequestsKnowRows
<1>8. QED
  BY <1>4, <1>6, <1>7 DEF SchedulesNothing

\* A child's parent update either schedules nothing or is the one step that
\* takes an unused id, with all children SUCCEEDED and no aggregate before it.
LEMMA PostChildStep ==
  ASSUME IInv, NEW post \in posts, PostChild(post),
         posts' = posts \ {post}, UNCHANGED <<kids, thread, api, createdBy, mishaps, retried>>
  PROVE  /\ IInv'
         /\ Unused' # Unused => \A k \in kids : work[k].status = "SUCCEEDED"
<1> DEFINE p == Refreshed(parent, work)
<1>1. p \in ParentRow /\ p.dispatched = parent.dispatched
  BY RefreshedType DEF IInv, TypeOK
<1>2. CASE parent' = p /\ UNCHANGED work
  <2>1. TypeOK'
    BY <1>1, <1>2 DEF IInv, TypeOK
  <2>2. Unused' = Unused /\ RequestsKnowRows'
    BY <1>2 DEF IInv, Unused, RequestsKnowRows
  <2>3. SchedulesNothing
    BY <1>1, <1>2, <2>1, <2>2 DEF SchedulesNothing
  <2>4. QED
    BY <2>2, <2>3, SchedulesNothingInv
<1>3. CASE /\ AggregateReady(p)
           /\ \E g \in Unused :
                 /\ work' = [work EXCEPT ![g] = NewWork]
                 /\ parent' = [p EXCEPT !.status = "AGGREGATING", !.dispatched = TRUE]
  <2>1. PICK g \in Unused :
                 /\ work' = [work EXCEPT ![g] = NewWork]
                 /\ parent' = [p EXCEPT !.status = "AGGREGATING", !.dispatched = TRUE]
    BY <1>3
  <2>2. \A k \in kids : work[k].status = "SUCCEEDED"
    BY <1>3, AllSucceeded DEF IInv
  <2>3. ~parent.dispatched
    BY <1>1, <1>3 DEF AggregateReady
  <2>4. Aggregates = Unused
    BY <2>3 DEF IInv, AtMostOneAggregate
  <2> HIDE DEF p
  <2>5. g \in Aggregates /\ g \in Rows /\ work[g].status = "NONE"
    BY <2>1 DEF Unused, Rows
  <2>6. NewWork \in WorkRow /\ NewWork.status = "PENDING"
    BY DEF NewWork, NoRow, WorkRow, RowStatus
  <2>7. work' \in [Rows -> WorkRow]
    BY <2>1, <2>6 DEF IInv, TypeOK
  <2>8. parent' \in ParentRow /\ parent'.dispatched = TRUE
    BY <1>1, <2>1 DEF ParentRow, ParentStatus
  <2>9. TypeOK'
    BY <2>7, <2>8 DEF IInv, TypeOK
  <2>10. work'[g].status # "NONE" /\ \A y \in Rows \ {g} : work'[y] = work[y]
    BY <2>1, <2>5, <2>6 DEF IInv, TypeOK
  <2>11. RequestsKnowRows'
    BY <2>10 DEF IInv, RequestsKnowRows, Rows
  <2>12. (Aggregates \ Unused)' = {g}
    BY <2>4, <2>5, <2>10 DEF Unused, Rows
  <2>13. Cardinality((Aggregates \ Unused)') = 1
    BY <2>12, FS_Singleton
  <2>14. Aggregates # Unused'
    BY <2>5, <2>12
  <2>15. AtMostOneAggregate'
    BY <2>8, <2>13, <2>14 DEF AtMostOneAggregate
  <2>16. QED
    BY <2>2, <2>9, <2>11, <2>15 DEF IInv
<1>4. QED
  BY <1>2, <1>3 DEF PostChild

LEMMA OpenStep ==
  ASSUME IInv, NEW c \in Clients, NEW op \in {"cancel", "retry"}, NEW x \in Rows \cup {Parent},
         NEW columns \in SUBSET {"status", "cancel", "result"},
         columns # {} => RowOf(x).status # "NONE", Open(c, op, x, columns), retried' \in Nat
  PROVE  SchedulesNothing
<1>1. /\ columns # {}
      /\ api' = [api EXCEPT ![c] = [op |-> op, row |-> x, columns |-> columns]]
      /\ UNCHANGED <<parent, kids, work, thread, posts, createdBy, mishaps>>
  BY DEF Open
<1>2. api' \in [Clients -> {NoRequest} \cup Request]
  BY <1>1 DEF IInv, TypeOK, Request
<1>3. TypeOK'
  BY <1>1, <1>2 DEF IInv, TypeOK
<1>4. RequestsKnowRows'
  <2>1. ASSUME NEW b \in Clients, api'[b].row \in Aggregates
        PROVE  work'[api'[b].row].status # "NONE"
    <3>1. CASE b = c
      <4>1. api'[b].row = x
        BY <1>1, <3>1 DEF IInv, TypeOK
      <4>2. x # Parent
        BY <2>1, <4>1, Constants DEF Rows
      <4>3. QED
        BY <1>1, <4>1, <4>2 DEF RowOf
    <3>2. CASE b # c
      BY <1>1, <2>1, <3>2 DEF IInv, TypeOK, RequestsKnowRows
    <3>3. QED
      BY <3>1, <3>2
  <2>2. QED
    BY <2>1 DEF RequestsKnowRows
<1>5. QED
  BY <1>1, <1>3, <1>4 DEF SchedulesNothing, Unused

LEMMA CancelReadStep ==
  ASSUME IInv, NEW c \in Clients, NEW x \in Rows \cup {Parent}, CancelRead(c, x)
  PROVE  SchedulesNothing
<1>1. CancelColumns(x) \in SUBSET {"status", "cancel", "result"}
  BY DEF CancelColumns
<1>2. CancelColumns(x) # {} => RowOf(x).status # "NONE"
  BY DEF CancelColumns, ActiveStatus
<1>3. retried' \in Nat
  BY DEF CancelRead, IInv, TypeOK
<1>4. QED
  BY <1>1, <1>2, <1>3, OpenStep DEF CancelRead

LEMMA RetryReadStep ==
  ASSUME IInv, NEW c \in Clients, NEW x \in Rows \cup {Parent}, RetryRead(c, x)
  PROVE  SchedulesNothing
<1>1. RetryColumns(x) \in SUBSET {"status", "cancel", "result"}
  BY DEF RetryColumns
<1>2. RetryColumns(x) # {} => RowOf(x).status # "NONE"
  BY DEF RetryColumns, RetriableStatus
<1>3. retried' \in Nat
  BY DEF RetryRead, IInv, TypeOK
<1>4. QED
  BY <1>1, <1>2, <1>3, OpenStep DEF RetryRead

LEMMA ApiCommitStep ==
  ASSUME IInv, NEW c \in Clients, ApiCommit(c)
  PROVE  SchedulesNothing
<1> DEFINE r == api[c]
<1>1. r \in Request
  BY DEF ApiCommit, IInv, TypeOK
<1>2. api' = [api EXCEPT ![c] = NoRequest] /\ UNCHANGED <<kids, thread, posts, createdBy, mishaps, retried>>
  BY DEF ApiCommit
<1>3. api' \in [Clients -> {NoRequest} \cup Request]
  BY <1>2 DEF IInv, TypeOK
<1>4. api'[c].row = NoTask /\ \A b \in Clients \ {c} : api'[b] = api[b]
  BY <1>2 DEF IInv, TypeOK, NoRequest
<1>5. CASE /\ r.row = Parent /\ UNCHANGED work
           /\ parent' = [Written(parent, r) EXCEPT
                           !.covers = IF "result" \in r.columns THEN {} ELSE @]
  <2>1. Written(parent, r) \in ParentRow /\ Written(parent, r).dispatched = parent.dispatched
    BY <1>1 DEF Written, IInv, TypeOK, ParentRow, ParentStatus, Request
  <2>2. parent' \in ParentRow /\ parent'.dispatched = parent.dispatched
    BY <1>5, <2>1 DEF ParentRow
  <2>3. TypeOK'
    BY <1>2, <1>3, <1>5, <2>2 DEF IInv, TypeOK
  <2>4. RequestsKnowRows'
    BY <1>4, <1>5, Constants DEF IInv, RequestsKnowRows, Rows
  <2>5. QED
    BY <1>5, <2>2, <2>3, <2>4 DEF SchedulesNothing, Unused
<1>6. CASE r.row # Parent /\ work' = [work EXCEPT ![r.row] = Written(@, r)] /\ UNCHANGED parent
  <2>1. r.row \in Rows
    BY <1>1, <1>6 DEF Request
  <2>2. work[r.row] \in WorkRow
    BY <2>1 DEF IInv, TypeOK
  <2>3. /\ Written(work[r.row], r) \in WorkRow
        /\ work[r.row].status # "NONE" => Written(work[r.row], r).status # "NONE"
    BY <1>1, <2>2 DEF Written, WorkRow, RowStatus, Request
  <2>4. work' \in [Rows -> WorkRow]
    BY <1>6, <2>1, <2>3 DEF IInv, TypeOK
  <2>5. TypeOK'
    BY <1>2, <1>3, <1>6, <2>4 DEF IInv, TypeOK
  <2>6. \A y \in Rows \ {r.row} : work'[y] = work[y]
    BY <1>6 DEF IInv, TypeOK
  <2>7. work'[r.row] = Written(work[r.row], r)
    BY <1>6, <2>1 DEF IInv, TypeOK
  <2>8. r.row \in Aggregates => work[r.row].status # "NONE"
    BY DEF IInv, RequestsKnowRows
  <2>9. \A g \in Aggregates : work'[g].status = "NONE" <=> work[g].status = "NONE"
    BY <2>3, <2>6, <2>7, <2>8 DEF Rows
  <2>10. Unused' = Unused
    BY <2>9 DEF Unused
  <2>11. RequestsKnowRows'
    BY <1>4, <2>9, Constants DEF IInv, RequestsKnowRows, Rows
  <2>12. QED
    BY <1>6, <2>5, <2>10, <2>11 DEF SchedulesNothing
<1>7. QED
  BY <1>5, <1>6 DEF ApiCommit

LEMMA StutterStep == IInv /\ UNCHANGED vars => SchedulesNothing
  BY DEF IInv, TypeOK, vars, SchedulesNothing, RequestsKnowRows, Unused

\* A step schedules nothing or is a child's parent update.
LEMMA StepInv ==
  ASSUME IInv, [Next]_vars
  PROVE  /\ IInv'
         /\ Unused' # Unused => \A k \in kids : work[k].status = "SUCCEEDED"
<1>1. CASE SchedulesNothing
  BY <1>1, SchedulesNothingInv DEF SchedulesNothing
<1>2. CASE \E items \in 1..MaxItems, header \in ClientHeaders : CreateFanOut(items, header)
  BY <1>1, <1>2, CreateFanOutStep
<1>3. CASE \E R \in SUBSET Rows, C \in SUBSET Rows : RunOnce(R, C)
  BY <1>1, <1>3, RunOnceStep
<1>4. CASE \E x \in Rows :
              \/ ObserveCancel(x)
              \/ LoadChildResults(x)
              \/ \E verdict \in {"SUCCEEDED", "FAILED", "CANCELED"} : Finish(x, verdict)
              \/ LoseRun(x)
  BY <1>1, <1>4, ObserveCancelStep, LoadChildResultsStep, FinishStep, LoseRunStep
<1>5. CASE \E post \in posts : HandlePost(post) \/ LosePost(post)
  <2>1. PICK post \in posts : HandlePost(post) \/ LosePost(post)
    BY <1>5
  <2>2. CASE LosePost(post)
    BY <1>1, <2>2, LosePostStep
  <2>3. CASE HandlePost(post)
    <3>1. /\ posts' = posts \ {post}
          /\ UNCHANGED <<kids, thread, api, createdBy, mishaps, retried>>
          /\ PostChild(post) \/ PostAggregate(post)
      BY <2>3 DEF HandlePost
    <3>2. CASE PostChild(post)
      BY <3>1, <3>2, PostChildStep
    <3>3. CASE PostAggregate(post)
      BY <1>1, <3>1, <3>3, PostAggregateStep
    <3>4. QED
      BY <3>1, <3>2, <3>3
  <2>4. QED
    BY <2>1, <2>2, <2>3
<1>6. CASE \E c \in Clients :
              \/ \E x \in Rows \cup {Parent} : CancelRead(c, x) \/ RetryRead(c, x)
              \/ ApiCommit(c)
  BY <1>1, <1>6, CancelReadStep, RetryReadStep, ApiCommitStep
<1>7. CASE UNCHANGED vars
  BY <1>1, <1>7, StutterStep
<1>8. QED
  BY <1>2, <1>3, <1>4, <1>5, <1>6, <1>7 DEF Next, Idle

THEOREM Invariance == Spec => []IInv
<1>1. IInv /\ [Next]_vars => IInv'
  BY StepInv
<1>2. QED
  BY <1>1, InitInv, PTL DEF Spec

-----------------------------------------------------------------------------
(* The theorems.                                                           *)

\* Types of the parent, its work, the executions and the requests; the counters
\* of the parent never exceed the children it can have (refresh_parent_state).
THEOREM TypeCorrect == Spec => []TypeOK
<1>1. IInv => TypeOK
  BY DEF IInv
<1>2. QED
  BY <1>1, Invariance, PTL

\* However parent updates of children, retries, cancels and crashes cross, a
\* batch gets one aggregate task at most, and its flag tells whether it has one
\* (schedule_aggregate_task_if_ready).
THEOREM OneAggregate == Spec => []AtMostOneAggregate
<1>1. IInv => AtMostOneAggregate
  BY DEF IInv
<1>2. QED
  BY <1>1, Invariance, PTL

\* At the moment an aggregate task comes into being, all children are SUCCEEDED
\* (schedule_aggregate_task_if_ready on counters refreshed in its transaction).
THEOREM AggregateComesLast == Spec => AggregateAfterAll
<1>1. IInv /\ [Next]_vars =>
        [Unused' # Unused => \A k \in kids : work[k].status = "SUCCEEDED"]_vars
  BY StepInv
<1>2. QED
  BY <1>1, Invariance, PTL DEF Spec, AggregateAfterAll

-----------------------------------------------------------------------------
(* The counters of the parent.  They settle if no parent update is lost and *)
(* no request cancels a child: neither refreshes the parent.                *)

Undisturbed == "lost_post" \notin Faults /\ "cancel_work" \notin Requests

\* The counters of p are those of the children in rows.
Agrees(p, rows) ==
    /\ p.total = Cardinality(kids)
    /\ p.succeeded = InStatus(rows, {"SUCCEEDED"})
    /\ p.failed = InStatus(rows, {"FAILED", "CANCELED", "DEAD"})
    /\ p.running = InStatus(rows, {"RUNNING"})

\* Counters that are not those of the children will be: by the parent update of
\* a verdict or by the claim of a child.
AgreesOrDue ==
    \/ Agrees(parent, work)
    \/ \E post \in posts : post.row \in kids
    \/ \E k \in kids : work[k].status = "PENDING"

\* Requests on children and aggregates are retries.
RowsAreRetried ==
    \A c \in Clients : api[c].row \in Rows => api[c].op = "retry" /\ "status" \in api[c].columns

CInv == AgreesOrDue /\ RowsAreRetried

LEMMA SameCount ==
  ASSUME NEW rows1, NEW rows2, NEW S, \A k \in kids : rows1[k].status = rows2[k].status
  PROVE  InStatus(rows1, S) = InStatus(rows2, S)
<1>1. {x \in kids : rows1[x].status \in S} = {x \in kids : rows2[x].status \in S}
  OBVIOUS
<1>2. QED
  BY <1>1 DEF InStatus

LEMMA SameAgreement ==
  ASSUME NEW p, NEW rows1, NEW rows2, \A k \in kids : rows1[k].status = rows2[k].status,
         Agrees(p, rows1)
  PROVE  Agrees(p, rows2)
<1>1. \A S : InStatus(rows1, S) = InStatus(rows2, S)
  BY SameCount
<1>2. QED
  BY <1>1 DEF Agrees

LEMMA CountedAgrees ==
  ASSUME TypeOK, NEW p \in ParentRow, NEW rows
  PROVE  Agrees(Counted(p, rows), rows)
  BY DEF Agrees, Counted, ParentRow

LEMMA RefreshedAgrees ==
  ASSUME TypeOK, NEW p \in ParentRow, NEW rows
  PROVE  Agrees(Refreshed(p, rows), rows)
<1> DEFINE c == Counted(p, rows)
<1>1. c \in ParentRow /\ Agrees(c, rows)
  BY CountedType, CountedAgrees
<1>2. Refreshed(p, rows) = [c EXCEPT !.status = RefreshedStatus(c)]
  BY DEF Refreshed
<1> HIDE DEF c
<1>3. QED
  BY <1>1, <1>2 DEF Agrees, ParentRow

\* Agreement in the next state, of a step that creates no children.
LEMMA AgreesNext ==
  ASSUME kids' = kids, Agrees(parent', work')
  PROVE  Agrees(parent, work)'
  BY DEF Agrees, InStatus

\* A claim or recovery of children leaves the parent refreshed; one of other
\* rows leaves parent and children alone.
LEMMA RunOnceCounts ==
  ASSUME TypeOK, NEW R \in SUBSET Rows, NEW C \in SUBSET Rows, RunOnce(R, C)
  PROVE  \/ Agrees(parent', work')
         \/ parent' = parent /\ \A k \in kids : work'[k] = work[k]
<1> DEFINE recovered == [x \in Rows |-> IF x \in R THEN [work[x] EXCEPT !.status = "PENDING"]
                                        ELSE work[x]]
           claimed == [x \in Rows |-> IF x \in C
                          THEN [status |-> "RUNNING", cancel |-> FALSE,
                                attempt_no |-> work[x].attempt_no + 1]
                          ELSE recovered[x]]
           first == RefreshedFor(R, parent, recovered)
<1>1. work' = claimed /\ parent' = RefreshedFor(C, first, claimed)
  BY DEF RunOnce
<1>2. kids \subseteq Rows
  BY DEF TypeOK, Rows
<1>3. \A x \in Rows : x \notin C => claimed[x] = recovered[x]
  OBVIOUS
<1>4. \A x \in Rows : x \notin R => recovered[x] = work[x]
  OBVIOUS
<1> HIDE DEF recovered, claimed
<1>5. first \in ParentRow
  BY RefreshedForType DEF TypeOK
<1>6. CASE C \cap kids # {}
  BY <1>1, <1>5, <1>6, RefreshedAgrees DEF RefreshedFor
<1>7. CASE C \cap kids = {} /\ R \cap kids # {}
  <2>1. first = Refreshed(parent, recovered) /\ parent' = first
    BY <1>1, <1>7 DEF RefreshedFor
  <2>2. Agrees(first, recovered)
    BY <2>1, RefreshedAgrees DEF TypeOK
  <2>3. \A k \in kids : recovered[k].status = claimed[k].status
    BY <1>2, <1>3, <1>7
  <2> HIDE DEF first
  <2>4. Agrees(first, claimed)
    BY <2>2, <2>3, SameAgreement
  <2>5. QED
    BY <1>1, <2>1, <2>4
<1>8. CASE C \cap kids = {} /\ R \cap kids = {}
  <2>1. parent' = parent
    BY <1>1, <1>8 DEF RefreshedFor
  <2>2. \A k \in kids : work'[k] = work[k]
    BY <1>1, <1>2, <1>3, <1>4, <1>8
  <2>3. QED
    BY <2>1, <2>2
<1>9. QED
  BY <1>6, <1>7, <1>8

LEMMA CInit == Init => CInv
<1> SUFFICES ASSUME Init PROVE CInv
  OBVIOUS
<1>1. \A S : InStatus(work, S) = 0
  BY FS_EmptySet DEF Init, InStatus
<1>2. Agrees(parent, work)
  BY <1>1, FS_EmptySet DEF Init, Agrees, NoParent
<1>3. RowsAreRetried
  BY Constants DEF Init, RowsAreRetried, NoRequest
<1>4. QED
  BY <1>2, <1>3 DEF CInv, AgreesOrDue

\* A step that leaves the children, the counters and what is due.
LEMMA AgreesKept ==
  ASSUME AgreesOrDue, kids' = kids, posts \subseteq posts',
         \A k \in kids : work'[k].status = work[k].status,
         /\ parent'.total = parent.total /\ parent'.succeeded = parent.succeeded
         /\ parent'.failed = parent.failed /\ parent'.running = parent.running
  PROVE  AgreesOrDue'
<1>1. CASE Agrees(parent, work)
  <2>1. Agrees(parent', work)
    BY <1>1 DEF Agrees
  <2>2. Agrees(parent', work')
    BY <2>1, SameAgreement
  <2>3. QED
    BY <2>2, AgreesNext DEF AgreesOrDue
<1>2. CASE \E post \in posts : post.row \in kids
  BY <1>2 DEF AgreesOrDue
<1>3. CASE \E k \in kids : work[k].status = "PENDING"
  BY <1>3 DEF AgreesOrDue
<1>4. QED
  BY <1>1, <1>2, <1>3 DEF AgreesOrDue

LEMMA CreateFanOutCounts ==
  ASSUME IInv, NEW items \in 1..MaxItems, NEW header \in ClientHeaders, CreateFanOut(items, header)
  PROVE  /\ kids' # {}
         /\ \A k \in kids' : work'[k] = NewWork
         /\ parent' = [parent EXCEPT !.status = "PARTIALLY_RUNNING", !.total = Cardinality(kids')]
<1> DEFINE n == ShardCount(items)
<1>1. items + ShardSize - 1 >= ShardSize /\ items + ShardSize - 1 \in Nat /\ ShardSize \in Nat /\ ShardSize > 0
  BY Constants
<1>2. n \in Nat /\ n >= 1
  <2>1. \A a, b \in Nat : b > 0 /\ a >= b => a \div b \in Nat /\ a \div b >= 1
    OBVIOUS
  <2>2. QED
    BY <1>1, <2>1 DEF ShardCount
<1>3. /\ kids' = 1..n /\ n <= MaxChildren
      /\ parent' = [parent EXCEPT !.status = "PARTIALLY_RUNNING", !.total = n]
      /\ work' = [x \in Rows |-> IF x \in kids' THEN NewWork ELSE work[x]]
  BY DEF CreateFanOut
<1> HIDE DEF n
<1>4. 1 \in kids' /\ kids' \subseteq Rows
  BY <1>2, <1>3, Constants DEF Rows, Children
<1>5. Cardinality(kids') = n
  <2>1. Cardinality(1..n) = IF 1 <= n THEN n - 1 + 1 ELSE 0
    BY <1>2, FS_Interval
  <2>2. QED
    BY <1>2, <1>3, <2>1
<1>6. QED
  BY <1>3, <1>4, <1>5

\* Every step but a lost parent update and a retry leaves the counters in
\* agreement or somebody to bring them there.
LEMMA CStep ==
  ASSUME Undisturbed, IInv, CInv, [Next]_vars
  PROVE  CInv'
<1> USE DEF CInv
<1>0. TypeOK /\ kids \subseteq Rows /\ kids \cap Aggregates = {}
  BY Constants DEF IInv, TypeOK, Rows
<1>1. ASSUME NEW items \in 1..MaxItems, NEW header \in ClientHeaders, CreateFanOut(items, header)
      PROVE  CInv'
  <2>1. kids' # {} /\ \A k \in kids' : work'[k].status = "PENDING"
    BY <1>1, CreateFanOutCounts DEF NewWork, NoRow
  <2>2. RowsAreRetried'
    BY <1>1 DEF CreateFanOut, RowsAreRetried
  <2>3. QED
    BY <2>1, <2>2 DEF AgreesOrDue
<1>2. ASSUME NEW R \in SUBSET Rows, NEW C \in SUBSET Rows, RunOnce(R, C)
      PROVE  CInv'
  <2>1. UNCHANGED <<kids, posts, api>>
    BY <1>2 DEF RunOnce
  <2>2. RowsAreRetried'
    BY <2>1 DEF RowsAreRetried
  <2>3. CASE Agrees(parent', work')
    BY <2>1, <2>2, <2>3, AgreesNext DEF AgreesOrDue
  <2>4. CASE parent' = parent /\ \A k \in kids : work'[k] = work[k]
    BY <2>1, <2>2, <2>4, AgreesKept
  <2>5. QED
    BY <1>0, <1>2, <2>3, <2>4, RunOnceCounts
<1>3. ASSUME NEW x \in Rows, ObserveCancel(x) \/ LoadChildResults(x) \/ LoseRun(x)
      PROVE  CInv'
  <2>1. UNCHANGED <<parent, kids, work, posts, api>>
    BY <1>3 DEF ObserveCancel, LoadChildResults, LoseRun
  <2>2. QED
    BY <2>1, AgreesKept DEF RowsAreRetried
<1>4. ASSUME NEW x \in Rows, NEW verdict \in {"SUCCEEDED", "FAILED", "CANCELED"}, Finish(x, verdict)
      PROVE  CInv'
  <2>1. UNCHANGED <<parent, kids, api>>
    BY <1>4 DEF Finish
  <2>2. RowsAreRetried'
    BY <2>1 DEF RowsAreRetried
  <2>3. CASE UNCHANGED <<work, posts>>
    BY <2>1, <2>2, <2>3, AgreesKept
  <2>4. CASE /\ work' = [work EXCEPT ![x].status = verdict]
             /\ posts' = posts \cup {[row |-> x, attempt_no |-> work[x].attempt_no,
                                      verdict |-> verdict, covers |-> thread[x].covers]}
    <3>1. CASE x \in kids
      <4> DEFINE new == [row |-> x, attempt_no |-> work[x].attempt_no,
                         verdict |-> verdict, covers |-> thread[x].covers]
      <4>1. new \in posts' /\ new.row \in kids'
        BY <2>1, <2>4, <3>1
      <4>2. QED
        BY <2>2, <4>1 DEF AgreesOrDue
    <3>2. CASE x \notin kids
      <4>1. \A k \in kids : work'[k] = work[k]
        BY <1>0, <2>4, <3>2 DEF TypeOK
      <4>2. QED
        BY <2>1, <2>2, <2>4, <4>1, AgreesKept
    <3>3. QED
      BY <3>1, <3>2
  <2>5. QED
    BY <1>4, <2>3, <2>4 DEF Finish
<1>5. ASSUME NEW post \in posts, HandlePost(post)
      PROVE  CInv'
  <2>1. posts' = posts \ {post} /\ UNCHANGED <<kids, api>>
    BY <1>5 DEF HandlePost
  <2>2. RowsAreRetried'
    BY <2>1 DEF RowsAreRetried
  <2>3. Agrees(parent', work')
    <3>1. CASE PostChild(post)
      <4> DEFINE p == Refreshed(parent, work)
      <4>1. p \in ParentRow /\ Agrees(p, work)
        BY <1>0, RefreshedType, RefreshedAgrees DEF TypeOK
      <4>2. CASE parent' = p /\ UNCHANGED work
        BY <4>1, <4>2
      <4>3. CASE \E g \in Unused :
                    /\ work' = [work EXCEPT ![g] = NewWork]
                    /\ parent' = [p EXCEPT !.status = "AGGREGATING", !.dispatched = TRUE]
        <5>1. PICK g \in Unused :
                    /\ work' = [work EXCEPT ![g] = NewWork]
                    /\ parent' = [p EXCEPT !.status = "AGGREGATING", !.dispatched = TRUE]
          BY <4>3
        <5> HIDE DEF p
        <5>2. \A k \in kids : work[k].status = work'[k].status
          BY <1>0, <5>1 DEF TypeOK, Unused
        <5>3. Agrees(parent', work)
          BY <4>1, <5>1 DEF Agrees, ParentRow
        <5>4. QED
          BY <5>2, <5>3, SameAgreement
      <4>4. QED
        BY <3>1, <4>2, <4>3 DEF PostChild
    <3>2. CASE PostAggregate(post)
      <4> DEFINE c == Counted(parent, work)
      <4>1. c \in ParentRow /\ Agrees(c, work)
        BY <1>0, CountedType, CountedAgrees DEF TypeOK
      <4>2. work' = work /\ parent' = [c EXCEPT !.status = post.verdict,
                                !.covers = IF post.verdict = "SUCCEEDED" THEN post.covers ELSE @]
        BY <3>2 DEF PostAggregate
      <4> HIDE DEF c
      <4>3. QED
        BY <4>1, <4>2 DEF Agrees, ParentRow
    <3>3. QED
      BY <1>5, <3>1, <3>2 DEF HandlePost
  <2>4. QED
    BY <2>1, <2>2, <2>3, AgreesNext DEF AgreesOrDue
<1>6. ASSUME NEW post \in posts, LosePost(post)
      PROVE  CInv'
  BY <1>6 DEF LosePost, Mishap, Undisturbed
<1>7. ASSUME NEW c \in Clients, NEW x \in Rows \cup {Parent}, CancelRead(c, x) \/ RetryRead(c, x)
      PROVE  CInv'
  <2>1. UNCHANGED <<parent, kids, work, posts>>
    BY <1>7 DEF CancelRead, RetryRead, Open
  <2>2. AgreesOrDue'
    BY <2>1, AgreesKept
  <2>3. RowsAreRetried'
    <3>1. CASE CancelRead(c, x)
      <4>1. x = Parent /\ api' = [api EXCEPT ![c] = [op |-> "cancel", row |-> x, columns |-> CancelColumns(x)]]
        BY <3>1 DEF CancelRead, Open, Undisturbed
      <4>2. QED
        BY <1>0, <4>1, Constants DEF RowsAreRetried, TypeOK
    <3>2. CASE RetryRead(c, x)
      <4>1. /\ RetryColumns(x) # {}
            /\ api' = [api EXCEPT ![c] = [op |-> "retry", row |-> x, columns |-> RetryColumns(x)]]
        BY <3>2 DEF RetryRead, Open
      <4>2. "status" \in RetryColumns(x)
        BY <4>1 DEF RetryColumns
      <4>3. QED
        BY <1>0, <4>1, <4>2 DEF RowsAreRetried, TypeOK
    <3>3. QED
      BY <1>7, <3>1, <3>2
  <2>4. QED
    BY <2>2, <2>3
<1>8. ASSUME NEW c \in Clients, ApiCommit(c)
      PROVE  CInv'
  <2> DEFINE r == api[c]
  <2>1. /\ r \in Request /\ api' = [api EXCEPT ![c] = NoRequest]
        /\ UNCHANGED <<kids, posts>>
    BY <1>0, <1>8 DEF ApiCommit, TypeOK
  <2>2. RowsAreRetried'
    BY <1>0, <2>1, Constants DEF RowsAreRetried, TypeOK, NoRequest
  <2>3. CASE /\ r.row = Parent /\ UNCHANGED work
             /\ parent' = [Written(parent, r) EXCEPT
                             !.covers = IF "result" \in r.columns THEN {} ELSE @]
    <3>1. /\ parent'.total = parent.total /\ parent'.succeeded = parent.succeeded
          /\ parent'.failed = parent.failed /\ parent'.running = parent.running
      BY <1>0, <2>3 DEF Written, TypeOK, ParentRow
    <3>2. QED
      BY <2>1, <2>2, <2>3, <3>1, AgreesKept
  <2>4. CASE r.row # Parent /\ work' = [work EXCEPT ![r.row] = Written(@, r)] /\ UNCHANGED parent
    <3>1. r.row \in Rows
      BY <2>1, <2>4 DEF Request
    <3>2. r.op = "retry" /\ "status" \in r.columns
      BY <3>1 DEF RowsAreRetried
    <3>3. work'[r.row] = Written(work[r.row], r) /\ work[r.row] \in WorkRow
      BY <1>0, <2>4, <3>1 DEF TypeOK
    <3>4. work'[r.row].status = "PENDING"
      BY <3>2, <3>3 DEF Written, WorkRow
    <3>5. CASE r.row \in kids
      BY <2>1, <2>2, <3>4, <3>5 DEF AgreesOrDue
    <3>6. CASE r.row \notin kids
      <4>1. \A k \in kids : work'[k] = work[k]
        BY <1>0, <2>4, <3>6 DEF TypeOK
      <4>2. QED
        BY <2>1, <2>2, <2>4, <4>1, AgreesKept
    <3>7. QED
      BY <3>5, <3>6
  <2>5. QED
    BY <1>8, <2>3, <2>4 DEF ApiCommit
<1>9. CASE UNCHANGED vars
  BY <1>9, AgreesKept DEF vars, RowsAreRetried
<1>10. QED
  BY <1>1, <1>2, <1>3, <1>4, <1>5, <1>6, <1>7, <1>8, <1>9 DEF Next, Idle

LEMMA AtRest ==
  ASSUME TypeOK, CInv
  PROVE  CountersSettle
<1> SUFFICES ASSUME ~Outstanding
             PROVE  /\ parent.succeeded = InStatus(work, {"SUCCEEDED"})
                    /\ parent.failed = InStatus(work, {"FAILED", "CANCELED"})
                    /\ parent.running = 0
  BY DEF CountersSettle
<1>1. kids \subseteq Rows
  BY DEF TypeOK, Rows
<1>2. Agrees(parent, work)
  BY <1>1 DEF CInv, AgreesOrDue, Outstanding
<1>3. InStatus(work, {"FAILED", "CANCELED", "DEAD"}) = InStatus(work, {"FAILED", "CANCELED"})
  <2>1. {x \in kids : work[x].status \in {"FAILED", "CANCELED", "DEAD"}}
          = {x \in kids : work[x].status \in {"FAILED", "CANCELED"}}
    BY <1>1 DEF TypeOK, WorkRow, RowStatus
  <2>2. QED
    BY <2>1 DEF InStatus
<1>4. InStatus(work, {"RUNNING"}) = 0
  <2>1. {x \in kids : work[x].status \in {"RUNNING"}} = {}
    BY <1>1 DEF Outstanding
  <2>2. QED
    BY <2>1, FS_EmptySet DEF InStatus
<1>5. QED
  BY <1>2, <1>3, <1>4 DEF Agrees

\* When a batch is at rest its counters are those of its children: every step
\* that moves a child refreshes the parent, now or in an update that is due
\* (refresh_parent_state and its callers), unless a parent update is lost or a
\* request cancels a child.  Any number of clients, any other request or fault.
THEOREM CountersAreTrue ==
  ASSUME Undisturbed
  PROVE  Spec => []CountersSettle
<1>1. Init => CInv
  BY CInit
<1>2. IInv /\ CInv /\ [Next]_vars => CInv'
  BY CStep
<1>3. IInv /\ CInv => CountersSettle
  BY AtRest DEF IInv
<1>4. QED
  BY <1>1, <1>2, <1>3, Invariance, PTL DEF Spec

-----------------------------------------------------------------------------
(* What rows, requests and parent updates there are, in any configuration. *)

BeforeTheBatch ==
    parent.status = "NONE" => kids = {} /\ posts = {} /\ ~parent.dispatched /\ parent.failed = 0

KidsExist ==
    /\ parent.status # "NONE" => kids # {}
    /\ \A k \in Children : work[k].status # "NONE" <=> k \in kids

RequestsFoundRows ==
    \A c \in Clients : /\ api[c].row = Parent => parent.status # "NONE"
                       /\ api[c].row \in Rows => work[api[c].row].status # "NONE"

BInv == BeforeTheBatch /\ KidsExist /\ RequestsFoundRows

LEMMA BInit == Init => BInv
<1> SUFFICES ASSUME Init PROVE BInv
  OBVIOUS
<1>1. BeforeTheBatch /\ KidsExist
  BY DEF Init, BeforeTheBatch, KidsExist, NoParent, NoRow, Rows
<1>2. RequestsFoundRows
  BY Constants DEF Init, RequestsFoundRows, NoRequest
<1>3. QED
  BY <1>1, <1>2 DEF BInv

\* What a refresh does to the status of a parent.
LEMMA RefreshedKeeps ==
  ASSUME TypeOK, NEW p \in ParentRow, NEW rows
  PROVE  /\ Refreshed(p, rows).status = "SUCCEEDED" <=> p.status = "SUCCEEDED"
         /\ Refreshed(p, rows).status = "NONE" => p.status = "NONE"
         /\ Refreshed(p, rows).status \in {"CANCELED", "PENDING"} => Refreshed(p, rows).status = p.status
         /\ Refreshed(p, rows).covers = p.covers
<1> DEFINE c == Counted(p, rows)
<1>1. c \in ParentRow /\ c.status = p.status /\ c.covers = p.covers
  BY CountedType DEF Counted, ParentRow
<1>2. Refreshed(p, rows) = [c EXCEPT !.status = RefreshedStatus(c)]
  BY DEF Refreshed
<1> HIDE DEF c
<1>3. Refreshed(p, rows).status = RefreshedStatus(c) /\ Refreshed(p, rows).covers = c.covers
  BY <1>1, <1>2 DEF ParentRow
<1>4. /\ RefreshedStatus(c) = "SUCCEEDED" <=> c.status = "SUCCEEDED"
      /\ RefreshedStatus(c) = "NONE" => c.status = "NONE"
      /\ RefreshedStatus(c) \in {"CANCELED", "PENDING"} => RefreshedStatus(c) = c.status
  BY DEF RefreshedStatus
<1>5. QED
  BY <1>1, <1>3, <1>4

LEMMA RefreshedForKeeps ==
  ASSUME TypeOK, NEW p \in ParentRow, NEW rows, NEW moved
  PROVE  /\ RefreshedFor(moved, p, rows).status = "SUCCEEDED" <=> p.status = "SUCCEEDED"
         /\ RefreshedFor(moved, p, rows).status = "NONE" => p.status = "NONE"
         /\ RefreshedFor(moved, p, rows).status \in {"CANCELED", "PENDING"} =>
                RefreshedFor(moved, p, rows).status = p.status
         /\ RefreshedFor(moved, p, rows).covers = p.covers
  BY RefreshedKeeps DEF RefreshedFor

LEMMA OneAtMost ==
  ASSUME AtMostOneAggregate, NEW g \in Aggregates, NEW h \in Aggregates,
         work[g].status # "NONE", work[h].status # "NONE"
  PROVE  g = h
<1> SUFFICES ASSUME g # h PROVE FALSE
  OBVIOUS
<1>1. IsFiniteSet(Aggregates \ Unused) /\ {g, h} \subseteq Aggregates \ Unused
  BY Constants, FS_Difference DEF Unused
<1>2. Cardinality({g, h}) <= Cardinality(Aggregates \ Unused)
  BY <1>1, FS_Subset
<1>3. Cardinality({g, h}) = 2
  <2>1. IsFiniteSet({g}) /\ Cardinality({g}) = 1
    BY FS_Singleton
  <2>2. {g, h} = {g} \cup {h} /\ h \notin {g}
    OBVIOUS
  <2>3. QED
    BY <2>1, <2>2, FS_AddElement
<1>4. Cardinality(Aggregates \ Unused) \in Nat
  BY <1>1, FS_CardinalityType
<1>5. QED
  BY <1>2, <1>3, <1>4 DEF AtMostOneAggregate

LEMMA NoneScheduled ==
  ASSUME AtMostOneAggregate
  PROVE  parent.dispatched <=> \E g \in Aggregates : work[g].status # "NONE"
  BY DEF AtMostOneAggregate, Unused

\* A claim or recovery moves rows between PENDING and RUNNING.
LEMMA RunOnceRows ==
  ASSUME TypeOK, NEW R \in SUBSET Rows, NEW C \in SUBSET Rows, RunOnce(R, C)
  PROVE  /\ \A x \in Rows :
               work'[x].status # work[x].status =>
                   /\ work[x].status \in {"PENDING", "RUNNING"}
                   /\ work'[x].status \in {"PENDING", "RUNNING"}
         /\ \E x \in Rows : work[x].status \in {"PENDING", "RUNNING"}
<1> DEFINE recovered == [x \in Rows |-> IF x \in R THEN [work[x] EXCEPT !.status = "PENDING"]
                                        ELSE work[x]]
<1>1. work' = [x \in Rows |-> IF x \in C
                  THEN [status |-> "RUNNING", cancel |-> FALSE,
                        attempt_no |-> work[x].attempt_no + 1]
                  ELSE recovered[x]]
  BY DEF RunOnce
<1>2. /\ \A x \in R : work[x].status = "RUNNING"
      /\ \A x \in C : work[x].status = "PENDING"
      /\ R \cup C # {}
  BY DEF RunOnce
<1>3. \A x \in Rows : /\ x \in R => recovered[x].status = "PENDING"
                      /\ x \notin R => recovered[x] = work[x]
  BY DEF TypeOK, WorkRow
<1> HIDE DEF recovered
<1>4. QED
  BY <1>1, <1>2, <1>3

\* What it does to the parent.
LEMMA RunOnceParent ==
  ASSUME IInv, NEW R \in SUBSET Rows, NEW C \in SUBSET Rows, RunOnce(R, C)
  PROVE  /\ parent' \in ParentRow /\ parent'.dispatched = parent.dispatched
         /\ parent'.status = "SUCCEEDED" <=> parent.status = "SUCCEEDED"
         /\ parent'.status = "NONE" => parent.status = "NONE"
         /\ parent'.status \in {"CANCELED", "PENDING"} => parent'.status = parent.status
         /\ parent'.covers = parent.covers
<1>1. TypeOK /\ parent \in ParentRow
  BY DEF IInv, TypeOK
<1>2. PICK recovered, claimed : parent' = RefreshedFor(C, RefreshedFor(R, parent, recovered), claimed)
  BY DEF RunOnce
<1> DEFINE first == RefreshedFor(R, parent, recovered)
<1>3. /\ first \in ParentRow /\ first.dispatched = parent.dispatched
      /\ first.status = "SUCCEEDED" <=> parent.status = "SUCCEEDED"
      /\ first.status = "NONE" => parent.status = "NONE"
      /\ first.status \in {"CANCELED", "PENDING"} => first.status = parent.status
      /\ first.covers = parent.covers
  BY <1>1, RefreshedForType, RefreshedForKeeps
<1>4. parent' = RefreshedFor(C, first, claimed)
  BY <1>2
<1> HIDE DEF first
<1>5. QED
  BY <1>1, <1>3, <1>4, RefreshedForType, RefreshedForKeeps

\* A row that exists has a batch.
LEMMA RowsHaveBatch ==
  ASSUME IInv, BInv, NEW x \in Rows, work[x].status # "NONE"
  PROVE  parent.status # "NONE"
  BY NoneScheduled DEF IInv, BInv, BeforeTheBatch, KidsExist, Rows

\* Once there is a batch, rows only change their status.
LEMMA BKept ==
  ASSUME BInv, parent.status # "NONE", parent'.status # "NONE", kids' = kids,
         \A x \in Rows : work[x].status # "NONE" => work'[x].status # "NONE",
         \A k \in Children : work'[k].status # "NONE" => work[k].status # "NONE",
         \A c \in Clients : api'[c].row = api[c].row \/ api'[c] = NoRequest
  PROVE  BInv'
<1>1. BeforeTheBatch'
  BY DEF BeforeTheBatch
<1>2. KidsExist'
  BY DEF BInv, KidsExist, Rows
<1>3. RequestsFoundRows'
  BY Constants DEF BInv, RequestsFoundRows, NoRequest
<1>4. QED
  BY <1>1, <1>2, <1>3 DEF BInv

LEMMA BCreateFanOut ==
  ASSUME IInv, BInv, NEW items \in 1..MaxItems, NEW header \in ClientHeaders,
         CreateFanOut(items, header)
  PROVE  BInv' /\ parent'.status = "PARTIALLY_RUNNING" /\ parent'.failed = 0 /\ ~parent'.dispatched
<1>1. TypeOK /\ parent \in ParentRow /\ Children \subseteq Rows
  BY DEF IInv, TypeOK, Rows
<1>2. kids = {} /\ posts = {} /\ ~parent.dispatched /\ parent.failed = 0
  BY DEF CreateFanOut, BInv, BeforeTheBatch
<1>3. /\ kids' # {} /\ \A k \in kids' : work'[k] = NewWork
      /\ parent' = [parent EXCEPT !.status = "PARTIALLY_RUNNING", !.total = Cardinality(kids')]
  BY CreateFanOutCounts
<1>4. parent'.status = "PARTIALLY_RUNNING" /\ parent'.failed = 0 /\ ~parent'.dispatched
  BY <1>1, <1>2, <1>3 DEF ParentRow
<1>5. work' = [x \in Rows |-> IF x \in kids' THEN NewWork ELSE work[x]] /\ api' = api
  BY DEF CreateFanOut
<1>6. BeforeTheBatch'
  BY <1>4 DEF BeforeTheBatch
<1>7. KidsExist'
  BY <1>1, <1>2, <1>3, <1>5 DEF BInv, KidsExist, NewWork, NoRow
<1>8. RequestsFoundRows'
  BY <1>4, <1>5 DEF BInv, RequestsFoundRows, NewWork, NoRow
<1>9. QED
  BY <1>4, <1>6, <1>7, <1>8 DEF BInv

LEMMA BReads ==
  ASSUME IInv, BInv, NEW c \in Clients, NEW x \in Rows \cup {Parent},
         CancelRead(c, x) \/ RetryRead(c, x)
  PROVE  BInv'
<1>1. UNCHANGED <<parent, kids, work, posts>> /\ TypeOK
  BY DEF CancelRead, RetryRead, Open, IInv
<1>2. /\ \A b \in Clients \ {c} : api'[b] = api[b]
      /\ api'[c].row = x /\ RowOf(x).status # "NONE"
  BY <1>1 DEF CancelRead, RetryRead, Open, CancelColumns, RetryColumns, ActiveStatus,
              RetriableStatus, TypeOK
<1>3. RequestsFoundRows'
  BY <1>1, <1>2, Constants DEF BInv, RequestsFoundRows, RowOf
<1>4. QED
  BY <1>1, <1>3 DEF BInv, BeforeTheBatch, KidsExist

LEMMA BApiCommit ==
  ASSUME IInv, BInv, NEW c \in Clients, ApiCommit(c)
  PROVE  BInv'
<1> DEFINE r == api[c]
<1>1. TypeOK /\ parent \in ParentRow /\ Children \subseteq Rows /\ r \in Request
  BY DEF IInv, TypeOK, Rows, ApiCommit
<1>2. /\ \A b \in Clients : api'[b] = api[b] \/ api'[b] = NoRequest
      /\ kids' = kids
  BY <1>1 DEF ApiCommit, TypeOK
<1>3. CASE r.row = Parent
  <2>1. work' = work /\ parent' = [Written(parent, r) EXCEPT
                            !.covers = IF "result" \in r.columns THEN {} ELSE @]
    BY <1>3 DEF ApiCommit
  <2>2. parent'.status \in {parent.status, "CANCELED", "PENDING"}
    BY <1>1, <2>1 DEF Written, ParentRow
  <2>3. parent.status # "NONE"
    BY <1>3 DEF BInv, RequestsFoundRows
  <2>4. QED
    BY <1>2, <2>1, <2>2, <2>3, BKept
<1>4. CASE r.row # Parent
  <2>1. r.row \in Rows
    BY <1>1, <1>4 DEF Request
  <2>2. work[r.row].status # "NONE" /\ parent.status # "NONE"
    BY <2>1, RowsHaveBatch DEF BInv, RequestsFoundRows
  <2>3. parent' = parent /\ work' = [work EXCEPT ![r.row] = Written(@, r)]
    BY <1>4 DEF ApiCommit
  <2>4. work'[r.row] = Written(work[r.row], r) /\ work[r.row] \in WorkRow
        /\ \A y \in Rows \ {r.row} : work'[y] = work[y]
    BY <1>1, <2>1, <2>3 DEF TypeOK
  <2>5. work'[r.row].status \in {work[r.row].status, "CANCELED", "PENDING"}
    BY <2>4 DEF Written, WorkRow
  <2>6. \A x \in Rows : work[x].status # "NONE" <=> work'[x].status # "NONE"
    BY <2>2, <2>4, <2>5
  <2>7. QED
    BY <1>1, <1>2, <2>2, <2>3, <2>6, BKept
<1>5. QED
  BY <1>3, <1>4

LEMMA BHandlePost ==
  ASSUME IInv, BInv, NEW post \in posts, HandlePost(post)
  PROVE  BInv'
<1>1. /\ TypeOK /\ parent \in ParentRow /\ UNCHANGED <<kids, api>>
      /\ Aggregates \subseteq Rows /\ Aggregates \cap Children = {} /\ Children \subseteq Rows
  BY Constants DEF IInv, TypeOK, HandlePost, Rows
<1>2. parent.status # "NONE"
  BY DEF BInv, BeforeTheBatch
<1> DEFINE p == Refreshed(parent, work)
<1>3. p \in ParentRow /\ p.status # "NONE"
  BY <1>1, <1>2, RefreshedType, RefreshedKeeps
<1>4. CASE /\ parent' = p /\ UNCHANGED work
  BY <1>1, <1>2, <1>3, <1>4, BKept
<1>5. CASE \E g \in Unused :
              /\ work' = [work EXCEPT ![g] = NewWork]
              /\ parent' = [p EXCEPT !.status = "AGGREGATING", !.dispatched = TRUE]
  <2> HIDE DEF p
  <2>1. PICK g \in Unused :
              /\ work' = [work EXCEPT ![g] = NewWork]
              /\ parent' = [p EXCEPT !.status = "AGGREGATING", !.dispatched = TRUE]
    BY <1>5
  <2>2. parent'.status = "AGGREGATING"
    BY <1>3, <2>1 DEF ParentRow
  <2>3. work'[g].status = "PENDING" /\ \A y \in Rows \ {g} : work'[y] = work[y]
    BY <1>1, <2>1 DEF TypeOK, Unused, NewWork, NoRow
  <2>4. g \notin Children
    BY <1>1 DEF Unused
  <2>5. QED
    BY <1>1, <1>2, <2>2, <2>3, <2>4, BKept
<1>6. CASE PostAggregate(post)
  <2> DEFINE c == Counted(parent, work)
  <2>1. c \in ParentRow
    BY <1>1, CountedType
  <2>2. /\ work' = work /\ post.verdict \in {"SUCCEEDED", "FAILED"}
        /\ parent' = [c EXCEPT !.status = post.verdict,
                               !.covers = IF post.verdict = "SUCCEEDED" THEN post.covers ELSE @]
    BY <1>6 DEF PostAggregate
  <2> HIDE DEF c
  <2>3. parent'.status # "NONE"
    BY <2>1, <2>2 DEF ParentRow
  <2>4. QED
    BY <1>1, <1>2, <2>2, <2>3, BKept
<1>7. QED
  BY <1>4, <1>5, <1>6 DEF HandlePost, PostChild

LEMMA BStep ==
  ASSUME IInv, BInv, [Next]_vars
  PROVE  BInv'
<1>1. CASE \E items \in 1..MaxItems, header \in ClientHeaders : CreateFanOut(items, header)
  BY <1>1, BCreateFanOut
<1>2. ASSUME NEW R \in SUBSET Rows, NEW C \in SUBSET Rows, RunOnce(R, C)
      PROVE  BInv'
  <2>1. /\ \A x \in Rows : work[x].status # "NONE" <=> work'[x].status # "NONE"
        /\ \E x \in Rows : work[x].status # "NONE"
    BY <1>2, RunOnceRows DEF IInv
  <2>2. parent.status # "NONE" /\ parent'.status # "NONE"
    BY <1>2, <2>1, RowsHaveBatch, RunOnceParent
  <2>3. UNCHANGED <<kids, api>>
    BY <1>2 DEF RunOnce
  <2>4. QED
    BY <2>1, <2>2, <2>3, BKept DEF Rows
<1>3. CASE UNCHANGED <<parent, kids, work, posts, api>>
  BY <1>3 DEF BInv, BeforeTheBatch, KidsExist, RequestsFoundRows
<1>4. ASSUME NEW x \in Rows, NEW verdict \in {"SUCCEEDED", "FAILED", "CANCELED"}, Finish(x, verdict)
      PROVE  BInv'
  <2>1. UNCHANGED <<parent, kids, api>>
    BY <1>4 DEF Finish
  <2>2. CASE UNCHANGED <<work, posts>>
    BY <1>3, <2>1, <2>2
  <2>3. CASE work[x].status = "RUNNING" /\ work' = [work EXCEPT ![x].status = verdict]
    <3>1. work'[x].status = verdict /\ \A y \in Rows \ {x} : work'[y] = work[y]
      BY <2>3 DEF IInv, TypeOK, WorkRow
    <3>2. \A y \in Rows : work[y].status # "NONE" <=> work'[y].status # "NONE"
      BY <2>3, <3>1
    <3>3. parent.status # "NONE"
      BY <2>3, RowsHaveBatch
    <3>4. QED
      BY <2>1, <3>2, <3>3, BKept DEF Rows
  <2>4. QED
    BY <1>4, <2>2, <2>3 DEF Finish
<1>5. ASSUME NEW x \in Rows, ObserveCancel(x) \/ LoadChildResults(x) \/ LoseRun(x)
      PROVE  BInv'
  BY <1>3, <1>5 DEF ObserveCancel, LoadChildResults, LoseRun
<1>6. ASSUME NEW post \in posts, HandlePost(post) \/ LosePost(post)
      PROVE  BInv'
  <2>1. CASE HandlePost(post)
    BY <2>1, BHandlePost
  <2>2. CASE LosePost(post)
    <3>1. parent.status # "NONE" /\ UNCHANGED <<parent, kids, work, api>>
      BY <2>2 DEF LosePost, BInv, BeforeTheBatch
    <3>2. QED
      BY <3>1, BKept
  <2>3. QED
    BY <1>6, <2>1, <2>2
<1>7. CASE \E c \in Clients : \/ \E x \in Rows \cup {Parent} : CancelRead(c, x) \/ RetryRead(c, x)
                              \/ ApiCommit(c)
  BY <1>7, BReads, BApiCommit
<1>8. CASE UNCHANGED vars
  BY <1>3, <1>8 DEF vars
<1>9. QED
  BY <1>1, <1>2, <1>4, <1>5, <1>6, <1>7, <1>8 DEF Next, Idle

-----------------------------------------------------------------------------
(* The success of a batch is final if nobody cancels single rows or retries *)
(* the parent and the aggregate handler does not raise.                     *)

Firm ==
    /\ Requests \cap {"cancel_work", "retry_parent"} = {}
    /\ "aggregate_fails" \notin Faults

\* The parent is neither canceled nor put back.
ParentFirm ==
    /\ parent.status \in {"NONE", "PARTIALLY_RUNNING", "AGGREGATING", "SUCCEEDED", "FAILED"}
    /\ parent.status = "SUCCEEDED" => parent.dispatched

\* Requests flag the parent or retry a child.
RequestsFit ==
    \A c \in Clients : api[c] # NoRequest =>
        \/ api[c].row = Parent /\ api[c].op = "cancel" /\ api[c].columns = {"cancel"}
        \/ api[c].row \in kids /\ api[c].op = "retry" /\ "status" \in api[c].columns

\* The aggregate of a batch succeeds, once.
AggregatesFit ==
    \A g \in Aggregates :
        /\ work[g].status \in {"NONE", "PENDING", "RUNNING", "SUCCEEDED"}
        /\ parent.status = "SUCCEEDED" => work[g].status \in {"NONE", "SUCCEEDED"}

AggregatePosts ==
    \A post \in posts : post.row \in Aggregates =>
        /\ post.verdict = "SUCCEEDED"
        /\ work[post.row].status = "SUCCEEDED"
        /\ parent.status # "SUCCEEDED"
        /\ \A other \in posts : other.row \in Aggregates => other = post

SInv == ParentFirm /\ RequestsFit /\ AggregatesFit /\ AggregatePosts

SuccessKept == parent.status = "SUCCEEDED" =>
                   parent'.status = "SUCCEEDED" /\ parent'.covers = parent.covers

LEMMA SInit == Init => SInv
<1> SUFFICES ASSUME Init PROVE SInv
  OBVIOUS
<1>1. /\ kids = {} /\ posts = {} /\ parent = NoParent
      /\ \A x \in Rows : work[x].status = "NONE"
      /\ \A c \in Clients : api[c] = NoRequest
  BY DEF Init, NoRow
<1>2. QED
  BY <1>1 DEF SInv, ParentFirm, RequestsFit, AggregatesFit, AggregatePosts, NoParent, Rows

\* A step that leaves rows, parent and parent updates, or takes one of these.
LEMMA SQuiet ==
  ASSUME SInv, RequestsFit', UNCHANGED <<parent, work>>, posts' \subseteq posts
  PROVE  SInv'
  BY DEF SInv, ParentFirm, AggregatesFit, AggregatePosts

LEMMA SCreateFanOut ==
  ASSUME IInv, BInv, SInv,
         NEW items \in 1..MaxItems, NEW header \in ClientHeaders, CreateFanOut(items, header)
  PROVE  SInv' /\ SuccessKept
<1>1. parent.status = "NONE" /\ kids = {} /\ posts' = {} /\ api' = api
  BY DEF CreateFanOut, BInv, BeforeTheBatch
<1>2. parent'.status = "PARTIALLY_RUNNING"
  BY BCreateFanOut
<1>3. \A g \in Aggregates : work'[g] = work[g]
  <2>1. kids' \subseteq Children
    BY CreateFanOutStep DEF SchedulesNothing, TypeOK
  <2>2. QED
    BY <2>1, Constants DEF CreateFanOut, Rows
<1>4. RequestsFit'
  BY <1>1 DEF SInv, RequestsFit
<1>5. QED
  BY <1>1, <1>2, <1>3, <1>4 DEF SInv, ParentFirm, AggregatesFit, AggregatePosts, SuccessKept

\* A refresh leaves a parent firm.
LEMMA RefreshedFirm ==
  ASSUME TypeOK, NEW p \in ParentRow, NEW rows,
         p.status \in {"NONE", "PARTIALLY_RUNNING", "AGGREGATING", "SUCCEEDED", "FAILED"}
  PROVE  Refreshed(p, rows).status \in
             {"NONE", "PARTIALLY_RUNNING", "AGGREGATING", "SUCCEEDED", "FAILED"}
  BY RefreshedType, RefreshedKeeps DEF ParentRow, ParentStatus

LEMMA SRunOnce ==
  ASSUME IInv, SInv, NEW R \in SUBSET Rows, NEW C \in SUBSET Rows, RunOnce(R, C)
  PROVE  SInv' /\ SuccessKept
<1>1. TypeOK /\ Aggregates \subseteq Rows
  BY DEF IInv, Rows
<1>2. UNCHANGED <<kids, posts, api>>
  BY DEF RunOnce
<1>3. \A x \in Rows :
         work'[x].status # work[x].status =>
             /\ work[x].status \in {"PENDING", "RUNNING"}
             /\ work'[x].status \in {"PENDING", "RUNNING"}
  BY <1>1, RunOnceRows
<1>4. /\ parent' \in ParentRow /\ parent'.dispatched = parent.dispatched
      /\ parent'.status = "SUCCEEDED" <=> parent.status = "SUCCEEDED"
      /\ parent'.status \in {"CANCELED", "PENDING"} => parent'.status = parent.status
      /\ parent'.covers = parent.covers
  BY RunOnceParent
<1>5. ParentFirm' /\ RequestsFit'
  BY <1>2, <1>4 DEF SInv, ParentFirm, RequestsFit, ParentRow, ParentStatus
<1>6. AggregatesFit'
  <2>1. ASSUME NEW g \in Aggregates
        PROVE  /\ work'[g].status \in {"NONE", "PENDING", "RUNNING", "SUCCEEDED"}
               /\ parent'.status = "SUCCEEDED" => work'[g].status \in {"NONE", "SUCCEEDED"}
    BY <1>1, <1>3, <1>4 DEF SInv, AggregatesFit
  <2>2. QED
    BY <2>1 DEF AggregatesFit
<1>7. AggregatePosts'
  <2>1. \A post \in posts : post.row \in Rows
    BY <1>1 DEF TypeOK, Post
  <2>2. QED
    BY <1>2, <1>3, <1>4, <2>1 DEF SInv, AggregatePosts
<1>8. QED
  BY <1>4, <1>5, <1>6, <1>7 DEF SInv, SuccessKept

LEMMA SFinish ==
  ASSUME Firm, IInv, SInv, NEW x \in Rows, NEW verdict \in {"SUCCEEDED", "FAILED", "CANCELED"},
         Finish(x, verdict)
  PROVE  SInv'
<1>1. TypeOK /\ AtMostOneAggregate /\ kids \cap Aggregates = {} /\ Aggregates \subseteq Rows
  BY Constants DEF IInv, TypeOK, Rows
<1>2. UNCHANGED <<parent, kids, api>>
  BY DEF Finish
<1>3. RequestsFit'
  BY <1>2 DEF SInv, RequestsFit
<1>4. CASE UNCHANGED <<work, posts>>
  BY <1>2, <1>3, <1>4, SQuiet
<1> DEFINE new == [row |-> x, attempt_no |-> work[x].attempt_no,
                   verdict |-> verdict, covers |-> thread[x].covers]
<1>5. CASE /\ work[x].status = "RUNNING"
           /\ work' = [work EXCEPT ![x].status = verdict]
           /\ posts' = posts \cup {new}
  <2>1. /\ work'[x].status = verdict
        /\ \A y \in Rows \ {x} : work'[y] = work[y]
    BY <1>1, <1>5 DEF TypeOK, WorkRow
  <2>2. \A post \in posts : post.row \in Rows
    BY <1>1 DEF TypeOK, Post
  <2>3. x \in Aggregates => verdict = "SUCCEEDED" /\ parent.status # "SUCCEEDED"
    BY <1>1, <1>5 DEF Finish, MayEnd, Firm, SInv, AggregatesFit
  <2>4. \A post \in posts : post.row \in Aggregates => x \notin Aggregates
    BY <1>1, <1>5, OneAtMost DEF SInv, AggregatePosts
  <2>5. new.row = x /\ new.verdict = verdict /\ \A post \in posts' : post \in posts \/ post = new
    BY <1>5
  <2> HIDE DEF new
  <2>6. AggregatesFit'
    <3>1. ASSUME NEW g \in Aggregates
          PROVE  /\ work'[g].status \in {"NONE", "PENDING", "RUNNING", "SUCCEEDED"}
                 /\ parent'.status = "SUCCEEDED" => work'[g].status \in {"NONE", "SUCCEEDED"}
      <4>1. CASE g = x
        BY <1>2, <2>1, <2>3, <4>1
      <4>2. CASE g # x
        BY <1>1, <1>2, <2>1, <4>2 DEF SInv, AggregatesFit
      <4>3. QED
        BY <4>1, <4>2
    <3>2. QED
      BY <3>1 DEF AggregatesFit
  <2>7. AggregatePosts'
    <3>1. ASSUME NEW post \in posts', post.row \in Aggregates
          PROVE  /\ post.verdict = "SUCCEEDED"
                 /\ work'[post.row].status = "SUCCEEDED"
                 /\ parent'.status # "SUCCEEDED"
                 /\ \A other \in posts' : other.row \in Aggregates => other = post
      <4>1. CASE x \in Aggregates
        <5>1. post = new /\ \A other \in posts' : other.row \in Aggregates => other = new
          BY <2>4, <2>5, <3>1, <4>1
        <5>2. QED
          BY <1>2, <2>1, <2>3, <2>5, <4>1, <5>1
      <4>2. CASE x \notin Aggregates
        <5>1. \A other \in posts' : other.row \in Aggregates => other \in posts
          BY <2>5, <4>2
        <5>2. post \in posts /\ post.row # x
          BY <3>1, <4>2, <5>1
        <5>3. work'[post.row] = work[post.row]
          BY <2>1, <2>2, <5>2
        <5>4. QED
          BY <1>2, <3>1, <5>1, <5>2, <5>3 DEF SInv, AggregatePosts
      <4>3. QED
        BY <4>1, <4>2
    <3>2. QED
      BY <3>1 DEF AggregatePosts
  <2>8. QED
    BY <1>2, <1>3, <2>6, <2>7 DEF SInv, ParentFirm
<1>6. QED
  BY <1>4, <1>5 DEF Finish

LEMMA SPostChild ==
  ASSUME IInv, SInv, NEW post \in posts, PostChild(post), posts' \subseteq posts, UNCHANGED <<kids, api>>
  PROVE  SInv' /\ SuccessKept
<1> DEFINE p == Refreshed(parent, work)
<1>1. TypeOK /\ AtMostOneAggregate /\ parent \in ParentRow /\ Aggregates \subseteq Rows
  BY DEF IInv, TypeOK, Rows
<1>2. /\ p \in ParentRow /\ p.dispatched = parent.dispatched
      /\ p.status = "SUCCEEDED" <=> parent.status = "SUCCEEDED"
      /\ p.status \in {"NONE", "PARTIALLY_RUNNING", "AGGREGATING", "SUCCEEDED", "FAILED"}
      /\ p.covers = parent.covers
  BY <1>1, RefreshedType, RefreshedKeeps, RefreshedFirm DEF SInv, ParentFirm
<1>3. RequestsFit'
  BY DEF SInv, RequestsFit
<1>4. CASE /\ AggregateReady(p)
           /\ \E g \in Unused :
                 /\ work' = [work EXCEPT ![g] = NewWork]
                 /\ parent' = [p EXCEPT !.status = "AGGREGATING", !.dispatched = TRUE]
  <2>1. ~parent.dispatched
    BY <1>2, <1>4 DEF AggregateReady
  <2> HIDE DEF p
  <2>2. PICK g \in Unused :
                 /\ work' = [work EXCEPT ![g] = NewWork]
                 /\ parent' = [p EXCEPT !.status = "AGGREGATING", !.dispatched = TRUE]
    BY <1>4
  <2>3. parent'.status = "AGGREGATING" /\ parent.status # "SUCCEEDED"
    BY <1>2, <2>1, <2>2 DEF ParentRow, SInv, ParentFirm
  <2>4. \A h \in Aggregates : work[h].status = "NONE"
    BY <1>1, <2>1, NoneScheduled
  <2>5. \A h \in Aggregates : work'[h].status \in {"NONE", "PENDING"}
    BY <1>1, <2>2, <2>4 DEF TypeOK, NewWork, NoRow
  <2>6. \A other \in posts' : other.row \notin Aggregates
    BY <2>4 DEF SInv, AggregatePosts
  <2>7. QED
    BY <1>3, <2>3, <2>5, <2>6 DEF SInv, ParentFirm, AggregatesFit, AggregatePosts, SuccessKept
<1>5. CASE parent' = p /\ UNCHANGED work
  <2> HIDE DEF p
  <2>1. ParentFirm'
    BY <1>2, <1>5 DEF SInv, ParentFirm
  <2>2. QED
    BY <1>2, <1>3, <1>5, <2>1 DEF SInv, AggregatesFit, AggregatePosts, SuccessKept
<1>6. QED
  BY <1>4, <1>5 DEF PostChild

LEMMA SPostAggregate ==
  ASSUME IInv, SInv, NEW post \in posts, PostAggregate(post), posts' = posts \ {post},
         UNCHANGED <<kids, api>>
  PROVE  SInv' /\ SuccessKept /\ parent'.status = "SUCCEEDED" /\ parent'.dispatched
<1> DEFINE c == Counted(parent, work)
<1>1. TypeOK /\ AtMostOneAggregate
  BY DEF IInv
<1>2. c \in ParentRow /\ c.dispatched = parent.dispatched
  BY <1>1, CountedType DEF TypeOK
<1>3. /\ work' = work /\ post.row \in Aggregates
      /\ parent' = [c EXCEPT !.status = post.verdict,
                             !.covers = IF post.verdict = "SUCCEEDED" THEN post.covers ELSE @]
  BY DEF PostAggregate
<1> HIDE DEF c
<1>4. /\ post.verdict = "SUCCEEDED" /\ work[post.row].status = "SUCCEEDED"
      /\ parent.status # "SUCCEEDED"
      /\ \A other \in posts : other.row \in Aggregates => other = post
  BY <1>3 DEF SInv, AggregatePosts
<1>5. parent'.status = "SUCCEEDED" /\ parent'.dispatched
  <2>1. parent.dispatched
    BY <1>1, <1>3, <1>4, NoneScheduled
  <2>2. QED
    BY <1>2, <1>3, <1>4, <2>1 DEF ParentRow
<1>6. \A g \in Aggregates : work'[g].status \in {"NONE", "SUCCEEDED"}
  BY <1>1, <1>3, <1>4, OneAtMost
<1>7. RequestsFit'
  BY DEF SInv, RequestsFit
<1>8. QED
  BY <1>4, <1>5, <1>6, <1>7 DEF SInv, ParentFirm, AggregatesFit, AggregatePosts, SuccessKept

LEMMA SReads ==
  ASSUME Firm, IInv, BInv, SInv, NEW c \in Clients, NEW x \in Rows \cup {Parent},
         CancelRead(c, x) \/ RetryRead(c, x)
  PROVE  SInv'
<1>1. TypeOK
  BY DEF IInv
<1>2. UNCHANGED <<parent, kids, work, posts>>
  BY DEF CancelRead, RetryRead, Open
<1>3. CASE CancelRead(c, x)
  <2>1. /\ x = Parent /\ CancelColumns(x) # {}
        /\ api' = [api EXCEPT ![c] = [op |-> "cancel", row |-> x, columns |-> CancelColumns(x)]]
    BY <1>3 DEF CancelRead, Open, Firm
  <2>2. CancelColumns(x) = {"cancel"}
    BY <2>1 DEF CancelColumns, RowOf, SInv, ParentFirm
  <2>3. RequestsFit'
    BY <1>1, <1>2, <2>1, <2>2 DEF SInv, RequestsFit, TypeOK
  <2>4. QED
    BY <1>2, <2>3, SQuiet
<1>4. CASE RetryRead(c, x)
  <2>1. /\ x # Parent /\ RetryColumns(x) # {}
        /\ api' = [api EXCEPT ![c] = [op |-> "retry", row |-> x, columns |-> RetryColumns(x)]]
    BY <1>4 DEF RetryRead, Open, Firm
  <2>2. "status" \in RetryColumns(x) /\ work[x].status \in RetriableStatus
    BY <2>1 DEF RetryColumns, RowOf
  <2>3. x \in kids
    BY <2>1, <2>2 DEF RetriableStatus, SInv, AggregatesFit, BInv, KidsExist, Rows
  <2>4. RequestsFit'
    BY <1>1, <1>2, <2>1, <2>2, <2>3 DEF SInv, RequestsFit, TypeOK
  <2>5. QED
    BY <1>2, <2>4, SQuiet
<1>5. QED
  BY <1>3, <1>4

LEMMA SApiCommit ==
  ASSUME IInv, SInv, NEW c \in Clients, ApiCommit(c)
  PROVE  SInv' /\ SuccessKept
<1> DEFINE r == api[c]
<1>1. TypeOK /\ kids \cap Aggregates = {} /\ kids \subseteq Rows /\ parent \in ParentRow
      /\ Aggregates \subseteq Rows
  BY Constants DEF IInv, TypeOK, Rows
<1>2. /\ r # NoRequest /\ api' = [api EXCEPT ![c] = NoRequest]
      /\ UNCHANGED <<kids, posts>>
  BY DEF ApiCommit
<1>3. RequestsFit'
  BY <1>1, <1>2 DEF SInv, RequestsFit, TypeOK
<1>4. CASE r.row = Parent
  <2>1. r.op = "cancel" /\ r.columns = {"cancel"}
    BY <1>1, <1>2, <1>4, Constants DEF SInv, RequestsFit
  <2>2. work' = work /\ parent' = [Written(parent, r) EXCEPT
                            !.covers = IF "result" \in r.columns THEN {} ELSE @]
    BY <1>4 DEF ApiCommit
  <2>3. /\ parent'.status = parent.status /\ parent'.covers = parent.covers
        /\ parent'.dispatched = parent.dispatched
    BY <1>1, <2>1, <2>2 DEF Written, ParentRow
  <2>4. QED
    BY <1>2, <1>3, <2>2, <2>3 DEF SInv, ParentFirm, AggregatesFit, AggregatePosts, SuccessKept
<1>5. CASE r.row # Parent
  <2>1. r.row \in kids
    BY <1>2, <1>5 DEF SInv, RequestsFit
  <2>2. parent' = parent /\ work' = [work EXCEPT ![r.row] = Written(@, r)]
    BY <1>5 DEF ApiCommit
  <2>3. \A g \in Aggregates : work'[g] = work[g]
    BY <1>1, <2>1, <2>2 DEF TypeOK
  <2>4. QED
    BY <1>2, <1>3, <2>2, <2>3 DEF SInv, ParentFirm, AggregatesFit, AggregatePosts, SuccessKept
<1>6. QED
  BY <1>4, <1>5

LEMMA SStep ==
  ASSUME Firm, IInv, BInv, SInv, [Next]_vars
  PROVE  SInv' /\ SuccessKept
<1>1. CASE \E items \in 1..MaxItems, header \in ClientHeaders : CreateFanOut(items, header)
  BY <1>1, SCreateFanOut
<1>2. CASE \E R \in SUBSET Rows, C \in SUBSET Rows : RunOnce(R, C)
  BY <1>2, SRunOnce
<1>3. CASE UNCHANGED <<parent, kids, work, posts, api>>
  BY <1>3, SQuiet DEF SInv, RequestsFit, SuccessKept
<1>4. CASE \E x \in Rows :
              \/ ObserveCancel(x)
              \/ LoadChildResults(x)
              \/ \E verdict \in {"SUCCEEDED", "FAILED", "CANCELED"} : Finish(x, verdict)
              \/ LoseRun(x)
  <2>1. PICK x \in Rows :
              \/ ObserveCancel(x)
              \/ LoadChildResults(x)
              \/ \E verdict \in {"SUCCEEDED", "FAILED", "CANCELED"} : Finish(x, verdict)
              \/ LoseRun(x)
    BY <1>4
  <2>2. CASE ObserveCancel(x) \/ LoadChildResults(x) \/ LoseRun(x)
    BY <1>3, <2>2 DEF ObserveCancel, LoadChildResults, LoseRun
  <2>3. CASE \E verdict \in {"SUCCEEDED", "FAILED", "CANCELED"} : Finish(x, verdict)
    BY <2>3, SFinish DEF Finish, SuccessKept
  <2>4. QED
    BY <2>1, <2>2, <2>3
<1>5. ASSUME NEW post \in posts, HandlePost(post) \/ LosePost(post)
      PROVE  SInv' /\ SuccessKept
  <2>1. CASE HandlePost(post)
    <3>1. /\ posts' = posts \ {post} /\ UNCHANGED <<kids, api>>
          /\ PostChild(post) \/ PostAggregate(post)
      BY <2>1 DEF HandlePost
    <3>2. QED
      BY <3>1, SPostChild, SPostAggregate
  <2>2. CASE LosePost(post)
    <3>1. posts' \subseteq posts /\ UNCHANGED <<parent, kids, work, api>>
      BY <2>2 DEF LosePost
    <3>2. RequestsFit'
      BY <3>1 DEF SInv, RequestsFit
    <3>3. QED
      BY <3>1, <3>2, SQuiet DEF SuccessKept
  <2>3. QED
    BY <1>5, <2>1, <2>2
<1>6. CASE \E c \in Clients : \E x \in Rows \cup {Parent} : CancelRead(c, x) \/ RetryRead(c, x)
  BY <1>6, SReads DEF CancelRead, RetryRead, Open, SuccessKept
<1>7. CASE \E c \in Clients : ApiCommit(c)
  BY <1>7, SApiCommit
<1>8. CASE UNCHANGED vars
  BY <1>3, <1>8 DEF vars
<1>9. QED
  BY <1>1, <1>2, <1>4, <1>5, <1>6, <1>7, <1>8 DEF Next, Idle

LEMMA BInvariance == Spec => [](IInv /\ BInv)
<1>1. Init => IInv /\ BInv
  BY InitInv, BInit
<1>2. IInv /\ BInv /\ [Next]_vars => (IInv /\ BInv)'
  BY StepInv, BStep
<1>3. QED
  BY <1>1, <1>2, PTL DEF Spec

\* A parent that has SUCCEEDED keeps its status and its result: the refreshes
\* of refresh_parent_state leave them, and its aggregate succeeds once.
\* Assumed: requests cancel only the parent and retry only children and
\* aggregates, any number at a time, and the aggregate handler does not raise;
\* parent updates may be lost.
THEOREM SuccessIsFinal ==
  ASSUME Firm
  PROVE  Spec => SucceededIsFinal
<1>1. IInv /\ BInv /\ SInv /\ [Next]_vars =>
         /\ SInv'
         /\ [parent.status = "SUCCEEDED" =>
               parent'.status = "SUCCEEDED" /\ parent'.covers = parent.covers]_vars
  BY SStep DEF SuccessKept
<1>2. QED
  BY <1>1, SInit, BInvariance, PTL DEF Spec, SucceededIsFinal

-----------------------------------------------------------------------------
(* The result of a SUCCEEDED parent is complete if nobody cancels single    *)
(* rows and requests come one at a time: of two that have read the same     *)
(* FAILED child, the second would put it back after it has SUCCEEDED.       *)

OneAtATime == \A c, d \in Clients : c = d

NoRowIsCanceled == "cancel_work" \notin Requests

\* The child that a retry is going to put back is still settled, and the result
\* of the parent is only removed with its status.
RetriesFit ==
    \A c \in Clients :
        /\ api[c].row \in Children => work[api[c].row].status \in RetriableStatus
        /\ api[c].row = Parent /\ "result" \in api[c].columns => "status" \in api[c].columns

AllDone == parent.dispatched => \A k \in kids : work[k].status = "SUCCEEDED"

\* What an aggregate has read and what it has told are all children.
Covering ==
    /\ \A g \in Aggregates :
          /\ Executing(g) => work[g].status # "NONE"
          /\ thread[g].pc = "loaded" => thread[g].covers = kids
    /\ \A post \in posts : post.row \in Aggregates =>
          /\ work[post.row].status # "NONE"
          /\ post.verdict = "SUCCEEDED" => post.covers = kids

Reported == parent.status = "SUCCEEDED" =>
                parent.dispatched /\ parent.covers = kids /\ Agrees(parent, work)

RInv == RetriesFit /\ AllDone /\ Covering /\ Reported

LEMMA RInit == Init => RInv
<1> SUFFICES ASSUME Init PROVE RInv
  OBVIOUS
<1>1. RetriesFit
  BY Constants DEF Init, RetriesFit, NoRequest, Rows
<1>2. AllDone /\ Reported
  BY DEF Init, AllDone, Reported, NoParent
<1>3. Covering
  BY DEF Init, Covering, Executing, NoThread, Rows
<1>4. QED
  BY <1>1, <1>2, <1>3 DEF RInv

LEMMA RCreateFanOut ==
  ASSUME IInv, BInv, RInv,
         NEW items \in 1..MaxItems, NEW header \in ClientHeaders, CreateFanOut(items, header)
  PROVE  RInv'
<1>1. TypeOK /\ AtMostOneAggregate
  BY DEF IInv
<1>2. kids = {} /\ posts = {} /\ ~parent.dispatched /\ parent.status = "NONE"
  BY DEF CreateFanOut, BInv, BeforeTheBatch
<1>3. UNCHANGED <<thread, posts, api>>
  BY DEF CreateFanOut
<1>4. parent'.status = "PARTIALLY_RUNNING" /\ ~parent'.dispatched
  BY BCreateFanOut
<1>5. AllDone' /\ Reported'
  BY <1>4 DEF AllDone, Reported
<1>6. RetriesFit'
  <2>1. \A c \in Clients : api[c].row \notin Children /\ api[c].row # Parent
    BY <1>2 DEF BInv, KidsExist, RequestsFoundRows, Rows
  <2>2. QED
    BY <1>3, <2>1 DEF RetriesFit
<1>7. Covering'
  <2>1. \A g \in Aggregates : ~Executing(g)
    BY <1>1, <1>2, NoneScheduled DEF RInv, Covering
  <2>2. QED
    BY <1>2, <1>3, <2>1 DEF Covering, Executing
<1>8. QED
  BY <1>5, <1>6, <1>7 DEF RInv

LEMMA RRunOnce ==
  ASSUME IInv, RInv, NEW R \in SUBSET Rows, NEW C \in SUBSET Rows, RunOnce(R, C)
  PROVE  RInv'
<1>1. TypeOK /\ kids \subseteq Rows /\ Children \subseteq Rows /\ Aggregates \subseteq Rows
  BY DEF IInv, TypeOK, Rows
<1>2. /\ UNCHANGED <<kids, posts, api>>
      /\ thread' = [x \in Rows |-> IF x \in C THEN [pc |-> "running", covers |-> {}] ELSE thread[x]]
      /\ \A x \in C : work[x].status = "PENDING"
  BY DEF RunOnce
<1>3. \A x \in Rows :
         work'[x].status # work[x].status =>
             /\ work[x].status \in {"PENDING", "RUNNING"}
             /\ work'[x].status \in {"PENDING", "RUNNING"}
  BY <1>1, RunOnceRows
<1>4. /\ parent'.dispatched = parent.dispatched /\ parent'.covers = parent.covers
      /\ parent'.status = "SUCCEEDED" => parent.status = "SUCCEEDED"
  BY RunOnceParent
<1>5. RetriesFit'
  BY <1>1, <1>2, <1>3 DEF RInv, RetriesFit, RetriableStatus
<1>6. AllDone'
  BY <1>1, <1>2, <1>3, <1>4 DEF RInv, AllDone
<1>7. Covering'
  <2>1. ASSUME NEW g \in Aggregates
        PROVE  /\ thread'[g].pc # "idle" => work'[g].status # "NONE"
               /\ thread'[g].pc = "loaded" => thread'[g].covers = kids
    <3>1. CASE g \in C
      BY <1>1, <1>2, <1>3, <3>1
    <3>2. CASE g \notin C
      BY <1>1, <1>2, <1>3, <3>2 DEF RInv, Covering, Executing
    <3>3. QED
      BY <3>1, <3>2
  <2>2. \A post \in posts : post.row \in Aggregates => work'[post.row].status # "NONE"
    BY <1>1, <1>3 DEF RInv, Covering
  <2>3. QED
    BY <1>2, <2>1, <2>2 DEF RInv, Covering, Executing
<1>8. Reported'
  <2>1. ASSUME parent'.status = "SUCCEEDED"
        PROVE  parent'.dispatched /\ parent'.covers = kids' /\ Agrees(parent, work)'
    <3>1. parent.dispatched /\ parent.covers = kids /\ Agrees(parent, work)
      BY <1>4, <2>1 DEF RInv, Reported
    <3>2. Agrees(parent', work')
      <4>1. CASE parent' = parent /\ \A k \in kids : work'[k] = work[k]
        <5>1. \A k \in kids : work[k].status = work'[k].status
          BY <4>1
        <5>2. QED
          BY <3>1, <4>1, <5>1, SameAgreement
      <4>2. QED
        BY <1>1, <4>1, RunOnceCounts
    <3>3. QED
      BY <1>2, <1>4, <3>1, <3>2, AgreesNext
  <2>2. QED
    BY <2>1 DEF Reported
<1>9. QED
  BY <1>5, <1>6, <1>7, <1>8 DEF RInv

\* Steps of an execution that end nothing.
LEMMA RThread ==
  ASSUME IInv, RInv, NEW x \in Rows, ObserveCancel(x) \/ LoadChildResults(x) \/ LoseRun(x)
  PROVE  RInv'
<1>1. TypeOK /\ AtMostOneAggregate /\ kids \cap Aggregates = {} /\ Aggregates \subseteq Rows
  BY Constants DEF IInv, TypeOK, Rows
<1>2. UNCHANGED <<parent, kids, work, posts, api>>
  BY DEF ObserveCancel, LoadChildResults, LoseRun
<1>3. RetriesFit' /\ AllDone' /\ Reported'
  BY <1>2 DEF RInv, RetriesFit, AllDone, Reported, Agrees, InStatus
<1>4. Covering'
  <2>1. ASSUME NEW g \in Aggregates
        PROVE  /\ thread'[g].pc # "idle" => work[g].status # "NONE"
               /\ thread'[g].pc = "loaded" => thread'[g].covers = kids
    <3>1. CASE ObserveCancel(x)
      <4>1. x \in kids /\ thread' = [thread EXCEPT ![x].pc = "signaled"]
        BY <3>1 DEF ObserveCancel
      <4>2. thread'[g] = thread[g]
        BY <1>1, <4>1 DEF TypeOK
      <4>3. QED
        BY <4>2 DEF RInv, Covering, Executing
    <3>2. CASE LoadChildResults(x)
      <4>1. /\ thread[x].pc = "running"
            /\ thread' = [thread EXCEPT ![x] =
                            [pc |-> "loaded", covers |-> {k \in kids : work[k].status = "SUCCEEDED"}]]
        BY <3>2 DEF LoadChildResults
      <4>2. CASE g = x
        <5>1. work[g].status # "NONE"
          BY <4>1, <4>2 DEF RInv, Covering, Executing
        <5>2. \A k \in kids : work[k].status = "SUCCEEDED"
          BY <1>1, <5>1, NoneScheduled DEF RInv, AllDone
        <5>3. {k \in kids : work[k].status = "SUCCEEDED"} = kids
          BY <5>2
        <5>4. thread'[g] = [pc |-> "loaded", covers |-> kids]
          BY <1>1, <4>1, <4>2, <5>3 DEF TypeOK
        <5>5. QED
          BY <5>1, <5>4
      <4>3. CASE g # x
        <5>1. thread'[g] = thread[g]
          BY <1>1, <4>1, <4>3 DEF TypeOK
        <5>2. QED
          BY <5>1 DEF RInv, Covering, Executing
      <4>4. QED
        BY <4>2, <4>3
    <3>3. CASE LoseRun(x)
      <4>1. thread' = [thread EXCEPT ![x] = NoThread]
        BY <3>3 DEF LoseRun
      <4>2. thread'[g] = thread[g] \/ thread'[g] = NoThread
        BY <1>1, <4>1 DEF TypeOK
      <4>3. QED
        BY <4>2 DEF RInv, Covering, Executing, NoThread
    <3>4. QED
      BY <3>1, <3>2, <3>3
  <2>2. QED
    BY <1>2, <2>1 DEF RInv, Covering, Executing
<1>5. QED
  BY <1>3, <1>4 DEF RInv

LEMMA RFinish ==
  ASSUME IInv, RInv, NEW x \in Rows,
         NEW verdict \in {"SUCCEEDED", "FAILED", "CANCELED"}, Finish(x, verdict)
  PROVE  RInv'
<1>1. /\ TypeOK /\ AtMostOneAggregate /\ kids \cap Aggregates = {}
      /\ Aggregates \subseteq Rows /\ Children \subseteq Rows /\ kids \subseteq Rows
  BY Constants DEF IInv, TypeOK, Rows
<1>2. UNCHANGED <<parent, kids, api>> /\ thread' = [thread EXCEPT ![x] = NoThread]
  BY DEF Finish
<1>3. \A g \in Aggregates : thread'[g] = thread[g] \/ thread'[g] = NoThread
  BY <1>1, <1>2 DEF TypeOK
<1>4. CASE UNCHANGED <<work, posts>>
  <2>1. RetriesFit' /\ AllDone' /\ Reported'
    BY <1>2, <1>4 DEF RInv, RetriesFit, AllDone, Reported, Agrees, InStatus
  <2>2. Covering'
    BY <1>2, <1>3, <1>4 DEF RInv, Covering, Executing, NoThread
  <2>3. QED
    BY <2>1, <2>2 DEF RInv
<1> DEFINE new == [row |-> x, attempt_no |-> work[x].attempt_no,
                   verdict |-> verdict, covers |-> thread[x].covers]
<1>5. CASE /\ work[x].status = "RUNNING"
           /\ work' = [work EXCEPT ![x].status = verdict]
           /\ posts' = posts \cup {new}
  <2>1. /\ work'[x].status = verdict
        /\ \A y \in Rows \ {x} : work'[y] = work[y]
    BY <1>1, <1>5 DEF TypeOK, WorkRow
  <2>2. parent.dispatched => x \notin kids
    BY <1>5 DEF RInv, AllDone
  <2>3. RetriesFit'
    BY <1>1, <1>2, <1>5, <2>1 DEF RInv, RetriesFit, RetriableStatus
  <2>4. AllDone'
    BY <1>1, <1>2, <2>1, <2>2 DEF RInv, AllDone
  <2>5. Covering'
    <3>1. x \in Aggregates /\ verdict = "SUCCEEDED" => new.covers = kids
      BY <1>1 DEF Finish, MayEnd, RInv, Covering
    <3>2. \A y \in Rows : work'[y].status = "NONE" => work[y].status = "NONE" /\ y # x
      BY <1>1, <2>1
    <3>3. new.row = x /\ new.verdict = verdict
      OBVIOUS
    <3> HIDE DEF new
    <3>4. \A post \in posts' : post.row \in Aggregates =>
              /\ work'[post.row].status # "NONE"
              /\ post.verdict = "SUCCEEDED" => post.covers = kids
      BY <1>1, <1>5, <3>1, <3>2, <3>3 DEF RInv, Covering
    <3>5. QED
      BY <1>1, <1>2, <1>3, <3>2, <3>4 DEF RInv, Covering, Executing, NoThread
  <2>6. Reported'
    <3>1. ASSUME parent'.status = "SUCCEEDED"
          PROVE  parent'.dispatched /\ parent'.covers = kids' /\ Agrees(parent, work)'
      <4>1. parent.covers = kids /\ Agrees(parent, work) /\ parent.dispatched
        BY <1>2, <3>1 DEF RInv, Reported
      <4>2. \A k \in kids : work[k].status = work'[k].status
        BY <1>1, <2>1, <2>2, <4>1
      <4>3. Agrees(parent', work')
        BY <1>2, <4>1, <4>2, SameAgreement
      <4>4. QED
        BY <1>2, <4>1, <4>3, AgreesNext
    <3>2. QED
      BY <3>1 DEF Reported
  <2>7. QED
    BY <2>3, <2>4, <2>5, <2>6 DEF RInv
<1>6. QED
  BY <1>4, <1>5 DEF Finish

LEMMA RPostChild ==
  ASSUME IInv, RInv, NEW post \in posts, PostChild(post),
         posts' = posts \ {post}, UNCHANGED <<kids, thread, api>>
  PROVE  RInv'
<1> DEFINE p == Refreshed(parent, work)
<1>1. /\ TypeOK /\ AtMostOneAggregate /\ kids \cap Aggregates = {} /\ parent \in ParentRow
      /\ Aggregates \subseteq Rows /\ Children \subseteq Rows /\ kids \subseteq Rows
  BY Constants DEF IInv, TypeOK, Rows
<1>2. /\ p \in ParentRow /\ p.dispatched = parent.dispatched /\ Agrees(p, work)
      /\ p.status = "SUCCEEDED" <=> parent.status = "SUCCEEDED"
      /\ p.covers = parent.covers
  BY <1>1, RefreshedType, RefreshedKeeps, RefreshedAgrees
<1>3. CASE /\ AggregateReady(p)
           /\ \E g \in Unused :
                 /\ work' = [work EXCEPT ![g] = NewWork]
                 /\ parent' = [p EXCEPT !.status = "AGGREGATING", !.dispatched = TRUE]
  <2>1. \A k \in kids : work[k].status = "SUCCEEDED"
    BY <1>1, <1>3, AllSucceeded
  <2> HIDE DEF p
  <2>2. PICK g \in Unused :
                 /\ work' = [work EXCEPT ![g] = NewWork]
                 /\ parent' = [p EXCEPT !.status = "AGGREGATING", !.dispatched = TRUE]
    BY <1>3
  <2>3. parent'.status = "AGGREGATING"
    BY <1>2, <2>2 DEF ParentRow
  <2>4. /\ g \in Aggregates /\ g \notin Children /\ work'[g].status # "NONE"
        /\ \A y \in Rows \ {g} : work'[y] = work[y]
    BY <1>1, <2>2, Constants DEF TypeOK, Unused, NewWork, NoRow
  <2>5. RetriesFit'
    BY <1>1, <2>4 DEF RInv, RetriesFit
  <2>6. AllDone' /\ Reported'
    BY <1>1, <2>1, <2>3, <2>4 DEF AllDone, Reported, TypeOK
  <2>7. Covering'
    BY <1>1, <2>4 DEF RInv, Covering, Executing
  <2>8. QED
    BY <2>5, <2>6, <2>7 DEF RInv
<1>4. CASE parent' = p /\ UNCHANGED work
  <2> HIDE DEF p
  <2>1. RetriesFit' /\ AllDone' /\ Covering'
    BY <1>2, <1>4 DEF RInv, RetriesFit, AllDone, Covering, Executing
  <2>2. Agrees(parent, work)'
    BY <1>2, <1>4, AgreesNext
  <2>3. Reported'
    BY <1>2, <1>4, <2>2 DEF RInv, Reported
  <2>4. QED
    BY <2>1, <2>3 DEF RInv
<1>5. QED
  BY <1>3, <1>4 DEF PostChild

LEMMA RPostAggregate ==
  ASSUME IInv, RInv, NEW post \in posts, PostAggregate(post),
         posts' = posts \ {post}, UNCHANGED <<kids, thread, api>>
  PROVE  RInv'
<1> DEFINE c == Counted(parent, work)
<1>1. TypeOK /\ parent \in ParentRow /\ AtMostOneAggregate
  BY DEF IInv, TypeOK
<1>2. c \in ParentRow /\ c.dispatched = parent.dispatched /\ Agrees(c, work)
  BY <1>1, CountedType, CountedAgrees
<1>3. /\ work' = work /\ post.row \in Aggregates /\ post.verdict \in {"SUCCEEDED", "FAILED"}
      /\ parent' = [c EXCEPT !.status = post.verdict,
                             !.covers = IF post.verdict = "SUCCEEDED" THEN post.covers ELSE @]
  BY DEF PostAggregate
<1> HIDE DEF c
<1>4. parent.dispatched /\ (post.verdict = "SUCCEEDED" => post.covers = kids)
  BY <1>1, <1>3, NoneScheduled DEF RInv, Covering
<1>5. /\ parent'.status = post.verdict /\ parent'.dispatched = parent.dispatched
      /\ post.verdict = "SUCCEEDED" => parent'.covers = kids
      /\ parent'.total = c.total /\ parent'.succeeded = c.succeeded
      /\ parent'.failed = c.failed /\ parent'.running = c.running
  BY <1>2, <1>3, <1>4 DEF ParentRow
<1>6. Agrees(parent', work')
  BY <1>2, <1>3, <1>5 DEF Agrees
<1>7. Reported'
  BY <1>4, <1>5, <1>6, AgreesNext DEF Reported
<1>8. RetriesFit' /\ AllDone' /\ Covering'
  BY <1>3, <1>5 DEF RInv, RetriesFit, AllDone, Covering, Executing
<1>9. QED
  BY <1>7, <1>8 DEF RInv

LEMMA RReads ==
  ASSUME NoRowIsCanceled, IInv, RInv, NEW c \in Clients, NEW x \in Rows \cup {Parent},
         CancelRead(c, x) \/ RetryRead(c, x)
  PROVE  RInv'
<1>1. TypeOK
  BY DEF IInv
<1>2. UNCHANGED <<parent, kids, work, thread, posts>>
  BY DEF CancelRead, RetryRead, Open
<1>3. AllDone' /\ Covering' /\ Reported'
  BY <1>2 DEF RInv, AllDone, Covering, Executing, Reported, Agrees, InStatus
<1>4. /\ \A b \in Clients \ {c} : api'[b] = api[b]
      /\ api'[c].row = x
  BY <1>1 DEF CancelRead, RetryRead, Open, TypeOK
<1>5. /\ x \in Children => work[x].status \in RetriableStatus
      /\ x = Parent /\ "result" \in api'[c].columns => "status" \in api'[c].columns
  <2>1. CASE CancelRead(c, x)
    <3>1. x = Parent /\ api'[c].columns = CancelColumns(x)
      BY <1>1, <2>1 DEF CancelRead, Open, NoRowIsCanceled, TypeOK
    <3>2. "result" \notin CancelColumns(x)
      BY DEF CancelColumns
    <3>3. QED
      BY <3>1, <3>2, Constants DEF Rows
  <2>2. CASE RetryRead(c, x)
    <3>1. RetryColumns(x) # {} /\ api'[c].columns = RetryColumns(x)
      BY <1>1, <2>2 DEF RetryRead, Open, TypeOK
    <3>2. RowOf(x).status \in RetriableStatus /\ "status" \in RetryColumns(x)
      BY <3>1 DEF RetryColumns
    <3>3. QED
      BY <3>1, <3>2, Constants DEF RowOf, Rows
  <2>3. QED
    BY <2>1, <2>2
<1>6. RetriesFit'
  BY <1>2, <1>4, <1>5 DEF RInv, RetriesFit
<1>7. QED
  BY <1>3, <1>6 DEF RInv

LEMMA RApiCommit ==
  ASSUME OneAtATime, IInv, BInv, RInv, NEW c \in Clients, ApiCommit(c)
  PROVE  RInv'
<1> DEFINE r == api[c]
<1>1. TypeOK /\ kids \subseteq Rows /\ kids \subseteq Children
      /\ Aggregates \subseteq Rows /\ parent \in ParentRow
  BY DEF IInv, TypeOK, Rows
<1>2. /\ r # NoRequest /\ r \in Request /\ api' = [api EXCEPT ![c] = NoRequest]
      /\ UNCHANGED <<kids, thread, posts, createdBy, mishaps, retried>>
  BY <1>1 DEF ApiCommit, TypeOK
<1>3. RetriesFit'
  BY <1>1, <1>2, Constants DEF OneAtATime, RetriesFit, TypeOK, NoRequest, Rows
<1>4. CASE r.row = Parent
  <2>1. work' = work /\ parent' = [Written(parent, r) EXCEPT
                            !.covers = IF "result" \in r.columns THEN {} ELSE @]
    BY <1>4 DEF ApiCommit
  <2>2. /\ parent'.dispatched = parent.dispatched /\ parent'.total = parent.total
        /\ parent'.succeeded = parent.succeeded
        /\ parent'.failed = parent.failed /\ parent'.running = parent.running
        /\ "status" \in r.columns => parent'.status \in {"CANCELED", "PENDING"}
        /\ "status" \notin r.columns => parent'.status = parent.status
        /\ "result" \notin r.columns => parent'.covers = parent.covers
    BY <1>1, <2>1 DEF Written, ParentRow
  <2>3. parent'.status = "SUCCEEDED" => parent.status = "SUCCEEDED" /\ parent'.covers = parent.covers
    BY <1>4, <2>2 DEF RInv, RetriesFit
  <2>4. Agrees(parent, work) => Agrees(parent, work)'
    <3>1. Agrees(parent, work) => Agrees(parent', work')
      BY <2>1, <2>2 DEF Agrees
    <3>2. QED
      BY <1>2, <3>1, AgreesNext
  <2>5. Reported'
    BY <1>2, <2>2, <2>3, <2>4 DEF RInv, Reported
  <2>6. AllDone' /\ Covering'
    BY <1>2, <2>1, <2>2 DEF RInv, AllDone, Covering, Executing
  <2>7. QED
    BY <1>3, <2>5, <2>6 DEF RInv
<1>5. CASE r.row # Parent
  <2>1. r.row \in Rows /\ work[r.row].status # "NONE"
    BY <1>2, <1>5 DEF Request, BInv, RequestsFoundRows
  <2>2. parent' = parent /\ work' = [work EXCEPT ![r.row] = Written(@, r)]
    BY <1>5 DEF ApiCommit
  <2>3. work'[r.row] = Written(work[r.row], r) /\ work[r.row] \in WorkRow
        /\ \A y \in Rows \ {r.row} : work'[y] = work[y]
    BY <1>1, <2>1, <2>2 DEF TypeOK
  <2>4. work'[r.row].status # "NONE"
    BY <2>1, <2>3 DEF Written, WorkRow
  <2>5. Covering'
    <3>1. \A y \in Rows : work[y].status # "NONE" => work'[y].status # "NONE"
      BY <2>3, <2>4
    <3>2. QED
      BY <1>1, <1>2, <3>1 DEF RInv, Covering, Executing
  <2>6. CASE r.row \in Children
    <3>1. r.row \in kids /\ ~parent.dispatched
      BY <2>1, <2>6 DEF BInv, KidsExist, RInv, RetriesFit, AllDone, RetriableStatus
    <3>2. AllDone' /\ Reported'
      BY <2>2, <3>1 DEF RInv, AllDone, Reported
    <3>3. QED
      BY <1>3, <2>5, <3>2 DEF RInv
  <2>7. CASE r.row \notin Children
    <3>1. \A k \in kids : work'[k] = work[k]
      BY <1>1, <2>3, <2>7
    <3>2. AllDone'
      BY <1>2, <2>2, <3>1 DEF RInv, AllDone
    <3>3. \A k \in kids : work[k].status = work'[k].status
      BY <3>1
    <3>4. Agrees(parent, work) => Agrees(parent, work)'
      BY <1>2, <2>2, <3>3, SameAgreement, AgreesNext
    <3>5. Reported'
      BY <1>2, <2>2, <3>4 DEF RInv, Reported
    <3>6. QED
      BY <1>3, <2>5, <3>2, <3>5 DEF RInv
  <2>8. QED
    BY <2>6, <2>7
<1>6. QED
  BY <1>4, <1>5

LEMMA RStep ==
  ASSUME NoRowIsCanceled, OneAtATime, IInv, BInv, RInv, [Next]_vars
  PROVE  RInv'
<1>1. CASE \E items \in 1..MaxItems, header \in ClientHeaders : CreateFanOut(items, header)
  BY <1>1, RCreateFanOut
<1>2. CASE \E R \in SUBSET Rows, C \in SUBSET Rows : RunOnce(R, C)
  BY <1>2, RRunOnce
<1>3. CASE UNCHANGED vars
  BY <1>3 DEF vars, RInv, RetriesFit, AllDone, Covering, Executing, Reported, Agrees, InStatus
<1>4. CASE \E x \in Rows :
              \/ ObserveCancel(x)
              \/ LoadChildResults(x)
              \/ \E verdict \in {"SUCCEEDED", "FAILED", "CANCELED"} : Finish(x, verdict)
              \/ LoseRun(x)
  BY <1>4, RThread, RFinish
<1>5. ASSUME NEW post \in posts, HandlePost(post) \/ LosePost(post)
      PROVE  RInv'
  <2>1. CASE HandlePost(post)
    <3>1. /\ posts' = posts \ {post} /\ UNCHANGED <<kids, thread, api>>
          /\ PostChild(post) \/ PostAggregate(post)
      BY <2>1 DEF HandlePost
    <3>2. QED
      BY <3>1, RPostChild, RPostAggregate
  <2>2. CASE LosePost(post)
    <3>1. posts' \subseteq posts /\ UNCHANGED <<parent, kids, work, thread, api>>
      BY <2>2 DEF LosePost
    <3>2. QED
      BY <3>1 DEF RInv, RetriesFit, AllDone, Covering, Executing, Reported, Agrees, InStatus
  <2>3. QED
    BY <1>5, <2>1, <2>2
<1>6. CASE \E c \in Clients : \/ \E x \in Rows \cup {Parent} : CancelRead(c, x) \/ RetryRead(c, x)
                              \/ ApiCommit(c)
  BY <1>6, RReads, RApiCommit
<1>7. QED
  BY <1>1, <1>2, <1>3, <1>4, <1>5, <1>6 DEF Next, Idle

LEMMA CompleteThen ==
  ASSUME IInv, RInv
  PROVE  SucceededIsComplete
<1> SUFFICES ASSUME parent.status = "SUCCEEDED"
             PROVE  /\ parent.covers = kids /\ parent.succeeded = parent.total
                    /\ parent.failed = 0 /\ parent.running = 0
  BY DEF SucceededIsComplete
<1>1. parent.covers = kids /\ Agrees(parent, work)
  BY DEF RInv, Reported
<1>2. \A k \in kids : work[k].status = "SUCCEEDED"
  BY DEF RInv, AllDone, Reported
<1>3. /\ {x \in kids : work[x].status \in {"SUCCEEDED"}} = kids
      /\ {x \in kids : work[x].status \in {"FAILED", "CANCELED", "DEAD"}} = {}
      /\ {x \in kids : work[x].status \in {"RUNNING"}} = {}
  BY <1>2
<1>4. QED
  BY <1>1, <1>3, FS_EmptySet DEF Agrees, InStatus

\* The result of a SUCCEEDED parent holds the results of all its children, and
\* its counters say so (load_child_results, mark_parent_succeeded): children
\* stay SUCCEEDED from the moment the aggregate is scheduled.  Assumed: requests
\* do not overlap and cancel no single row; any fault may happen.
THEOREM SuccessIsComplete ==
  ASSUME NoRowIsCanceled, OneAtATime
  PROVE  Spec => []SucceededIsComplete
<1>1. IInv /\ BInv /\ RInv /\ [Next]_vars => RInv'
  BY RStep
<1>2. IInv /\ RInv => SucceededIsComplete
  BY CompleteThen
<1>3. QED
  BY <1>1, <1>2, RInit, BInvariance, PTL DEF Spec

-----------------------------------------------------------------------------
(* A batch is not forgotten if besides requests bring a client id and no    *)
(* parent update is lost.                                                   *)

Calm == Undisturbed /\ Firm /\ ClientHeaders \subseteq {"present"}

HasClient == parent.status # "NONE" => createdBy = "present"

\* What the status of a parent p says of its failures and its aggregate.
StatusFits(p) ==
    /\ p.status = "PARTIALLY_RUNNING" => p.failed = 0 /\ ~p.dispatched
    /\ p.status = "AGGREGATING" => p.dispatched

\* The success of an aggregate is told or has settled the parent.
AggregatesTold ==
    \A g \in Aggregates : work[g].status = "SUCCEEDED" =>
        parent.status = "SUCCEEDED" \/ \E post \in posts : post.row = g

\* When all children are SUCCEEDED and no aggregate is scheduled, the parent
\* update that will schedule it is due.
LastSuccessDue ==
    ~parent.dispatched /\ kids # {} /\ (\A k \in kids : work[k].status = "SUCCEEDED") =>
        \E post \in posts : post.row \in kids /\ post.verdict = "SUCCEEDED"

QInv == HasClient /\ StatusFits(parent) /\ AggregatesTold /\ LastSuccessDue

LEMMA QInit == Init => QInv
<1> SUFFICES ASSUME Init PROVE QInv
  OBVIOUS
<1>1. HasClient /\ StatusFits(parent) /\ LastSuccessDue
  BY DEF Init, HasClient, StatusFits, LastSuccessDue, NoParent
<1>2. AggregatesTold
  BY DEF Init, AggregatesTold, NoRow, Rows
<1>3. QED
  BY <1>1, <1>2 DEF QInv

LEMMA RefreshedFits ==
  ASSUME TypeOK, NEW p \in ParentRow, NEW rows, StatusFits(p)
  PROVE  StatusFits(Refreshed(p, rows))
<1> DEFINE c == Counted(p, rows)
<1>1. c \in ParentRow /\ c.dispatched = p.dispatched /\ c.status = p.status
  BY CountedType
<1>2. Refreshed(p, rows) = [c EXCEPT !.status = RefreshedStatus(c)]
  BY DEF Refreshed
<1> HIDE DEF c
<1>3. c.failed \in Nat
  BY <1>1 DEF ParentRow
<1>4. /\ Refreshed(p, rows).status = RefreshedStatus(c)
      /\ Refreshed(p, rows).failed = c.failed
      /\ Refreshed(p, rows).dispatched = c.dispatched
  BY <1>1, <1>2 DEF ParentRow
<1>5. /\ RefreshedStatus(c) = "PARTIALLY_RUNNING" => c.failed = 0 /\ ~c.dispatched
      /\ RefreshedStatus(c) = "AGGREGATING" => c.dispatched
  BY <1>1, <1>3 DEF RefreshedStatus, StatusFits
<1>6. QED
  BY <1>4, <1>5 DEF StatusFits

LEMMA RefreshedForFits ==
  ASSUME TypeOK, NEW p \in ParentRow, NEW rows, NEW moved, StatusFits(p)
  PROVE  StatusFits(RefreshedFor(moved, p, rows))
  BY RefreshedFits DEF RefreshedFor

\* All children SUCCEEDED and nothing scheduled: the refreshed parent is ready.
LEMMA ReadyWhenAllSucceeded ==
  ASSUME TypeOK, ~parent.dispatched, kids # {},
         \A k \in kids : work[k].status = "SUCCEEDED"
  PROVE  AggregateReady(Refreshed(parent, work))
<1> DEFINE c == Counted(parent, work)
<1>1. parent \in ParentRow
  BY DEF TypeOK
<1>2. c \in ParentRow /\ Agrees(c, work) /\ c.status = parent.status /\ c.dispatched = parent.dispatched
  BY <1>1, CountedType, CountedAgrees
<1>3. Refreshed(parent, work) = [c EXCEPT !.status = RefreshedStatus(c)]
  BY DEF Refreshed
<1> HIDE DEF c
<1>4. {x \in kids : work[x].status \in {"SUCCEEDED"}} = kids
      /\ {x \in kids : work[x].status \in {"FAILED", "CANCELED", "DEAD"}} = {}
  OBVIOUS
<1>5. c.succeeded = Cardinality(kids) /\ c.failed = 0 /\ c.total = Cardinality(kids)
  BY <1>2, <1>4, FS_EmptySet DEF Agrees, InStatus
<1>6. Cardinality(kids) # 0 /\ Cardinality(kids) \in Nat
  BY CountIn, FS_EmptySet, FS_CardinalityType
<1>7. RefreshedStatus(c) # "FAILED"
  BY <1>2, <1>5, <1>6 DEF RefreshedStatus
<1>8. QED
  BY <1>2, <1>3, <1>5, <1>6, <1>7 DEF AggregateReady, ParentRow

\* A step that leaves rows, parent and parent updates.
LEMMA QQuiet ==
  ASSUME QInv, UNCHANGED <<parent, kids, work, posts, createdBy>>
  PROVE  QInv'
  BY DEF QInv, HasClient, StatusFits, AggregatesTold, LastSuccessDue

LEMMA QCreateFanOut ==
  ASSUME Calm, IInv, BInv,
         NEW items \in 1..MaxItems, NEW header \in ClientHeaders, CreateFanOut(items, header)
  PROVE  QInv'
<1>1. TypeOK /\ AtMostOneAggregate /\ kids' \subseteq Children /\ Children \subseteq Rows
  BY CreateFanOutStep DEF IInv, SchedulesNothing, TypeOK, Rows
<1>2. ~parent.dispatched
  BY DEF CreateFanOut, BInv, BeforeTheBatch
<1>3. parent'.status = "PARTIALLY_RUNNING" /\ parent'.failed = 0 /\ ~parent'.dispatched
  BY BCreateFanOut
<1>4. /\ work' = [x \in Rows |-> IF x \in kids' THEN NewWork ELSE work[x]]
      /\ createdBy' = header
  BY DEF CreateFanOut
<1>5. \A g \in Aggregates : work'[g].status = "NONE"
  BY <1>1, <1>2, <1>4, Constants, NoneScheduled DEF Rows
<1>6. HasClient' /\ StatusFits(parent)' /\ AggregatesTold'
  BY <1>3, <1>4, <1>5 DEF HasClient, StatusFits, AggregatesTold, Calm
<1>7. LastSuccessDue'
  <2>1. \A k \in kids' : work'[k].status = "PENDING"
    BY <1>1, <1>4 DEF NewWork, NoRow
  <2>2. QED
    BY <2>1 DEF LastSuccessDue
<1>8. QED
  BY <1>6, <1>7 DEF QInv

LEMMA QRunOnce ==
  ASSUME IInv, BInv, QInv, NEW R \in SUBSET Rows, NEW C \in SUBSET Rows, RunOnce(R, C)
  PROVE  QInv'
<1>1. TypeOK /\ kids \subseteq Rows /\ Aggregates \subseteq Rows /\ parent \in ParentRow
  BY DEF IInv, TypeOK, Rows
<1>2. UNCHANGED <<kids, posts, createdBy>>
  BY DEF RunOnce
<1>3. \A x \in Rows :
         work'[x].status # work[x].status =>
             /\ work[x].status \in {"PENDING", "RUNNING"}
             /\ work'[x].status \in {"PENDING", "RUNNING"}
  BY <1>1, RunOnceRows
<1>4. /\ parent'.dispatched = parent.dispatched
      /\ parent'.status = "SUCCEEDED" <=> parent.status = "SUCCEEDED"
      /\ parent'.status = "NONE" => parent.status = "NONE"
  BY RunOnceParent
<1>5. parent.status # "NONE"
  <2>1. \E x \in Rows : work[x].status # "NONE"
    BY <1>1, RunOnceRows
  <2>2. QED
    BY <2>1, RowsHaveBatch
<1>6. StatusFits(parent')
  <2>1. PICK recovered, claimed : parent' = RefreshedFor(C, RefreshedFor(R, parent, recovered), claimed)
    BY DEF RunOnce
  <2> DEFINE first == RefreshedFor(R, parent, recovered)
  <2>2. first \in ParentRow /\ StatusFits(first)
    BY <1>1, RefreshedForType, RefreshedForFits DEF QInv
  <2>3. parent' = RefreshedFor(C, first, claimed)
    BY <2>1
  <2> HIDE DEF first
  <2>4. QED
    BY <1>1, <2>2, <2>3, RefreshedForFits
<1>7. HasClient' /\ StatusFits(parent)'
  BY <1>2, <1>5, <1>6 DEF QInv, HasClient, StatusFits
<1>8. AggregatesTold'
  BY <1>1, <1>2, <1>3, <1>4 DEF QInv, AggregatesTold
<1>9. LastSuccessDue'
  BY <1>1, <1>2, <1>3, <1>4 DEF QInv, LastSuccessDue
<1>10. QED
  BY <1>7, <1>8, <1>9 DEF QInv

LEMMA QFinish ==
  ASSUME Calm, IInv, QInv, NEW x \in Rows, NEW verdict \in {"SUCCEEDED", "FAILED", "CANCELED"},
         Finish(x, verdict)
  PROVE  QInv'
<1>1. TypeOK /\ Aggregates \subseteq Rows /\ kids \subseteq Rows
  BY DEF IInv, TypeOK, Rows
<1>2. UNCHANGED <<parent, kids, createdBy>>
  BY DEF Finish
<1>3. CASE UNCHANGED <<work, posts>>
  BY <1>2, <1>3, QQuiet
<1> DEFINE new == [row |-> x, attempt_no |-> work[x].attempt_no,
                   verdict |-> verdict, covers |-> thread[x].covers]
<1>4. CASE /\ work' = [work EXCEPT ![x].status = verdict]
           /\ posts' = posts \cup {new}
  <2>1. /\ work'[x].status = verdict
        /\ \A y \in Rows \ {x} : work'[y] = work[y]
    BY <1>1, <1>4 DEF TypeOK, WorkRow
  <2>2. new.row = x /\ new.verdict = verdict /\ new \in posts' /\ posts \subseteq posts'
    BY <1>4
  <2> HIDE DEF new
  <2>3. AggregatesTold'
    <3>1. ASSUME NEW g \in Aggregates, work'[g].status = "SUCCEEDED"
          PROVE  parent'.status = "SUCCEEDED" \/ \E post \in posts' : post.row = g
      <4>1. CASE g = x
        BY <2>2, <4>1
      <4>2. CASE g # x
        BY <1>1, <1>2, <2>1, <2>2, <3>1, <4>2 DEF QInv, AggregatesTold
      <4>3. QED
        BY <4>1, <4>2
    <3>2. QED
      BY <3>1 DEF AggregatesTold
  <2>4. LastSuccessDue'
    <3>1. ASSUME ~parent'.dispatched, kids' # {}, \A k \in kids' : work'[k].status = "SUCCEEDED"
          PROVE  \E post \in posts' : post.row \in kids' /\ post.verdict = "SUCCEEDED"
      <4>1. CASE x \in kids
        <5>1. verdict = "SUCCEEDED"
          BY <1>2, <2>1, <3>1, <4>1
        <5>2. QED
          BY <1>2, <2>2, <4>1, <5>1
      <4>2. CASE x \notin kids
        <5>1. \A k \in kids : work[k].status = "SUCCEEDED"
          BY <1>1, <1>2, <2>1, <3>1, <4>2
        <5>2. QED
          BY <1>2, <2>2, <3>1, <5>1 DEF QInv, LastSuccessDue
      <4>3. QED
        BY <4>1, <4>2
    <3>2. QED
      BY <3>1 DEF LastSuccessDue
  <2>5. QED
    BY <1>2, <2>3, <2>4 DEF QInv, HasClient, StatusFits
<1>5. QED
  BY <1>3, <1>4 DEF Finish

LEMMA QPostChild ==
  ASSUME IInv, BInv, SInv, QInv, NEW post \in posts, PostChild(post),
         posts' = posts \ {post}, UNCHANGED <<kids, createdBy>>
  PROVE  QInv'
<1> DEFINE p == Refreshed(parent, work)
<1>1. /\ TypeOK /\ AtMostOneAggregate /\ kids \cap Aggregates = {} /\ parent \in ParentRow
      /\ Aggregates \subseteq Rows
  BY Constants DEF IInv, TypeOK, Rows
<1>2. /\ p \in ParentRow /\ p.dispatched = parent.dispatched /\ StatusFits(p)
      /\ p.status = "SUCCEEDED" <=> parent.status = "SUCCEEDED"
  BY <1>1, RefreshedType, RefreshedKeeps, RefreshedFits DEF QInv
<1>3. createdBy = "present" /\ post.row \notin Aggregates
  BY <1>1 DEF BInv, BeforeTheBatch, QInv, HasClient, PostChild
<1>4. ~parent.dispatched /\ kids # {} /\ (\A k \in kids : work[k].status = "SUCCEEDED") => AggregateReady(p)
  BY <1>1, ReadyWhenAllSucceeded
<1>5. HasClient'
  BY <1>3 DEF HasClient
<1>6. CASE /\ AggregateReady(p)
           /\ \E g \in Unused :
                 /\ work' = [work EXCEPT ![g] = NewWork]
                 /\ parent' = [p EXCEPT !.status = "AGGREGATING", !.dispatched = TRUE]
  <2>1. ~parent.dispatched
    BY <1>2, <1>6 DEF AggregateReady
  <2> HIDE DEF p
  <2>2. PICK g \in Unused :
                 /\ work' = [work EXCEPT ![g] = NewWork]
                 /\ parent' = [p EXCEPT !.status = "AGGREGATING", !.dispatched = TRUE]
    BY <1>6
  <2>3. parent'.status = "AGGREGATING" /\ parent'.dispatched
    BY <1>2, <2>2 DEF ParentRow
  <2>4. \A h \in Aggregates : work[h].status = "NONE"
    BY <1>1, <2>1, NoneScheduled
  <2>5. \A h \in Aggregates : work'[h].status # "SUCCEEDED"
    BY <1>1, <2>2, <2>4 DEF TypeOK, NewWork, NoRow
  <2>6. QED
    BY <1>5, <2>3, <2>5 DEF QInv, StatusFits, AggregatesTold, LastSuccessDue
<1>7. CASE /\ ~(post.verdict = "SUCCEEDED" /\ createdBy = "present" /\ AggregateReady(p))
           /\ parent' = p /\ UNCHANGED work
  <2> HIDE DEF p
  <2>1. StatusFits(parent)' /\ AggregatesTold'
    BY <1>2, <1>3, <1>7 DEF QInv, StatusFits, AggregatesTold
  <2>2. LastSuccessDue'
    <3>1. ASSUME ~parent'.dispatched, kids' # {}, \A k \in kids' : work'[k].status = "SUCCEEDED"
          PROVE  \E other \in posts' : other.row \in kids' /\ other.verdict = "SUCCEEDED"
      <4>1. /\ ~parent.dispatched /\ kids # {} /\ \A k \in kids : work[k].status = "SUCCEEDED"
        BY <1>2, <1>7, <3>1
      <4>2. PICK other \in posts : other.row \in kids /\ other.verdict = "SUCCEEDED"
        BY <4>1 DEF QInv, LastSuccessDue
      <4>3. other # post
        BY <1>3, <1>4, <1>7, <4>1, <4>2
      <4>4. QED
        BY <4>2, <4>3
    <3>2. QED
      BY <3>1 DEF LastSuccessDue
  <2>3. QED
    BY <1>5, <2>1, <2>2 DEF QInv
<1>8. QED
  BY <1>6, <1>7 DEF PostChild

LEMMA QApiCommit ==
  ASSUME IInv, SInv, QInv, NEW c \in Clients, ApiCommit(c)
  PROVE  QInv'
<1> DEFINE r == api[c]
<1>1. TypeOK /\ kids \cap Aggregates = {} /\ kids \subseteq Rows /\ parent \in ParentRow
      /\ Aggregates \subseteq Rows
  BY Constants DEF IInv, TypeOK, Rows
<1>2. r # NoRequest /\ UNCHANGED <<kids, posts, createdBy>>
  BY DEF ApiCommit
<1>3. CASE r.row = Parent
  <2>1. r.op = "cancel" /\ r.columns = {"cancel"}
    BY <1>1, <1>2, <1>3, Constants DEF SInv, RequestsFit
  <2>2. work' = work /\ parent' = [Written(parent, r) EXCEPT
                            !.covers = IF "result" \in r.columns THEN {} ELSE @]
    BY <1>3 DEF ApiCommit
  <2>3. /\ parent'.status = parent.status /\ parent'.failed = parent.failed
        /\ parent'.dispatched = parent.dispatched
    BY <1>1, <2>1, <2>2 DEF Written, ParentRow
  <2>4. QED
    BY <1>2, <2>2, <2>3 DEF QInv, HasClient, StatusFits, AggregatesTold, LastSuccessDue
<1>4. CASE r.row # Parent
  <2>1. r.row \in kids /\ r.op = "retry" /\ "status" \in r.columns
    BY <1>2, <1>4 DEF SInv, RequestsFit
  <2>2. parent' = parent /\ work' = [work EXCEPT ![r.row] = Written(@, r)]
    BY <1>4 DEF ApiCommit
  <2>3. work'[r.row] = Written(work[r.row], r) /\ work[r.row] \in WorkRow
        /\ \A y \in Rows \ {r.row} : work'[y] = work[y]
    BY <1>1, <2>1, <2>2 DEF TypeOK
  <2>4. work'[r.row].status = "PENDING"
    BY <2>1, <2>3 DEF Written, WorkRow
  <2>5. \A g \in Aggregates : work'[g] = work[g]
    BY <1>1, <2>1, <2>3
  <2>6. QED
    BY <1>2, <2>1, <2>2, <2>4, <2>5
       DEF QInv, HasClient, StatusFits, AggregatesTold, LastSuccessDue
<1>5. QED
  BY <1>3, <1>4

LEMMA QStep ==
  ASSUME Calm, IInv, BInv, SInv, QInv, [Next]_vars
  PROVE  QInv'
<1>1. CASE \E items \in 1..MaxItems, header \in ClientHeaders : CreateFanOut(items, header)
  BY <1>1, QCreateFanOut
<1>2. CASE \E R \in SUBSET Rows, C \in SUBSET Rows : RunOnce(R, C)
  BY <1>2, QRunOnce
<1>3. CASE \E x \in Rows :
              \/ ObserveCancel(x)
              \/ LoadChildResults(x)
              \/ \E verdict \in {"SUCCEEDED", "FAILED", "CANCELED"} : Finish(x, verdict)
              \/ LoseRun(x)
  BY <1>3, QQuiet, QFinish DEF ObserveCancel, LoadChildResults, LoseRun
<1>4. ASSUME NEW post \in posts, HandlePost(post) \/ LosePost(post)
      PROVE  QInv'
  <2>1. /\ posts' = posts \ {post} /\ UNCHANGED <<kids, api, createdBy>>
        /\ PostChild(post) \/ PostAggregate(post)
    BY <1>4 DEF HandlePost, LosePost, Mishap, Calm, Undisturbed
  <2>2. CASE PostChild(post)
    BY <2>1, <2>2, QPostChild
  <2>3. CASE PostAggregate(post)
    <3>1. parent'.status = "SUCCEEDED" /\ parent'.dispatched
      BY <2>1, <2>3, SPostAggregate
    <3>2. createdBy' = "present"
      BY <2>1 DEF BInv, BeforeTheBatch, QInv, HasClient
    <3>3. QED
      BY <3>1, <3>2 DEF QInv, HasClient, StatusFits, AggregatesTold, LastSuccessDue
  <2>4. QED
    BY <2>1, <2>2, <2>3
<1>5. CASE \E c \in Clients : \/ \E x \in Rows \cup {Parent} : CancelRead(c, x) \/ RetryRead(c, x)
                              \/ ApiCommit(c)
  BY <1>5, QQuiet, QApiCommit DEF CancelRead, RetryRead, Open
<1>6. CASE UNCHANGED vars
  BY <1>6, QQuiet DEF vars
<1>7. QED
  BY <1>1, <1>2, <1>3, <1>4, <1>5, <1>6 DEF Next, Idle

LEMMA NotForgotten ==
  ASSUME IInv, CInv, BInv, SInv, QInv
  PROVE  NeverStranded
<1>1. TypeOK /\ AtMostOneAggregate /\ kids \subseteq Rows /\ Aggregates \subseteq Rows
  BY DEF IInv, TypeOK, Rows
<1> SUFFICES ASSUME parent.status \in {"PENDING", "PARTIALLY_RUNNING", "AGGREGATING"}, ~Outstanding
             PROVE  FALSE
  BY DEF NeverStranded
<1>2. posts = {} /\ \A x \in Rows : work[x].status \notin {"PENDING", "RUNNING"}
  BY DEF Outstanding
<1>3. CASE parent.status = "AGGREGATING"
  <2>1. PICK g \in Aggregates : work[g].status # "NONE"
    BY <1>1, <1>3, NoneScheduled DEF QInv, StatusFits
  <2>2. work[g].status = "SUCCEEDED"
    BY <1>1, <1>2, <2>1 DEF SInv, AggregatesFit
  <2>3. QED
    BY <1>2, <1>3, <2>2 DEF QInv, AggregatesTold
<1>4. CASE parent.status = "PARTIALLY_RUNNING"
  <2>1. kids # {} /\ ~parent.dispatched /\ parent.failed = 0
    BY <1>4 DEF BInv, KidsExist, QInv, StatusFits
  <2>2. Agrees(parent, work)
    BY <1>1, <1>2 DEF CInv, AgreesOrDue
  <2>3. Cardinality({x \in kids : work[x].status \in {"FAILED", "CANCELED", "DEAD"}}) = 0
    BY <2>1, <2>2 DEF Agrees, InStatus
  <2>4. {x \in kids : work[x].status \in {"FAILED", "CANCELED", "DEAD"}} = {}
    <3>1. IsFiniteSet({x \in kids : work[x].status \in {"FAILED", "CANCELED", "DEAD"}})
      BY <1>1, CountIn, FS_Subset
    <3>2. QED
      BY <2>3, <3>1, FS_EmptySet
  <2>5. \A k \in kids : work[k].status = "SUCCEEDED"
    <3>1. \A k \in kids : work[k].status \in RowStatus /\ work[k].status # "NONE"
      BY <1>1 DEF TypeOK, WorkRow, BInv, KidsExist
    <3>2. QED
      BY <1>1, <1>2, <2>4, <3>1 DEF RowStatus
  <2>6. QED
    BY <1>2, <2>1, <2>5 DEF QInv, LastSuccessDue
<1>5. QED
  BY <1>3, <1>4 DEF SInv, ParentFirm

\* While a parent is unsettled a worker has something to do for it: a row to
\* claim, recover or finish, or a parent update (_handle_post_success and its
\* siblings).  Assumed: no parent update is lost, requests bring a client id,
\* cancel only the parent and retry only children and aggregates, any number at
\* a time, and the aggregate handler does not raise.
THEOREM NothingForgotten ==
  ASSUME Calm
  PROVE  Spec => []NeverStranded
<1>1. Init => CInv /\ SInv /\ QInv
  BY CInit, SInit, QInit
<1>2. IInv /\ BInv /\ CInv /\ SInv /\ QInv /\ [Next]_vars => CInv' /\ SInv' /\ QInv'
  BY CStep, SStep, QStep DEF Calm
<1>3. IInv /\ CInv /\ BInv /\ SInv /\ QInv => NeverStranded
  BY NotForgotten
<1>4. QED
  BY <1>1, <1>2, <1>3, BInvariance, PTL DEF Spec
=============================================================================
