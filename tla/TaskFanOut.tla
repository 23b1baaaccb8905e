----------------------------- MODULE TaskFanOut -----------------------------
(***************************************************************************)
(* Fan-out and fan-in of a batch: TaskOrchestrationService creates a       *)
(* parent and its children, workers run the children, the transaction that *)
(* follows each verdict (the _handle_post methods) refreshes the parent    *)
(* and schedules the aggregate task, and the aggregate's verdict settles   *)
(* the parent.                                                             *)
(*                                                                         *)
(* The parent row is locked by every worker transaction that writes it     *)
(* (_get_parent_task_for_update), so each of those is one step.  A verdict *)
(* and the parent update that follows it are two transactions, so two      *)
(* steps.  Cancel and retry requests lock nothing: they read a row, and    *)
(* write later the columns that differ from what they read, as in          *)
(* TaskLease.  Leases are timely here, and a row canceled and retried      *)
(* under its execution is claimed by another worker, so that the verdict   *)
(* of the first execution is refused: a row has one execution that counts. *)
(* TaskLease models the ones that do not.                                  *)
(* The batch handlers raise no RetryableTaskError, so no row is RETRY_WAIT *)
(* or DEAD.                                                                *)
(***************************************************************************)
EXTENDS Integers, FiniteSets, TaskStatus

CONSTANTS
    MaxItems,      \* bound on the items of a batch
    ShardSize,     \* task_fanout_shard_size
    MaxChildren,   \* task_fanout_max_children
    Aggregates,    \* ids for aggregate rows, more than the code should use
    Parent,        \* id of the parent row
    NoTask,        \* no row
    ClientHeaders, \* what X-Client-Id may be: a subset of {"present", "absent"}
    Clients,       \* concurrent API requests
    Requests,      \* a subset of RequestKinds
    Faults,        \* a subset of FaultKinds
    MaxMishaps,    \* bound on the mishaps of a behaviour
    MaxRetries     \* bound on the retry requests of a behaviour

RequestKinds == {"cancel_parent", "cancel_work", "retry_parent", "retry_work"}

\* lost_run: the process dies under a handler.  lost_post: it dies, or the
\* database fails, between a verdict's commit and the parent update.
\* aggregate_fails: the aggregate handler raises (the database fails under
\* load_child_results) or its type is unknown to the worker that claimed it.
FaultKinds == {"lost_run", "lost_post", "aggregate_fails"}

ASSUME TaskFanOutAssumption ==
    /\ {MaxItems, ShardSize, MaxChildren} \subseteq Nat \ {0}
    /\ IsFiniteSet(Aggregates)
    /\ Aggregates \cap (1..MaxChildren) = {}
    /\ Parent \notin Aggregates \cup 1..MaxChildren
    /\ NoTask \notin Aggregates \cup 1..MaxChildren \cup {Parent}
    /\ ClientHeaders \subseteq {"present", "absent"}
    /\ Requests \subseteq RequestKinds
    /\ Faults \subseteq FaultKinds
    /\ {MaxMishaps, MaxRetries} \subseteq Nat

VARIABLES
    parent,   \* the parent row
    kids,     \* the ids of its children
    work,     \* the rows of children and aggregates
    thread,   \* the execution of each row
    posts,    \* parent updates that verdicts have yet to make
    api,      \* the transaction an API request has open
    createdBy,\* X-Client-Id of the request, stored as created_by
    mishaps,  \* mishaps so far
    retried   \* retry requests so far

vars == <<parent, kids, work, thread, posts, api, createdBy, mishaps, retried>>

-----------------------------------------------------------------------------
(* The state.                                                              *)

Children == 1..MaxChildren
Rows == Children \cup Aggregates

ParentStatus == {"NONE", "PENDING", "PARTIALLY_RUNNING", "AGGREGATING",
                 "SUCCEEDED", "FAILED", "CANCELED"}
RowStatus == {"NONE", "PENDING", "RUNNING", "SUCCEEDED", "FAILED", "CANCELED"}

\* dispatched is aggregation_dispatched; covers is the set of children whose
\* results the parent's result holds.
ParentRow == [status     : ParentStatus,
              cancel     : BOOLEAN,
              total      : 0..MaxChildren,
              succeeded  : 0..MaxChildren,
              failed     : 0..MaxChildren,
              running    : 0..MaxChildren,
              dispatched : BOOLEAN,
              covers     : SUBSET Children]

WorkRow == [status : RowStatus, cancel : BOOLEAN, attempt_no : Nat]

\* idle: no execution.  signaled: the cancel_event is set.  loaded: an
\* aggregate that has read the children in thread[x].covers.
Thread == [pc : {"idle", "running", "signaled", "loaded"}, covers : SUBSET Children]

Post == [row : Rows, attempt_no : Nat, verdict : {"SUCCEEDED", "FAILED", "CANCELED"},
         covers : SUBSET Children]

NoRequest == [op |-> "none", row |-> NoTask, columns |-> {}]
Request == [op : {"cancel", "retry"}, row : Rows \cup {Parent},
            columns : SUBSET {"status", "cancel", "result"}]

NoThread == [pc |-> "idle", covers |-> {}]
NoRow == [status |-> "NONE", cancel |-> FALSE, attempt_no |-> 0]
NewWork == [NoRow EXCEPT !.status = "PENDING"]
NoParent == [status |-> "NONE", cancel |-> FALSE, total |-> 0, succeeded |-> 0,
             failed |-> 0, running |-> 0, dispatched |-> FALSE, covers |-> {}]

Executing(x) == thread[x].pc # "idle"

Mishap(kind) == /\ kind \in Faults
                /\ mishaps < MaxMishaps
                /\ mishaps' = mishaps + 1

Init ==
    /\ parent = NoParent
    /\ kids = {}
    /\ work = [x \in Rows |-> NoRow]
    /\ thread = [x \in Rows |-> NoThread]
    /\ posts = {}
    /\ api = [c \in Clients |-> NoRequest]
    /\ createdBy = "absent"
    /\ mishaps = 0
    /\ retried = 0

-----------------------------------------------------------------------------
(* create_fanout_task: parent, children and PARTIALLY_RUNNING in one       *)
(* transaction.                                                            *)

\* Shards of shard_size items, the last one possibly shorter.
ShardCount(items) == (items + ShardSize - 1) \div ShardSize

CreateFanOut(items, header) ==
    /\ parent.status = "NONE"
    /\ ShardCount(items) <= MaxChildren
    /\ kids' = 1..ShardCount(items)
    /\ parent' = [parent EXCEPT !.status = "PARTIALLY_RUNNING",
                                !.total = ShardCount(items)]
    /\ work' = [x \in Rows |-> IF x \in kids' THEN NewWork ELSE work[x]]
    /\ createdBy' = header
    /\ UNCHANGED <<thread, posts, api, mishaps, retried>>

-----------------------------------------------------------------------------
(* refresh_parent_state.                                                   *)

InStatus(rows, statuses) == Cardinality({x \in kids : rows[x].status \in statuses})

\* Mutant: a canceled child is counted as failed by two branches.
CountedTwice(p, rows) ==
    [p EXCEPT !.total = Cardinality(kids),
              !.succeeded = InStatus(rows, {"SUCCEEDED"}),
              !.failed = InStatus(rows, {"FAILED", "CANCELED", "DEAD"})
                         + InStatus(rows, {"CANCELED"}),
              !.running = InStatus(rows, {"RUNNING"})]

\* _build_child_summary: canceled and dead children count as failed.
Counted(p, rows) ==
    [p EXCEPT !.total = Cardinality(kids),
              !.succeeded = InStatus(rows, {"SUCCEEDED"}),
              !.failed = InStatus(rows, {"FAILED", "CANCELED", "DEAD"}),
              !.running = InStatus(rows, {"RUNNING"})]

\* Mutant: SUCCEEDED is not among the statuses that are left alone.
RefreshedStatusReopening(c) ==
    IF c.status \in {"CANCELED", "DEAD"} THEN c.status
    ELSE IF c.failed > 0 THEN "FAILED"
    ELSE IF c.dispatched THEN "AGGREGATING"
    ELSE IF c.total > 0 THEN "PARTIALLY_RUNNING"
    ELSE c.status

\* Mutant: failed children do not fail the parent.
RefreshedStatusLenient(c) ==
    IF c.status \in {"SUCCEEDED", "CANCELED", "DEAD"} THEN c.status
    ELSE IF c.dispatched THEN "AGGREGATING"
    ELSE IF c.total > 0 THEN "PARTIALLY_RUNNING"
    ELSE c.status

\* The status that follows from the counters c of parent row p.
RefreshedStatus(c) ==
    IF c.status \in {"SUCCEEDED", "CANCELED", "DEAD"} THEN c.status
    ELSE IF c.failed > 0 THEN "FAILED"
    ELSE IF c.dispatched THEN "AGGREGATING"
    ELSE IF c.total > 0 THEN "PARTIALLY_RUNNING"
    ELSE c.status

\* Mutant: the early return comes before the counters are written.
RefreshedUncounted(p, rows) ==
    LET c == Counted(p, rows) IN
    IF p.status \in {"SUCCEEDED", "FAILED", "CANCELED", "DEAD"} THEN p
    ELSE [c EXCEPT !.status = RefreshedStatus(c)]

Refreshed(p, rows) ==
    LET c == Counted(p, rows) IN [c EXCEPT !.status = RefreshedStatus(c)]

\* claim_tasks and recover_expired_running_tasks refresh the parent of the
\* children they moved, and of no other row.
RefreshedFor(moved, p, rows) == IF moved \cap kids = {} THEN p ELSE Refreshed(p, rows)

-----------------------------------------------------------------------------
(* The workers.                                                            *)

\* run_once: recover the rows R whose execution is gone (their lease runs
\* out), then claim the rows C, each part refreshing the parent.
RunOnce(R, C) ==
    LET recovered == [x \in Rows |-> IF x \in R THEN [work[x] EXCEPT !.status = "PENDING"]
                                     ELSE work[x]]
        claimed == [x \in Rows |-> IF x \in C
                       THEN [status |-> "RUNNING", cancel |-> FALSE,
                             attempt_no |-> work[x].attempt_no + 1]
                       ELSE recovered[x]]
    IN
    /\ R \cup C # {}
    /\ \A x \in R : work[x].status = "RUNNING" /\ ~Executing(x)
    /\ \A x \in C : work[x].status = "PENDING"
    /\ work' = claimed
    /\ parent' = RefreshedFor(C, RefreshedFor(R, parent, recovered), claimed)
    /\ thread' = [x \in Rows |-> IF x \in C THEN [pc |-> "running", covers |-> {}]
                                 ELSE thread[x]]
    /\ UNCHANGED <<kids, posts, api, createdBy, mishaps, retried>>

\* is_cancel_requested: the row's own flag, or a parent that is flagged or in
\* a status that stops its children.
SeesCancel(x) == \/ work[x].cancel
                 \/ parent.cancel
                 \/ parent.status \in {"FAILED", "CANCELED", "DEAD"}

\* raise_if_canceled or the heartbeat finds the request.  The event stays set
\* when the request is gone.  The aggregate handler never looks at it.
ObserveCancel(x) ==
    /\ x \in kids
    /\ thread[x].pc = "running"
    /\ SeesCancel(x)
    /\ thread' = [thread EXCEPT ![x].pc = "signaled"]
    /\ UNCHANGED <<parent, kids, work, posts, api, createdBy, mishaps, retried>>

\* load_child_results: the children that are SUCCEEDED when the aggregate
\* handler reads them; the others are skipped.
LoadChildResults(x) ==
    /\ x \in Aggregates
    /\ thread[x].pc = "running"
    /\ thread' = [thread EXCEPT ![x] =
                    [pc |-> "loaded",
                     covers |-> {k \in kids : work[k].status = "SUCCEEDED"}]]
    /\ UNCHANGED <<parent, kids, work, posts, api, createdBy, mishaps, retried>>

\* The verdicts the handler of row x can come to: a shard succeeds (also after
\* its last check for a cancel), fails on an invalid item, or is canceled; an
\* aggregate succeeds on what it loaded, or fails.
MayEnd(x, verdict) ==
    CASE verdict = "SUCCEEDED" -> IF x \in kids THEN TRUE ELSE thread[x].pc = "loaded"
      [] verdict = "FAILED"    -> x \in kids \/ "aggregate_fails" \in Faults
      [] verdict = "CANCELED"  -> x \in kids /\ thread[x].pc = "signaled"

\* mark_task_*, first transaction.  The row is RUNNING and owned: leases are
\* timely.  When it is not, because of a cancel that committed late, the mark
\* is refused and the thread ends.
Finish(x, verdict) ==
    /\ Executing(x)
    /\ MayEnd(x, verdict)
    /\ thread' = [thread EXCEPT ![x] = NoThread]
    /\ IF work[x].status = "RUNNING"
       THEN /\ work' = [work EXCEPT ![x].status = verdict]
            /\ posts' = posts \cup {[row |-> x, attempt_no |-> work[x].attempt_no,
                                     verdict |-> verdict, covers |-> thread[x].covers]}
       ELSE UNCHANGED <<work, posts>>
    /\ UNCHANGED <<parent, kids, api, createdBy, mishaps, retried>>

\* The process dies under the handler.
LoseRun(x) ==
    /\ Executing(x)
    /\ Mishap("lost_run")
    /\ thread' = [thread EXCEPT ![x] = NoThread]
    /\ UNCHANGED <<parent, kids, work, posts, api, createdBy, retried>>

-----------------------------------------------------------------------------
(* mark_task_*, second transaction: _handle_post_success,                  *)
(* _handle_post_failure and _handle_post_child_update.                     *)

\* Mutant: aggregation_dispatched is not looked at.
AggregateReadyAgain(p) ==
    /\ p.status # "FAILED"
    /\ p.total # 0
    /\ p.succeeded = p.total

\* Mutant: one child more is taken for granted.
AggregateReadyEarly(p) ==
    /\ p.status # "FAILED"
    /\ ~p.dispatched
    /\ p.total # 0
    /\ p.succeeded + 1 >= p.total

\* Mutant: ready when no child is running.
AggregateReadyNoneRunning(p) ==
    /\ p.status # "FAILED"
    /\ ~p.dispatched
    /\ p.total # 0
    /\ p.running = 0

\* schedule_aggregate_task_if_ready: what it requires of the refreshed parent.
AggregateReady(p) ==
    /\ p.status # "FAILED"
    /\ ~p.dispatched
    /\ p.total # 0
    /\ p.succeeded = p.total

Unused == {g \in Aggregates : work[g].status = "NONE"}

\* Mutant: only a success updates the parent.
PostChildOnSuccess(post) ==
    LET p == Refreshed(parent, work) IN
    /\ post.row \in kids
    /\ IF post.verdict = "SUCCEEDED" /\ createdBy = "present" /\ AggregateReady(p)
       THEN \E g \in Unused :
               /\ work' = [work EXCEPT ![g] = NewWork]
               /\ parent' = [p EXCEPT !.status = "AGGREGATING", !.dispatched = TRUE]
       ELSE /\ parent' = IF post.verdict = "SUCCEEDED" THEN p ELSE parent
            /\ UNCHANGED work

\* A child's verdict refreshes the parent; a success goes on to schedule the
\* aggregate, if the task has a created_by.
PostChild(post) ==
    LET p == Refreshed(parent, work) IN
    /\ post.row \in kids
    /\ IF post.verdict = "SUCCEEDED" /\ createdBy = "present" /\ AggregateReady(p)
       THEN \E g \in Unused :
               /\ work' = [work EXCEPT ![g] = NewWork]
               /\ parent' = [p EXCEPT !.status = "AGGREGATING", !.dispatched = TRUE]
       ELSE /\ parent' = p
            /\ UNCHANGED work

\* mark_parent_succeeded and mark_parent_failed: whatever the parent's status.
PostAggregate(post) ==
    /\ post.row \in Aggregates
    /\ post.verdict \in {"SUCCEEDED", "FAILED"}
    /\ parent' = [Counted(parent, work) EXCEPT
                    !.status = post.verdict,
                    !.covers = IF post.verdict = "SUCCEEDED" THEN post.covers ELSE @]
    /\ UNCHANGED work

HandlePost(post) ==
    /\ PostChild(post) \/ PostAggregate(post)
    /\ posts' = posts \ {post}
    /\ UNCHANGED <<kids, thread, api, createdBy, mishaps, retried>>

\* The process dies between the two transactions.
LosePost(post) ==
    /\ Mishap("lost_post")
    /\ posts' = posts \ {post}
    /\ UNCHANGED <<parent, kids, work, thread, api, createdBy, retried>>

-----------------------------------------------------------------------------
(* POST /tasks/{id}/cancel and /retry.                                     *)

RowOf(x) == IF x = Parent THEN parent ELSE work[x]

\* A flag that is set already is not written again.
CancelColumns(x) ==
    LET flag == IF RowOf(x).cancel THEN {} ELSE {"cancel"} IN
    CASE RowOf(x).status = "PENDING" -> {"status"} \cup flag
      [] RowOf(x).status \in ActiveStatus \ {"PENDING"} -> flag
      [] OTHER -> {}

\* The results of children are not modelled, nor is their reset.
RetryColumns(x) ==
    IF RowOf(x).status \in RetriableStatus
    THEN {"status"} \cup (IF RowOf(x).cancel THEN {"cancel"} ELSE {})
                    \cup (IF x = Parent /\ parent.covers # {} THEN {"result"} ELSE {})
    ELSE {}

Open(c, op, x, columns) ==
    /\ api[c] = NoRequest
    /\ columns # {}
    /\ api' = [api EXCEPT ![c] = [op |-> op, row |-> x, columns |-> columns]]
    /\ UNCHANGED <<parent, kids, work, thread, posts, createdBy, mishaps>>

CancelRead(c, x) ==
    /\ (IF x = Parent THEN "cancel_parent" ELSE "cancel_work") \in Requests
    /\ Open(c, "cancel", x, CancelColumns(x))
    /\ UNCHANGED retried

RetryRead(c, x) ==
    /\ (IF x = Parent THEN "retry_parent" ELSE "retry_work") \in Requests
    /\ retried < MaxRetries
    /\ Open(c, "retry", x, RetryColumns(x))
    /\ retried' = retried + 1

\* The columns both kinds of row have.
Written(row, r) ==
    [row EXCEPT !.status = IF "status" \in r.columns
                           THEN IF r.op = "cancel" THEN "CANCELED" ELSE "PENDING"
                           ELSE @,
                !.cancel = IF "cancel" \in r.columns THEN r.op = "cancel" ELSE @]

ApiCommit(c) ==
    LET r == api[c] IN
    /\ r # NoRequest
    /\ IF r.row = Parent
       THEN /\ parent' = [Written(parent, r) EXCEPT
                            !.covers = IF "result" \in r.columns THEN {} ELSE @]
            /\ UNCHANGED work
       ELSE /\ work' = [work EXCEPT ![r.row] = Written(@, r)]
            /\ UNCHANGED parent
    /\ api' = [api EXCEPT ![c] = NoRequest]
    /\ UNCHANGED <<kids, thread, posts, createdBy, mishaps, retried>>

-----------------------------------------------------------------------------

\* Something is left that a worker will do for this batch.
Outstanding == \/ posts # {}
               \/ \E x \in Rows : work[x].status \in {"PENDING", "RUNNING"} \/ Executing(x)

\* A batch at rest.  A state from which only this step leads on is the legal
\* end of a behaviour.
Idle == /\ parent.status # "NONE"
        /\ ~Outstanding
        /\ UNCHANGED vars

Next ==
    \/ \E items \in 1..MaxItems, header \in ClientHeaders : CreateFanOut(items, header)
    \/ \E R \in SUBSET Rows, C \in SUBSET Rows : RunOnce(R, C)
    \/ \E x \in Rows :
          \/ ObserveCancel(x)
          \/ LoadChildResults(x)
          \/ \E verdict \in {"SUCCEEDED", "FAILED", "CANCELED"} : Finish(x, verdict)
          \/ LoseRun(x)
    \/ \E post \in posts : HandlePost(post) \/ LosePost(post)
    \/ \E c \in Clients : \/ \E x \in Rows \cup {Parent} : CancelRead(c, x) \/ RetryRead(c, x)
                          \/ ApiCommit(c)
    \/ Idle

Spec == Init /\ [][Next]_vars

\* Workers keep polling, handlers return (an assumption on the handlers) and
\* the thread that wrote a verdict goes on to its parent update.
Fairness ==
    /\ \A x \in Rows :
          /\ WF_vars(\E R \in SUBSET Rows, C \in SUBSET Rows : x \in R \cup C /\ RunOnce(R, C))
          /\ WF_vars(LoadChildResults(x))
          /\ WF_vars(\E verdict \in {"SUCCEEDED", "FAILED", "CANCELED"} : Finish(x, verdict))
    /\ WF_vars(\E post \in posts : HandlePost(post))

FairSpec == Spec /\ Fairness

-----------------------------------------------------------------------------
(* Properties.                                                             *)

\* Type correctness of the parent, its work, the executions and the requests.
TypeOK ==
    /\ parent \in ParentRow
    /\ kids \in SUBSET Children
    /\ work \in [Rows -> WorkRow]
    /\ thread \in [Rows -> Thread]
    /\ posts \in SUBSET Post
    /\ api \in [Clients -> {NoRequest} \cup Request]
    /\ createdBy \in {"present", "absent"}
    /\ mishaps \in Nat
    /\ retried \in Nat

\* A batch has at most one aggregate task, and has one exactly when
\* aggregation_dispatched is set, whatever is retried, canceled, lost or
\* delivered late.
AtMostOneAggregate ==
    /\ Cardinality(Aggregates \ Unused) <= 1
    /\ parent.dispatched <=> Aggregates # Unused

\* The aggregate is scheduled only at a moment when every child is SUCCEEDED.
AggregateAfterAll ==
    [][Unused' # Unused => \A k \in kids : work[k].status = "SUCCEEDED"]_vars

\* A batch is never forgotten: while its parent is unsettled there is a task to
\* claim, to recover or to finish, or a parent update to make.  Nothing else
\* ever moves a parent: workers do not claim it.
NeverStranded ==
    parent.status \in {"PENDING", "PARTIALLY_RUNNING", "AGGREGATING"} => Outstanding

\* When a batch is at rest, its counters are those of its children.
CountersSettle ==
    ~Outstanding => /\ parent.succeeded = InStatus(work, {"SUCCEEDED"})
                    /\ parent.failed = InStatus(work, {"FAILED", "CANCELED"})
                    /\ parent.running = 0

\* A SUCCEEDED parent reports the results of all its children, none failed and
\* none running.
SucceededIsComplete ==
    parent.status = "SUCCEEDED" => /\ parent.covers = kids
                                   /\ parent.succeeded = parent.total
                                   /\ parent.failed = 0
                                   /\ parent.running = 0

\* A parent that has SUCCEEDED stays so, whatever late parent update arrives.
SucceededIsFinal ==
    [][parent.status = "SUCCEEDED" => parent'.status = "SUCCEEDED" /\ parent'.covers = parent.covers]_vars

\* Every batch settles: children that fail or see a cancel bring the parent
\* down, children that all succeed bring the aggregate, which settles it.
ParentSettles == (parent.status # "NONE") ~> [](parent.status \in {"SUCCEEDED", "FAILED", "CANCELED"})
=============================================================================
