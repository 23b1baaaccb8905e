------------------------------ MODULE SzdmJob ------------------------------
(***************************************************************************)
(* A windowed job: SzdmOrchestrationService creates a job, its items and a *)
(* parent task, the scheduler tick of the workers dispatches items as      *)
(* child tasks within the job's window and, when all have succeeded, one   *)
(* aggregate task, the szdm handlers write the items and the report        *)
(* (SzdmRepository, SzdmSchedulerService, workers/modules/szdm.py).        *)
(*                                                                         *)
(* The verdict of a szdm task updates no parent (the _handle_post methods  *)
(* return at once), so an item and its child task, the job and its parent  *)
(* task go their own ways, and this module is about how they meet.         *)
(*                                                                         *)
(* A transaction is two steps, the snapshot it reads and the commit that   *)
(* writes the columns whose value differs from the snapshot.  The session  *)
(* has autoflush off: refresh_job_counts, called after an item was         *)
(* changed, counts the items without that change.  Every reader of the     *)
(* stored counters refreshes them first, so they are not state here.       *)
(*                                                                         *)
(* Leases are timely and a request is one step: TaskLease and TaskFanOut   *)
(* show the races these make.  Priorities only order the items a tick      *)
(* takes, and any order is allowed; reuse of stored results changes none   *)
(* of the steps.                                                           *)
(***************************************************************************)
EXTENDS Integers, FiniteSets, TaskStatus

CONSTANTS
    Items,        \* items of the job
    Agg,          \* id of the aggregate task
    Parent,       \* id of the parent task
    MaxParallel,  \* max_parallel_children
    BatchSize,    \* dispatch_batch_size
    PerJobLimit,  \* szdm_scheduler_per_job_dispatch_limit
    Requests,     \* a subset of RequestKinds
    Faults,       \* a subset of FaultKinds
    MaxMishaps,   \* bound on the mishaps of a behaviour
    MaxRetries    \* bound on the retry requests of a behaviour

RequestKinds == {"cancel_parent", "cancel_task", "retry_parent", "retry_task", "get"}

\* crash: the process dies under a handler.  item_error: the sub handler
\* raises (object store or database) before the result is stored.
\* progress_error: the set_progress after it raises.  fail_error: the write of
\* the item's failure raises.  mark_error: the database fails under the task's verdict.
\* aggregate_error: the aggregate handler raises.
FaultKinds == {"crash", "item_error", "progress_error", "fail_error", "mark_error",
               "aggregate_error"}

\* create_job refuses a batch larger than the window, and a job has an item.
ASSUME SzdmJobAssumption ==
    /\ IsFiniteSet(Items) /\ Items # {}
    /\ Agg \notin Items /\ Parent \notin Items \cup {Agg}
    /\ {MaxParallel, BatchSize, PerJobLimit} \subseteq Nat \ {0}
    /\ BatchSize <= MaxParallel
    /\ Requests \subseteq RequestKinds
    /\ Faults \subseteq FaultKinds
    /\ {MaxMishaps, MaxRetries} \subseteq Nat

VARIABLES
    job,      \* the szdm_job row; covers: the items in the stored report
    item,     \* status of each szdm_item
    parent,   \* the parent task
    task,     \* the child task of each item and the aggregate task
    thread,   \* the execution of each task
    tick,     \* the scheduler transaction that holds the lock of the job row
    reader,   \* the transaction of a GET of the job
    mishaps,  \* mishaps so far
    retried   \* retry requests so far

vars == <<job, item, parent, task, thread, tick, reader, mishaps, retried>>

-----------------------------------------------------------------------------
(* The state.                                                              *)

Tasks == Items \cup {Agg}

Job == [status : {"PARTIALLY_RUNNING", "AGGREGATING", "SUCCEEDED", "FAILED"},
        report : {"PENDING", "RUNNING", "SUCCEEDED"},
        covers : SUBSET Items]

ItemStatus == {"PENDING", "DISPATCHED", "RUNNING", "SUCCEEDED", "FAILED"}

ParentTask == [status     : {"PENDING", "PARTIALLY_RUNNING", "AGGREGATING",
                             "SUCCEEDED", "FAILED", "CANCELED"},
               cancel     : BOOLEAN,
               dispatched : BOOLEAN]   \* aggregation_dispatched

TaskRow == [status : {"NONE", "PENDING", "RUNNING", "SUCCEEDED", "FAILED", "CANCELED"},
            cancel : BOOLEAN]

\* What a transaction of a handler or a reader is going to write besides the
\* item: the status of the job row, the status of the parent row.
Write == [open : BOOLEAN, job : BOOLEAN, parent : BOOLEAN]
NoWrite == [open |-> FALSE, job |-> FALSE, parent |-> FALSE]

\* enter: before its first transaction.  check: before raise_if_canceled.
\* body: before the transaction that stores its result.  failing: before
\* mark_item_failed.  exit: before the task's verdict.
Thread == [pc      : {"idle", "enter", "check", "body", "failing", "exit"},
           tx      : Write,
           signal  : BOOLEAN,            \* its cancel_event
           verdict : {"none", "SUCCEEDED", "FAILED", "CANCELED"},
           covers  : SUBSET Items]       \* the results the aggregate has loaded

NoThread == [pc |-> "idle", tx |-> NoWrite, signal |-> FALSE, verdict |-> "none",
             covers |-> {}]
NewThread == [NoThread EXCEPT !.pc = "enter"]

Tick == [open : BOOLEAN, items : SUBSET Items, fails : BOOLEAN, agg : BOOLEAN,
         parent : BOOLEAN]
NoTick == [open |-> FALSE, items |-> {}, fails |-> FALSE, agg |-> FALSE, parent |-> FALSE]

NoTask == [status |-> "NONE", cancel |-> FALSE]
NewTask == [status |-> "PENDING", cancel |-> FALSE]

Executing(x) == thread[x].pc # "idle"
InStatus(statuses) == {i \in Items : item[i] \in statuses}

Mishap(kind) == /\ kind \in Faults
                /\ mishaps < MaxMishaps
                /\ mishaps' = mishaps + 1

\* create_job: parent task, job and items in one transaction.
Init ==
    /\ job = [status |-> "PARTIALLY_RUNNING", report |-> "PENDING", covers |-> {}]
    /\ item = [i \in Items |-> "PENDING"]
    /\ parent = [status |-> "PARTIALLY_RUNNING", cancel |-> FALSE, dispatched |-> FALSE]
    /\ task = [x \in Tasks |-> NoTask]
    /\ thread = [x \in Tasks |-> NoThread]
    /\ tick = NoTick
    /\ reader = NoWrite
    /\ mishaps = 0
    /\ retried = 0

-----------------------------------------------------------------------------
(* refresh_job_counts fails the job and its parent.                        *)

Fails == InStatus({"FAILED"}) # {} /\ job.report = "PENDING"

\* Mutant: the parent is failed only together with the job.
RefreshWriteOnce == [open   |-> TRUE,
                     job    |-> Fails /\ job.status # "FAILED",
                     parent |-> Fails /\ job.status # "FAILED"]

\* The transaction that refreshes now will write the rows it finds unfailed.
RefreshWrite == [open   |-> TRUE,
                 job    |-> Fails /\ job.status # "FAILED",
                 parent |-> Fails /\ parent.status # "FAILED"]

\* Its commit waits for the lock of the job row if it writes it.
CommitRefresh(w) ==
    /\ w.open
    /\ w.job => ~tick.open
    /\ job' = [job EXCEPT !.status = IF w.job THEN "FAILED" ELSE @]
    /\ parent' = [parent EXCEPT !.status = IF w.parent THEN "FAILED" ELSE @]

-----------------------------------------------------------------------------
(* SzdmSchedulerService.tick for this job: claim_dispatchable_jobs locks   *)
(* its row, then dispatch_items_for_job and schedule_aggregate_if_ready.   *)

Min2(a, b) == IF a <= b THEN a ELSE b

\* Mutant: the slots in use are not taken off.
DispatchLimitUnwindowed == Min2(PerJobLimit, BatchSize)

\* How many items this tick may dispatch.
DispatchLimit ==
    Min2(Min2(PerJobLimit, BatchSize),
         MaxParallel - Cardinality(InStatus({"DISPATCHED", "RUNNING"})))

\* The items a tick takes: as many PENDING ones as the limit allows.  That the
\* refresh has just failed the job does not keep it from dispatching.
Batches ==
    LET pending == InStatus({"PENDING"})
        size == Min2(DispatchLimit, Cardinality(pending))
    IN IF size <= 0 THEN {{}} ELSE {D \in SUBSET pending : Cardinality(D) = size}

\* Mutant: an item that failed does not hold up the report.
ReadyToReportLenient == /\ \A i \in Items : item[i] \in {"SUCCEEDED", "FAILED"}
                        /\ job.report = "PENDING"

ReadyToReport == /\ \A i \in Items : item[i] = "SUCCEEDED"
                 /\ job.report = "PENDING"

\* A tick that changes nothing is left out.
TickRead ==
    /\ ~tick.open
    /\ job.status = "PARTIALLY_RUNNING"
    /\ \E batch \in Batches :
          tick' = [open |-> TRUE, items |-> batch, fails |-> Fails,
                   agg |-> ReadyToReport,
                   parent |-> \/ Fails /\ parent.status # "FAILED"
                              \/ ReadyToReport /\ parent.status # "AGGREGATING"]
    /\ tick'.items # {} \/ tick'.fails \/ tick'.agg
    /\ UNCHANGED <<job, item, parent, task, thread, reader, mishaps, retried>>

TickCommit ==
    /\ tick.open
    /\ item' = [i \in Items |-> IF i \in tick.items THEN "DISPATCHED" ELSE item[i]]
    /\ task' = [x \in Tasks |-> IF x \in tick.items \/ (x = Agg /\ tick.agg)
                                THEN NewTask ELSE task[x]]
    /\ job' = [job EXCEPT !.status = IF tick.agg THEN "AGGREGATING"
                                     ELSE IF tick.fails THEN "FAILED" ELSE @,
                          !.report = IF tick.agg THEN "RUNNING" ELSE @]
    /\ parent' = [parent EXCEPT
                    !.status = IF ~tick.parent THEN @
                               ELSE IF tick.agg THEN "AGGREGATING" ELSE "FAILED",
                    !.dispatched = @ \/ tick.agg]
    /\ tick' = NoTick
    /\ UNCHANGED <<thread, reader, mishaps, retried>>

-----------------------------------------------------------------------------
(* run_once: recovery and claim of one task; those of a child refresh the  *)
(* parent from the child tasks (refresh_parent_state).                     *)

RefreshedParent(rows) ==
    LET kids == {i \in Items : rows[i].status # "NONE"} IN
    [parent EXCEPT !.status =
        IF @ \in {"SUCCEEDED", "CANCELED"} THEN @
        ELSE IF \E i \in kids : rows[i].status \in {"FAILED", "CANCELED"} THEN "FAILED"
        ELSE IF parent.dispatched THEN "AGGREGATING"
        ELSE IF kids # {} THEN "PARTIALLY_RUNNING"
        ELSE @]

Move(x, row) ==
    /\ task' = [task EXCEPT ![x] = row]
    /\ parent' = IF x \in Items THEN RefreshedParent(task') ELSE parent

\* The lease of a task whose execution is gone runs out.
Recover(x) ==
    /\ task[x].status = "RUNNING"
    /\ ~Executing(x)
    /\ Move(x, [task[x] EXCEPT !.status = "PENDING"])
    /\ UNCHANGED <<job, item, thread, tick, reader, mishaps, retried>>

Claim(x) ==
    /\ task[x].status = "PENDING"
    /\ ~Executing(x)
    /\ Move(x, [status |-> "RUNNING", cancel |-> FALSE])
    /\ thread' = [thread EXCEPT ![x] = NewThread]
    /\ UNCHANGED <<job, item, tick, reader, mishaps, retried>>

-----------------------------------------------------------------------------
(* The handlers.                                                           *)

SetThread(x, th) == thread' = [thread EXCEPT ![x] = th]

SeesCancel(x) == \/ task[x].cancel
                 \/ parent.cancel
                 \/ parent.status \in {"FAILED", "CANCELED"}

\* The heartbeat sets the cancel_event, which stays set.
Signal(x) ==
    /\ thread[x].pc \in {"enter", "check"}
    /\ ~thread[x].signal
    /\ SeesCancel(x)
    /\ SetThread(x, [thread[x] EXCEPT !.signal = TRUE])
    /\ UNCHANGED <<job, item, parent, task, tick, reader, mishaps, retried>>

\* Mutant: the verdict is forgotten.
CheckWithoutVerdict(x) ==
    /\ thread[x].pc = "check"
    /\ SetThread(x, IF thread[x].signal \/ SeesCancel(x)
                    THEN [thread[x] EXCEPT !.pc = IF x = Agg THEN "exit" ELSE "failing"]
                    ELSE [thread[x] EXCEPT !.pc = "body"])
    /\ UNCHANGED <<job, item, parent, task, tick, reader, mishaps, retried>>

\* raise_if_canceled.  The sub handler goes on to fail its item.
Check(x) ==
    /\ thread[x].pc = "check"
    /\ SetThread(x, IF thread[x].signal \/ SeesCancel(x)
                    THEN [thread[x] EXCEPT !.pc = IF x = Agg THEN "exit" ELSE "failing",
                                           !.verdict = "CANCELED"]
                    ELSE [thread[x] EXCEPT !.pc = "body"])
    /\ UNCHANGED <<job, item, parent, task, tick, reader, mishaps, retried>>

\* mark_item_running, mark_item_succeeded or mark_item_failed reads.
ItemRead(i) ==
    /\ thread[i].pc \in {"enter", "body", "failing"}
    /\ ~thread[i].tx.open
    /\ SetThread(i, [thread[i] EXCEPT !.tx = RefreshWrite])
    /\ UNCHANGED <<job, item, parent, task, tick, reader, mishaps, retried>>

\* and commits.
ItemCommit(i) ==
    LET th == [thread[i] EXCEPT !.tx = NoWrite] IN
    /\ CommitRefresh(thread[i].tx)
    /\ \/ /\ th.pc = "enter"
          /\ item' = [item EXCEPT ![i] = "RUNNING"]
          /\ SetThread(i, [th EXCEPT !.pc = "check"])
       \/ /\ th.pc = "body"
          /\ item' = [item EXCEPT ![i] = "SUCCEEDED"]
          /\ SetThread(i, [th EXCEPT !.pc = "exit", !.verdict = "SUCCEEDED"])
       \/ /\ th.pc = "failing"
          /\ item' = [item EXCEPT ![i] = "FAILED"]
          /\ SetThread(i, [th EXCEPT !.pc = "exit"])
    /\ UNCHANGED <<task, tick, reader, mishaps, retried>>

\* The sub handler raises: in a transaction, at the object store, or in the
\* set_progress that follows the stored result.  Its except clause fails the
\* item, and what leaves it fails the task.
ItemError(i) ==
    /\ \/ thread[i].pc \in {"enter", "body"} /\ Mishap("item_error")
       \/ /\ thread[i].pc = "exit" /\ thread[i].verdict = "SUCCEEDED"
          /\ Mishap("progress_error")
    /\ SetThread(i, [thread[i] EXCEPT !.pc = "failing", !.tx = NoWrite,
                                      !.verdict = "FAILED"])
    /\ UNCHANGED <<job, item, parent, task, tick, reader, retried>>

\* mark_item_failed raises: the item stays as it is.
FailError(i) ==
    /\ thread[i].pc = "failing"
    /\ Mishap("fail_error")
    /\ SetThread(i, [thread[i] EXCEPT !.pc = "exit", !.tx = NoWrite,
                                      !.verdict = "FAILED"])
    /\ UNCHANGED <<job, item, parent, task, tick, reader, retried>>

\* Mutant: the items are not checked, the results there are are taken.
AggregateReadUnchecked ==
    /\ thread[Agg].pc = "enter"
    /\ SetThread(Agg, [thread[Agg] EXCEPT !.pc = "check", !.covers = InStatus({"SUCCEEDED"})])
    /\ UNCHANGED <<job, item, parent, task, tick, reader, mishaps, retried>>

\* The aggregate handler reads the items, all of which must be SUCCEEDED.
AggregateRead ==
    /\ thread[Agg].pc = "enter"
    /\ SetThread(Agg,
           IF InStatus({"SUCCEEDED"}) = Items
           THEN [thread[Agg] EXCEPT !.pc = "check", !.covers = Items]
           ELSE [thread[Agg] EXCEPT !.pc = "exit", !.verdict = "FAILED"])
    /\ UNCHANGED <<job, item, parent, task, tick, reader, mishaps, retried>>

\* finish_report reads the job and the parent,
ReportRead ==
    /\ thread[Agg].pc = "body"
    /\ ~thread[Agg].tx.open
    /\ SetThread(Agg, [thread[Agg] EXCEPT !.tx =
                         [open |-> TRUE, job |-> job.status # "SUCCEEDED",
                          parent |-> parent.status # "SUCCEEDED"]])
    /\ UNCHANGED <<job, item, parent, task, tick, reader, mishaps, retried>>

\* and commits.
ReportCommit ==
    LET tx == thread[Agg].tx IN
    /\ tx.open
    /\ ~tick.open
    /\ job' = [status |-> IF tx.job THEN "SUCCEEDED" ELSE job.status,
               report |-> "SUCCEEDED", covers |-> thread[Agg].covers]
    /\ parent' = [parent EXCEPT !.status = IF tx.parent THEN "SUCCEEDED" ELSE @]
    /\ SetThread(Agg, [thread[Agg] EXCEPT !.tx = NoWrite, !.pc = "exit",
                                          !.verdict = "SUCCEEDED"])
    /\ UNCHANGED <<item, task, tick, reader, mishaps, retried>>

\* The aggregate handler raises: in a transaction, at the object store, or in
\* the set_progress after the report.
AggregateError ==
    /\ \/ thread[Agg].pc \in {"enter", "body"}
       \/ thread[Agg].pc = "exit" /\ thread[Agg].verdict = "SUCCEEDED"
    /\ Mishap("aggregate_error")
    /\ SetThread(Agg, [thread[Agg] EXCEPT !.pc = "exit", !.tx = NoWrite,
                                          !.verdict = "FAILED"])
    /\ UNCHANGED <<job, item, parent, task, tick, reader, retried>>

\* mark_task_*: nothing follows the verdict of a szdm task.
Mark(x) ==
    /\ thread[x].pc = "exit"
    /\ task' = [task EXCEPT ![x].status = thread[x].verdict]
    /\ SetThread(x, NoThread)
    /\ UNCHANGED <<job, item, parent, tick, reader, mishaps, retried>>

\* The database fails under the verdict: a success turns into a failure, any
\* other verdict is lost with its thread.
MarkError(x) ==
    /\ thread[x].pc = "exit"
    /\ Mishap("mark_error")
    /\ SetThread(x, IF thread[x].verdict = "SUCCEEDED"
                    THEN [thread[x] EXCEPT !.verdict = "FAILED"]
                    ELSE NoThread)
    /\ UNCHANGED <<job, item, parent, task, tick, reader, retried>>

\* The process dies under the handler; its transaction rolls back.
Crash(x) ==
    /\ Executing(x)
    /\ Mishap("crash")
    /\ SetThread(x, NoThread)
    /\ UNCHANGED <<job, item, parent, task, tick, reader, retried>>

-----------------------------------------------------------------------------
(* Requests.                                                               *)

\* request_cancel.
CancelParent ==
    /\ "cancel_parent" \in Requests
    /\ parent.status \in ActiveStatus
    /\ ~parent.cancel
    /\ parent' = [parent EXCEPT !.cancel = TRUE,
                    !.status = IF @ = "PENDING" THEN "CANCELED" ELSE @]
    /\ UNCHANGED <<job, item, task, thread, tick, reader, mishaps, retried>>

CancelTask(x) ==
    /\ "cancel_task" \in Requests
    /\ task[x].status \in ActiveStatus
    /\ ~task[x].cancel
    /\ task' = [task EXCEPT ![x].cancel = TRUE,
                            ![x].status = IF @ = "PENDING" THEN "CANCELED" ELSE @]
    /\ UNCHANGED <<job, item, parent, thread, tick, reader, mishaps, retried>>

\* retry_task.  Neither changes the job or the item, and workers do not claim
\* a parent.
RetryParent ==
    /\ "retry_parent" \in Requests
    /\ parent.status \in RetriableStatus
    /\ retried < MaxRetries
    /\ retried' = retried + 1
    /\ parent' = [parent EXCEPT !.status = "PENDING", !.cancel = FALSE]
    /\ UNCHANGED <<job, item, task, thread, tick, reader, mishaps>>

RetryTask(x) ==
    /\ "retry_task" \in Requests
    /\ task[x].status \in RetriableStatus
    /\ retried < MaxRetries
    /\ retried' = retried + 1
    /\ task' = [task EXCEPT ![x] = NewTask]
    /\ UNCHANGED <<job, item, parent, thread, tick, reader, mishaps>>

\* GET of the job refreshes its counts, and the session commits.
GetRead ==
    /\ "get" \in Requests
    /\ ~reader.open
    /\ reader' = RefreshWrite
    /\ reader'.job \/ reader'.parent
    /\ UNCHANGED <<job, item, parent, task, thread, tick, mishaps, retried>>

GetCommit ==
    /\ CommitRefresh(reader)
    /\ reader' = NoWrite
    /\ UNCHANGED <<item, task, thread, tick, mishaps, retried>>

-----------------------------------------------------------------------------

\* Something is left that a worker will do for this job.
Outstanding ==
    \/ tick.open
    \/ \E x \in Tasks : task[x].status \in {"PENDING", "RUNNING"} \/ Executing(x)
    \/ /\ job.status = "PARTIALLY_RUNNING"
       /\ Fails \/ ReadyToReport \/ Batches # {{}}

\* Workers poll and find nothing.  A state from which only this step leads on
\* is the legal end of a behaviour.
Idle == ~Outstanding /\ UNCHANGED vars

Next ==
    \/ TickRead
    \/ TickCommit
    \/ \E x \in Tasks : \/ Recover(x) \/ Claim(x)
                        \/ Signal(x) \/ Check(x)
                        \/ Mark(x) \/ MarkError(x) \/ Crash(x)
                        \/ CancelTask(x) \/ RetryTask(x)
    \/ \E i \in Items : ItemRead(i) \/ ItemCommit(i) \/ ItemError(i) \/ FailError(i)
    \/ AggregateRead \/ ReportRead \/ ReportCommit \/ AggregateError
    \/ CancelParent \/ RetryParent
    \/ GetRead \/ GetCommit
    \/ Idle

Spec == Init /\ [][Next]_vars

\* Workers tick and poll, handlers return, an open transaction ends.  Nobody
\* has to cancel, retry or look at a job.
Fairness ==
    /\ WF_vars(TickRead)
    /\ WF_vars(TickCommit)
    /\ \A x \in Tasks : /\ WF_vars(Recover(x))
                        /\ WF_vars(Claim(x))
                        /\ WF_vars(Check(x))
                        /\ WF_vars(Mark(x))
    /\ \A i \in Items : WF_vars(ItemRead(i)) /\ WF_vars(ItemCommit(i))
    /\ WF_vars(AggregateRead) /\ WF_vars(ReportRead) /\ WF_vars(ReportCommit)
    /\ WF_vars(GetCommit)

FairSpec == Spec /\ Fairness

-----------------------------------------------------------------------------
(* Properties.                                                             *)

\* Type correctness of the job, its items, the tasks, the executions and the
\* open transactions.
TypeOK ==
    /\ job \in Job
    /\ item \in [Items -> ItemStatus]
    /\ parent \in ParentTask
    /\ task \in [Tasks -> TaskRow]
    /\ thread \in [Tasks -> Thread]
    /\ tick \in Tick
    /\ reader \in Write
    /\ mishaps \in Nat
    /\ retried \in Nat

\* The report of a job that SUCCEEDED holds the results of all its items,
\* whatever crashed, failed, was canceled or retried on the way: an item that
\* runs again after the report was scheduled keeps the report back.
ReportIsComplete == job.status = "SUCCEEDED" => job.covers = Items

\* Where no task runs twice, at most max_parallel_children items are
\* dispatched or running, however ticks and verdicts interleave.
WindowRespected == Cardinality(InStatus({"DISPATCHED", "RUNNING"})) <= MaxParallel

\* Where handlers may only raise, every job settles: a failed item brings it
\* down although the transaction that fails the item does not count it, and
\* items that all succeed bring the report.
JobSettles == <>[](job.status \in {"SUCCEEDED", "FAILED"})

\* Where handlers may only raise, a job that FAILED with nothing left to do has
\* a parent task that is FAILED as well, although a claim of another child may
\* have put the parent back to PARTIALLY_RUNNING in between.
FailureReachesParent ==
    job.status = "FAILED" /\ ~Outstanding => parent.status = "FAILED"
=============================================================================
