----------------------------- MODULE TaskLease -----------------------------
(***************************************************************************)
(* Execution of tasks under leases: TaskRepository (task_repository.py),   *)
(* WorkerRunner (worker_runner.py), TaskExecutionService and the cancel    *)
(* and retry routes (routes/tasks.py), for tasks without parent.  TaskFanOut models  *)
(* the parents.                                                            *)
(*                                                                         *)
(* A transaction that locks its rows (SELECT ... FOR UPDATE SKIP LOCKED)   *)
(* is one step.  A transaction that reads a row with session.get and writes*)
(* it back is two: the snapshot is taken in the first, and the second      *)
(* writes the columns whose value differs from the snapshot, whatever the  *)
(* row has become (SQLAlchemy updates changed columns by primary key, and  *)
(* the table has no version column).                                       *)
(*                                                                         *)
(* Time is abstract: a lease is live or expired, a schedule due or not.    *)
(* The progress columns, the event log and the optional deletion of        *)
(* attempt rows (task_attempt_cleanup_on_completion, off by default) are   *)
(* left out: no guard reads them.                                          *)
(***************************************************************************)
EXTENDS Naturals, Sequences, FiniteSets, TaskStatus

CONSTANTS
    Tasks,         \* rows of the task table
    Workers,       \* values of settings.worker_id
    NoWorker,      \* NULL in lease_owner
    Clients,       \* concurrent API requests
    ApiOps,        \* the requests they make: a subset of {"cancel", "retry"}
    MaxAttempts,   \* max_attempts of every task
    Concurrency,   \* threads of a worker's executor
    ClaimBatch,    \* worker_claim_batch_size
    RecoverLimit,  \* worker_recover_limit
    Handles,       \* Handles[w]: tasks whose type is in w's handler registry
    Faults,        \* the mishaps that happen, a subset of FaultKinds
    MaxMishaps,    \* bound on the number of mishaps of a behaviour
    MaxRetries     \* no manual retry starts once a task has had this many

\* crash: a worker process stops and starts again with the same worker_id.
\* mark_error: the database fails while a verdict is written.
\* beat_error: the database fails under a heartbeat, which ends its thread.
\* late_lease: a lease expires although its attempt is alive (a stalled
\* heartbeat, or a task that waits in the executor, where none runs yet).
FaultKinds == {"crash", "mark_error", "beat_error", "late_lease"}

ASSUME TaskLeaseAssumption ==
    /\ NoWorker \notin Workers
    /\ ApiOps \subseteq {"cancel", "retry"}
    /\ Faults \subseteq FaultKinds
    /\ MaxAttempts \in 0..20
    /\ {Concurrency, ClaimBatch, RecoverLimit} \subseteq Nat \ {0}
    /\ Handles \in [Workers -> SUBSET Tasks]
    /\ {MaxMishaps, MaxRetries} \subseteq Nat

VARIABLES
    task,        \* the row of the task table
    attempts,    \* the rows of task_attempt and the thread that runs each
    api,         \* the transaction an API request has open
    recoveries,  \* history: recoveries of a task
    retries,     \* history: manual retries of a task
    mishaps      \* mishaps so far

vars == <<task, attempts, api, recoveries, retries, mishaps>>

-----------------------------------------------------------------------------
(* The state.                                                              *)

Row == [status     : WorkStatus,
        owner      : Workers \cup {NoWorker},      \* lease_owner
        lease      : {"none", "live", "expired"},  \* lease_until
        due        : BOOLEAN,                      \* scheduled_at <= now
        cancel     : BOOLEAN,                      \* cancel_requested
        attempt_no : Nat]

\* Where the thread of an attempt is: waiting in the executor, in the handler,
\* about to write its verdict, past the ownership check of that write, or gone
\* (ended by itself or lost in a crash).
ThreadPC == {"queued", "running", "marking", "owned", "ended", "lost"}

Verdict == {"SUCCEEDED", "RETRY_WAIT", "FAILED", "DEAD", "CANCELED"}

Attempt == [worker : Workers,
            status : AttemptStatus \ {"NONE"},     \* task_attempt.status
            pc     : ThreadPC,
            mark   : Verdict \cup {"none"},        \* status it means to write
            beat   : {"off", "idle", "read"},      \* its heartbeat thread
            signal : BOOLEAN]                      \* its cancel_event

Column == {"status", "owner", "lease", "due", "cancel"}
NoRequest == [op |-> "none"]
Request == [op : {"cancel", "retry"}, task : Tasks, columns : SUBSET Column]

NewRow == [status |-> "PENDING", owner |-> NoWorker, lease |-> "none",
           due |-> TRUE, cancel |-> FALSE, attempt_no |-> 0]

Live(a) == a.pc \notin {"ended", "lost"}
InExecutor(a) == a.pc \in {"running", "marking", "owned"}

\* _get_running_owned_task and renew_lease: the row is RUNNING under the
\* caller's worker_id.  Neither compares the attempt number.
Owns(t, n) == /\ task[t].status = "RUNNING"
              /\ task[t].owner = attempts[t][n].worker

Threads == UNION {{t} \X DOMAIN attempts[t] : t \in Tasks}
Busy(w) == {x \in Threads : /\ attempts[x[1]][x[2]].worker = w
                            /\ InExecutor(attempts[x[1]][x[2]])}

SetAttempt(t, n, a) == attempts' = [attempts EXCEPT ![t][n] = a]

Mishap(kind) == /\ kind \in Faults
                /\ mishaps < MaxMishaps
                /\ mishaps' = mishaps + 1

Init ==
    /\ task = [t \in Tasks |-> NewRow]
    /\ attempts = [t \in Tasks |-> <<>>]
    /\ api = [c \in Clients |-> NoRequest]
    /\ recoveries = [t \in Tasks |-> 0]
    /\ retries = [t \in Tasks |-> 0]
    /\ mishaps = 0

-----------------------------------------------------------------------------
(* run_once: one transaction recovers expired leases and claims due tasks, *)
(* then the claimed tasks are submitted to the executor.  The claim's      *)
(* query does not see the recovered rows, which are not flushed.           *)

Recovered(row) == [row EXCEPT !.status = "PENDING", !.owner = NoWorker,
                              !.lease = "none"]

\* Mutant: the claim forgets lease_until.
ClaimedUnleased(row, w) == [row EXCEPT !.status = "RUNNING", !.owner = w,
                                       !.cancel = FALSE, !.attempt_no = @ + 1]

Claimed(row, w) == [row EXCEPT !.status = "RUNNING", !.owner = w,
                               !.lease = "live", !.cancel = FALSE,
                               !.attempt_no = @ + 1]

NewAttempt(w) == [worker |-> w, status |-> "RUNNING", pc |-> "queued",
                  mark |-> "none", beat |-> "off", signal |-> FALSE]

\* Mutant: recovery does not look at lease_until.
AnyRunning(t) == task[t].status = "RUNNING"

Expired(t) == task[t].status = "RUNNING" /\ task[t].lease = "expired"
Claimable(t) == task[t].status \in ClaimableStatus /\ task[t].due

\* R and C are the rows the two queries return: any sets within the limits,
\* since rows locked by others are skipped.
RunOnce(w, R, C) ==
    /\ R \cup C # {}
    /\ \A t \in R : Expired(t)
    /\ \A t \in C : Claimable(t)
    /\ Cardinality(R) <= RecoverLimit
    /\ Cardinality(C) <= ClaimBatch
    /\ task' = [t \in Tasks |-> IF t \in R THEN Recovered(task[t])
                                ELSE IF t \in C THEN Claimed(task[t], w)
                                ELSE task[t]]
    /\ attempts' = [t \in Tasks |-> IF t \in C
                                    THEN Append(attempts[t], NewAttempt(w))
                                    ELSE attempts[t]]
    /\ recoveries' = [t \in Tasks |-> IF t \in R THEN recoveries[t] + 1
                                      ELSE recoveries[t]]
    /\ UNCHANGED <<api, retries, mishaps>>

-----------------------------------------------------------------------------
(* _run_claimed_task: the thread of attempt n of task t.                   *)

\* A task type without handler is failed at once, with no heartbeat.
Start(t, n) ==
    LET a == attempts[t][n] IN
    /\ a.pc = "queued"
    /\ Cardinality(Busy(a.worker)) < Concurrency
    /\ SetAttempt(t, n,
           IF t \in Handles[a.worker]
           THEN [a EXCEPT !.pc = "running", !.beat = "idle"]
           ELSE [a EXCEPT !.pc = "marking", !.mark = "FAILED"])
    /\ UNCHANGED <<task, api, recoveries, retries, mishaps>>

\* Mutants: off by one, each way.
RetryVerdictLate(n) == IF n > MaxAttempts THEN "DEAD" ELSE "RETRY_WAIT"
RetryVerdictEarly(n) == IF n + 1 >= MaxAttempts THEN "DEAD" ELSE "RETRY_WAIT"

\* The verdict on a RetryableTaskError of attempt n.
RetryVerdict(n) == IF n >= MaxAttempts THEN "DEAD" ELSE "RETRY_WAIT"

\* raise_if_canceled: the handler sees the event or the row's flag.
SeesCancel(t, n) == attempts[t][n].signal \/ task[t].cancel

\* The handler returns, raises a RetryableTaskError, raises anything else, or
\* raises TASK_CANCELED out of raise_if_canceled.
HandlerEnds(t, n, verdict) ==
    /\ attempts[t][n].pc = "running"
    /\ verdict \in {"SUCCEEDED", "FAILED", "CANCELED", RetryVerdict(n)}
    /\ verdict = "CANCELED" => SeesCancel(t, n)
    /\ SetAttempt(t, n, [attempts[t][n] EXCEPT !.pc = "marking", !.mark = verdict])
    /\ UNCHANGED <<task, api, recoveries, retries, mishaps>>

\* The thread is over.  Its finally block sets both events and stops the
\* heartbeat, but join(timeout=1) does not wait for one that is in the middle
\* of its transaction.
Ended(a) == [a EXCEPT !.pc = "ended", !.signal = TRUE,
                      !.beat = IF @ = "read" THEN @ ELSE "off"]

\* What an exception out of the marking transaction leads to: mark_succeeded
\* is inside the try, whose last clause marks the task failed instead; the
\* other marks are made in an except clause and their exception ends the thread.
MarkRaises(a) == IF a.mark = "SUCCEEDED"
                 THEN [a EXCEPT !.pc = "marking", !.mark = "FAILED"]
                 ELSE Ended(a)

\* mark_*, first half: read the row and check its owner.
MarkRead(t, n) ==
    LET a == attempts[t][n] IN
    /\ a.pc = "marking"
    /\ SetAttempt(t, n, IF Owns(t, n) THEN [a EXCEPT !.pc = "owned"]
                                      ELSE MarkRaises(a))
    /\ UNCHANGED <<task, api, recoveries, retries, mishaps>>

\* mark_*: the columns written to the row.
Marked(row, verdict) ==
    [row EXCEPT !.status = verdict, !.owner = NoWorker, !.lease = "none",
                !.due = IF verdict = "RETRY_WAIT" THEN FALSE ELSE @]

\* Mutant: the task's own status is copied to the attempt row.
AttemptVerdictCopied(verdict) == verdict

\* mark_*: the status given to the attempt row (_update_attempt_status).
AttemptVerdict(verdict) ==
    IF verdict \in {"SUCCEEDED", "CANCELED"} THEN verdict ELSE "FAILED"

\* Mutant: the attempt row is found by the task's current attempt_no.
MarkCommitOnLatest(t, n) ==
    LET a == attempts[t][n] IN
    /\ a.pc = "owned"
    /\ task' = [task EXCEPT ![t] = Marked(@, a.mark)]
    /\ attempts' = [attempts EXCEPT ![t][n] = Ended(@),
                        ![t][task[t].attempt_no].status = AttemptVerdict(a.mark)]
    /\ UNCHANGED <<api, recoveries, retries, mishaps>>

\* mark_*, second half: the commit.
MarkCommit(t, n) ==
    LET a == attempts[t][n] IN
    /\ a.pc = "owned"
    /\ task' = [task EXCEPT ![t] = Marked(@, a.mark)]
    /\ SetAttempt(t, n, [Ended(a) EXCEPT !.status = AttemptVerdict(a.mark)])
    /\ UNCHANGED <<api, recoveries, retries, mishaps>>

\* The database fails under the mark: the transaction rolls back.
MarkError(t, n) ==
    LET a == attempts[t][n] IN
    /\ a.pc \in {"marking", "owned"}
    /\ Mishap("mark_error")
    /\ SetAttempt(t, n, MarkRaises(a))
    /\ UNCHANGED <<task, api, recoveries, retries>>

-----------------------------------------------------------------------------
(* _heartbeat_loop of attempt n of task t.                                 *)

\* Mutant: a lease that is not renewed ends the loop without a signal.
HeartbeatReadSilent(t, n) ==
    LET a == attempts[t][n] IN
    /\ a.beat = "idle"
    /\ SetAttempt(t, n,
           IF Owns(t, n)
           THEN [a EXCEPT !.beat = "read", !.signal = @ \/ task[t].cancel]
           ELSE [a EXCEPT !.beat = "off"])
    /\ UNCHANGED <<task, api, recoveries, retries, mishaps>>

\* renew_lease reads the row; when it is not RUNNING under this worker_id the
\* loop signals the handler and returns.  The cancel flag is taken from the
\* same snapshot, and the event set, before the transaction commits.
HeartbeatRead(t, n) ==
    LET a == attempts[t][n] IN
    /\ a.beat = "idle"
    /\ SetAttempt(t, n,
           IF Owns(t, n)
           THEN [a EXCEPT !.beat = "read", !.signal = @ \/ task[t].cancel]
           ELSE [a EXCEPT !.beat = "off", !.signal = TRUE])
    /\ UNCHANGED <<task, api, recoveries, retries, mishaps>>

\* The commit: lease_until is the only column of the row that changed.
HeartbeatCommit(t, n) ==
    LET a == attempts[t][n] IN
    /\ a.beat = "read"
    /\ task' = [task EXCEPT ![t].lease = "live"]
    /\ SetAttempt(t, n, [a EXCEPT !.beat = IF Live(a) THEN "idle" ELSE "off"])
    /\ UNCHANGED <<api, recoveries, retries, mishaps>>

\* The database fails under the heartbeat: nothing catches it, the thread ends
\* and the handler is not told.
HeartbeatDies(t, n) ==
    /\ attempts[t][n].beat \in {"idle", "read"}
    /\ Mishap("beat_error")
    /\ SetAttempt(t, n, [attempts[t][n] EXCEPT !.beat = "off"])
    /\ UNCHANGED <<task, api, recoveries, retries>>

-----------------------------------------------------------------------------
(* Time and crashes.                                                       *)

LatestAlive(t) ==
    \E n \in DOMAIN attempts[t] : n = task[t].attempt_no /\ Live(attempts[t][n])

\* lease_until passes.  While the latest attempt is alive this is a mishap:
\* a heartbeat that does not come round in worker_lease_seconds.
LeaseLapse(t) ==
    /\ task[t].status = "RUNNING"
    /\ task[t].lease = "live"
    /\ task' = [task EXCEPT ![t].lease = "expired"]
    /\ IF LatestAlive(t)
       THEN Mishap("late_lease")
       ELSE UNCHANGED mishaps
    /\ UNCHANGED <<attempts, api, recoveries, retries>>

\* scheduled_at passes.
BecomesDue(t) ==
    /\ ~task[t].due
    /\ task' = [task EXCEPT ![t].due = TRUE]
    /\ UNCHANGED <<attempts, api, recoveries, retries, mishaps>>

\* The attempts of worker w that still have a thread, the heartbeat's included.
OnWorker(w, a) == a.worker = w /\ (Live(a) \/ a.beat # "off")
Lost(a) == IF Live(a)
           THEN [a EXCEPT !.pc = "lost", !.mark = "none", !.beat = "off", !.signal = FALSE]
           ELSE [a EXCEPT !.beat = "off"]

\* Worker w stops and restarts: its threads and its executor queue are gone.
Crash(w) ==
    /\ \E x \in Threads : OnWorker(w, attempts[x[1]][x[2]])
    /\ Mishap("crash")
    /\ attempts' = [t \in Tasks |-> [n \in DOMAIN attempts[t] |->
                       IF OnWorker(w, attempts[t][n]) THEN Lost(attempts[t][n])
                                                      ELSE attempts[t][n]]]
    /\ UNCHANGED <<task, api, recoveries, retries>>

-----------------------------------------------------------------------------
(* POST /tasks/{id}/cancel and /retry: request_cancel and retry_task read  *)
(* the row without a lock, and commit when the request ends.               *)

CancelValue == [status |-> "CANCELED", owner |-> NoWorker, lease |-> "none",
                due |-> TRUE, cancel |-> TRUE]

\* Mutant: a cancel of a RUNNING task takes its lease away at once.
CancelSetsRevoking(row) == CASE row.status = "PENDING" -> {"status", "cancel", "owner", "lease"}
                             [] row.status \in ActiveStatus \ {"PENDING"} -> {"cancel", "owner", "lease"}
                             [] OTHER                  -> {}

\* PENDING is canceled on the spot, an active status is only flagged, and
\* every other status (RETRY_WAIT too) is left alone.
CancelSets(row) == CASE row.status = "PENDING"     -> {"status", "cancel", "owner", "lease"}
                     [] row.status \in ActiveStatus \ {"PENDING"} -> {"cancel"}
                     [] OTHER                      -> {}

RetryValue == [status |-> "PENDING", owner |-> NoWorker, lease |-> "none",
               due |-> TRUE, cancel |-> FALSE]

RetrySets(row) == IF row.status \in RetriableStatus
                  THEN {"status", "cancel", "owner", "lease", "due"}
                  ELSE {}

OpSets(op, row) == IF op = "cancel" THEN CancelSets(row) ELSE RetrySets(row)
OpValue(op) == IF op = "cancel" THEN CancelValue ELSE RetryValue

\* The columns the UPDATE will name: those set to another value than was read
\* (scheduled_at is set to the current time, always another value).
Dirty(op, row) == {col \in OpSets(op, row) : col = "due" \/ OpValue(op)[col] # row[col]}

ApiRead(c, t, op) ==
    /\ api[c] = NoRequest
    /\ op = "retry" => \A u \in Tasks : retries[u] < MaxRetries
    /\ Dirty(op, task[t]) # {}
    /\ api' = [api EXCEPT ![c] = [op |-> op, task |-> t,
                                  columns |-> Dirty(op, task[t])]]
    /\ UNCHANGED <<task, attempts, recoveries, retries, mishaps>>

Updated(row, columns, value) ==
    [row EXCEPT !.status = IF "status" \in columns THEN value.status ELSE @,
                !.owner  = IF "owner"  \in columns THEN value.owner  ELSE @,
                !.lease  = IF "lease"  \in columns THEN value.lease  ELSE @,
                !.due    = IF "due"    \in columns THEN value.due    ELSE @,
                !.cancel = IF "cancel" \in columns THEN value.cancel ELSE @]

ApiCommit(c) ==
    LET r == api[c] IN
    /\ r # NoRequest
    /\ task' = [task EXCEPT ![r.task] = Updated(@, r.columns, OpValue(r.op))]
    /\ retries' = [retries EXCEPT ![r.task] = IF r.op = "retry" THEN @ + 1 ELSE @]
    /\ api' = [api EXCEPT ![c] = NoRequest]
    /\ UNCHANGED <<attempts, recoveries, mishaps>>

-----------------------------------------------------------------------------

\* run_once with nothing to recover or to claim: the worker polls again.  A
\* state from which only this step leads on is the legal end of a behaviour.
Idle ==
    /\ \A t \in Tasks : task[t].status \in SettledStatus
    /\ UNCHANGED vars

Next ==
    \/ \E w \in Workers, R \in SUBSET Tasks, C \in SUBSET Tasks : RunOnce(w, R, C)
    \/ \E t \in Tasks : \E n \in DOMAIN attempts[t] :
          \/ Start(t, n)
          \/ \E verdict \in Verdict : HandlerEnds(t, n, verdict)
          \/ MarkRead(t, n)
          \/ MarkCommit(t, n)
          \/ MarkError(t, n)
          \/ HeartbeatRead(t, n)
          \/ HeartbeatCommit(t, n)
          \/ HeartbeatDies(t, n)
    \/ \E t \in Tasks : LeaseLapse(t) \/ BecomesDue(t)
    \/ \E w \in Workers : Crash(w)
    \/ \E c \in Clients : \/ \E t \in Tasks, op \in ApiOps : ApiRead(c, t, op)
                          \/ ApiCommit(c)
    \/ Idle

Spec == Init /\ [][Next]_vars

\* What the code's scheduling gives: workers keep polling and the executor
\* keeps running threads, heartbeats beat, time passes.  Nothing is assumed of
\* handlers (timeout_seconds is stored and read by no code), requests, mishaps.
MaxRuns == MaxAttempts + 1 + MaxMishaps + MaxRetries * Cardinality(Clients)

Fairness ==
    /\ \A t \in Tasks :
          /\ WF_vars(\E w \in Workers, R \in SUBSET Tasks, C \in SUBSET Tasks :
                        t \in R \cup C /\ RunOnce(w, R, C))
          /\ WF_vars(~LatestAlive(t) /\ LeaseLapse(t))
          /\ WF_vars(BecomesDue(t))
    /\ \A t \in Tasks, i \in 1..MaxRuns :
          /\ WF_vars(i \in DOMAIN attempts[t]
                        /\ (Start(t, i) \/ MarkRead(t, i) \/ MarkCommit(t, i)))
          /\ WF_vars(i \in DOMAIN attempts[t] /\ HeartbeatRead(t, i))
          /\ WF_vars(i \in DOMAIN attempts[t] /\ HeartbeatCommit(t, i))

FairSpec == Spec /\ Fairness

-----------------------------------------------------------------------------
(* Properties.                                                             *)

\* Type correctness of the task rows, the attempts and the open requests.
TypeOK ==
    /\ task \in [Tasks -> Row]
    /\ attempts \in [Tasks -> Seq(Attempt)]
    /\ api \in [Clients -> {NoRequest} \cup Request]
    /\ recoveries \in [Tasks -> Nat]
    /\ retries \in [Tasks -> Nat]
    /\ mishaps \in Nat

\* A RUNNING row can always be recovered: it carries a lease, and its owner is
\* the worker that runs its latest attempt, whatever stale writes of cancels,
\* retries, heartbeats and outdated attempts fall on it.  A RUNNING row without
\* lease_until would be skipped by recover_expired_running_tasks forever.
Leased(row, log) ==
    row.status = "RUNNING" => /\ row.lease # "none"
                              /\ row.attempt_no \in DOMAIN log
                              /\ row.owner = log[row.attempt_no].worker
RunningIsLeased == \A t \in Tasks : Leased(task[t], attempts[t])

\* max_attempts bounds what a task does on its own account: executions beyond
\* it are each paid for by one lease recovery or one manual retry.  A claim
\* does not compare attempt_no with max_attempts, so only the verdicts of the
\* attempts keep this.
ClaimBudget ==
    \A t \in Tasks :
        task[t].attempt_no <= (IF MaxAttempts = 0 THEN 1 ELSE MaxAttempts)
                              + recoveries[t] + retries[t]

\* The verdict in the row was reached by an execution: a task is SUCCEEDED only
\* if an attempt succeeded, DEAD only if an attempt failed that had used up
\* max_attempts, waits for a retry only after an attempt that had not.
Vouched(row, log) ==
    /\ row.status = "SUCCEEDED" =>
          \E n \in DOMAIN log : log[n].status = "SUCCEEDED"
    /\ row.status = "DEAD" =>
          \E n \in DOMAIN log : n >= MaxAttempts /\ log[n].status = "FAILED"
    /\ row.status = "RETRY_WAIT" =>
          \E n \in DOMAIN log : n < MaxAttempts /\ log[n].status = "FAILED"
VerdictHasAttempt == \A t \in Tasks : Vouched(task[t], attempts[t])

\* The verdict of an attempt is written once: no later step, late mark or
\* recovery rewrites a finished task_attempt row or removes it.
AttemptVerdictIsFinal ==
    [][\A t \in Tasks : \A n \in DOMAIN attempts[t] :
          attempts[t][n].status # "RUNNING" =>
              n \in DOMAIN attempts'[t] /\ attempts'[t][n].status = attempts[t][n].status]_vars

\* With timely leases and one manual retry at a time, every task goes through
\* the lifecycle of TaskLifecycle, several in one transaction if need be; above
\* all, a second execution starts only when every earlier one is over.
Lifecycle == INSTANCE TaskLifecycle WITH
    life <- [t \in Tasks |->
               [status     |-> task[t].status,
                attempt_no |-> task[t].attempt_no,
                executing  |-> {n \in DOMAIN attempts[t] : Live(attempts[t][n])}]]
LifecycleSpec == Lifecycle!LifeSpec

\* Every execution leaves its handler at last.
HandlersReturn ==
    \A t \in Tasks, i \in 1..MaxRuns :
        []<>(i \in DOMAIN attempts[t] => attempts[t][i].pc # "running")

\* If handlers return, every task settles, whatever crashes, database errors and
\* late leases a behaviour has (finitely many): none stays RUNNING under a lost
\* attempt, and none waits forever for a retry.
EventuallySettled ==
    HandlersReturn => \A t \in Tasks : <>[](task[t].status \in SettledStatus)

\* An execution that no longer owns its task is told so by its heartbeat, so
\* that raise_if_canceled stops it, however long its handler would go on.
RunsUnowned(t, n) == /\ n \in DOMAIN attempts[t]
                     /\ attempts[t][n].pc = "running"
                     /\ ~Owns(t, n)
                     /\ ~attempts[t][n].signal
LostLeaseIsSignalled ==
    \A t \in Tasks, i \in 1..MaxRuns : RunsUnowned(t, i) ~> ~RunsUnowned(t, i)
=============================================================================
