----------------------------- MODULE TaskSubmit -----------------------------
(***************************************************************************)
(* How tasks come into being: requests of clients (TaskCommandService,     *)
(* PolymarketCommandService, the parent of a batch) and the ticks of the   *)
(* workers' scheduler (SystemSchedulerService), which meet in              *)
(* TaskRepository.create_task and its idempotency key.                     *)
(*                                                                         *)
(* A key stands for a pair of task type and idempotency key.  A run of a   *)
(* schedule has the key <<schedule, due time>>; an operator may ask for it *)
(* by hand under the same key.  A transaction is two steps: its snapshot,  *)
(* with the locks it takes, and its end.  An insert waits for an open      *)
(* insert of its key and then fails if that one was committed, so insert   *)
(* and commit are one step.  schedule.enabled is written by no code, and a *)
(* request without idempotency key shares nothing with any other: both are *)
(* left out.                                                               *)
(***************************************************************************)
EXTENDS Naturals, Sequences, FiniteSets, Functions

CONSTANTS
    Keys,         \* keys of requests that have nothing to do with a schedule
    NoKey,        \* the key of no request
    Clients,      \* threads that serve requests
    Schedules,
    Workers,
    Interval,     \* interval_seconds of each schedule
    FirstRun,     \* next_run_at of each schedule when it is created
    ByHand,       \* runs that are also asked for by hand: pairs <<schedule, due time>>
    MaxDue,       \* scheduler_max_due_schedules
    MaxTime,      \* bound on the clock
    MaxMishaps    \* bound on failed transactions

ASSUME TaskSubmitAssumption ==
    /\ NoKey \notin Keys \cup ByHand
    /\ Keys \cap (Schedules \X Nat) = {}
    /\ IsFiniteSet(Schedules)
    /\ ByHand \subseteq Schedules \X Nat
    /\ Interval \in [Schedules -> Nat \ {0}]
    /\ FirstRun \in [Schedules -> Nat]
    /\ MaxDue \in Nat \ {0}
    /\ {MaxTime, MaxMishaps} \subseteq Nat

VARIABLES
    task,      \* the task rows, in the order of their ids: the key of each
    request,   \* the open transaction of each client's request
    answered,  \* the answers clients got: the key asked for, the id returned
    schedule,  \* the system_schedule rows
    tick,      \* the scheduler transaction of each worker
    runs,      \* the due times that the ticks have dispatched, in order
    now,
    mishaps

vars == <<task, request, answered, schedule, tick, runs, now, mishaps>>

-----------------------------------------------------------------------------
(* The state.                                                              *)

AskedKeys == Keys \cup ByHand
AllKeys == AskedKeys \cup (Schedules \X Nat)

NoTask == 0
TaskIds == 1..Len(task)

Request == [open : BOOLEAN, key : AskedKeys \cup {NoKey}, seen : Nat]
NoRequest == [open |-> FALSE, key |-> NoKey, seen |-> NoTask]

Schedule == [next_run_at : Nat, last_task_id : Nat]

\* now: the clock as the tick read it.  claimed: the schedules it has locked,
\* in the order of its query.  seen: the tasks it found under their keys.
Tick == [phase   : {"idle", "started", "claimed"},
         now     : Nat,
         claimed : Seq(Schedules),
         seen    : [Schedules -> Nat]]
NoTick == [phase |-> "idle", now |-> 0, claimed |-> <<>>,
           seen |-> [s \in Schedules |-> NoTask]]

Init ==
    /\ task = <<>>
    /\ request = [c \in Clients |-> NoRequest]
    /\ answered = {}
    /\ schedule = [s \in Schedules |->
                     [next_run_at |-> FirstRun[s], last_task_id |-> NoTask]]
    /\ tick = [w \in Workers |-> NoTick]
    /\ runs = [s \in Schedules |-> <<>>]
    /\ now = 0
    /\ mishaps = 0

\* The lookup of create_task: the task that has the key.
Lookup(k) ==
    IF \E i \in TaskIds : task[i] = k
    THEN CHOOSE i \in TaskIds : task[i] = k
    ELSE NoTask

\* Mutant: no unique constraint backs the lookup.
InsertableAlways(k) == TRUE

\* The unique constraint on task type and idempotency key.
Insertable(k) == \A i \in TaskIds : task[i] # k

-----------------------------------------------------------------------------
(* Requests.                                                               *)

Submit(c, k) ==
    /\ ~request[c].open
    /\ request' = [request EXCEPT ![c] = [open |-> TRUE, key |-> k, seen |-> Lookup(k)]]
    /\ UNCHANGED <<task, answered, schedule, tick, runs, now, mishaps>>

\* The request ends with the task it found or the one it inserts.
Answer(c) ==
    LET r == request[c] IN
    /\ r.open
    /\ r.seen = NoTask => Insertable(r.key)
    /\ task' = IF r.seen = NoTask THEN Append(task, r.key) ELSE task
    /\ answered' = answered \cup
         {[key |-> r.key, id |-> IF r.seen = NoTask THEN Len(task) + 1 ELSE r.seen]}
    /\ request' = [request EXCEPT ![c] = NoRequest]
    /\ UNCHANGED <<schedule, tick, runs, now, mishaps>>

\* Another transaction has inserted the key since the lookup: the integrity
\* error ends the request without an answer.
Conflict(c) ==
    /\ request[c].open
    /\ request[c].seen = NoTask
    /\ ~Insertable(request[c].key)
    /\ request' = [request EXCEPT ![c] = NoRequest]
    /\ UNCHANGED <<task, answered, schedule, tick, runs, now, mishaps>>

\* Mutant: the answer has gone out before the commit fails.
RequestFailsAnswered(c) ==
    /\ request[c].open
    /\ request[c].seen = NoTask
    /\ mishaps < MaxMishaps
    /\ mishaps' = mishaps + 1
    /\ answered' = answered \cup {[key |-> request[c].key, id |-> Len(task) + 1]}
    /\ request' = [request EXCEPT ![c] = NoRequest]
    /\ UNCHANGED <<task, schedule, tick, runs, now>>

\* The transaction fails, and the client gets an error.
RequestFails(c) ==
    /\ request[c].open
    /\ mishaps < MaxMishaps
    /\ mishaps' = mishaps + 1
    /\ request' = [request EXCEPT ![c] = NoRequest]
    /\ UNCHANGED <<task, answered, schedule, tick, runs, now>>

-----------------------------------------------------------------------------
(* SystemSchedulerService.tick.                                            *)

TickStart(w) ==
    /\ tick[w].phase = "idle"
    /\ tick' = [tick EXCEPT ![w].phase = "started", ![w].now = now]
    /\ UNCHANGED <<task, request, answered, schedule, runs, now, mishaps>>

Claimed(w) == {tick[w].claimed[i] : i \in DOMAIN tick[w].claimed}
Locked == UNION {Claimed(w) : w \in Workers}

\* Mutant: a schedule is due after its time.
DueAfter(at) == {s \in Schedules \ Locked : schedule[s].next_run_at < at}

Due(at) == {s \in Schedules \ Locked : schedule[s].next_run_at <= at}

\* ORDER BY next_run_at LIMIT max_due FOR UPDATE SKIP LOCKED; the order of
\* equal times is left open.
DueRows(at) ==
    LET due == Due(at)
        count == IF Cardinality(due) < MaxDue THEN Cardinality(due) ELSE MaxDue
    IN {q \in [1..count -> due] :
          /\ \A i, j \in 1..count : i < j =>
               /\ q[i] # q[j]
               /\ schedule[q[i]].next_run_at <= schedule[q[j]].next_run_at
          /\ \A i \in 1..count : \A s \in due \ {q[j] : j \in 1..count} :
               schedule[q[i]].next_run_at <= schedule[s].next_run_at}

\* _build_schedule_idempotency_key
RunKey(s) == <<s, schedule[s].next_run_at>>

TickClaim(w) ==
    /\ tick[w].phase = "started"
    /\ \E q \in DueRows(tick[w].now) :
          tick' = [tick EXCEPT ![w] =
                     IF q = <<>> THEN NoTick
                     ELSE [@ EXCEPT !.phase = "claimed", !.claimed = q,
                                    !.seen = [s \in Schedules |-> Lookup(RunKey(s))]]]
    /\ UNCHANGED <<task, request, answered, schedule, runs, now, mishaps>>

\* Mutant: a run that is due at the moment it is dispatched stays due.
AdvancedLate(s, at) ==
    LET due == schedule[s].next_run_at IN
    IF due >= at THEN due ELSE due + Interval[s] * (((at - due) - 1) \div Interval[s] + 1)

\* mark_schedule_dispatched: the first run after the tick's time.
Advanced(s, at) ==
    LET due == schedule[s].next_run_at IN
    due + Interval[s] * ((at - due) \div Interval[s] + 1)

\* The schedules a tick creates a task for, and them in the order of its query.
Fresh(w) == {s \in Claimed(w) : tick[w].seen[s] = NoTask}

InsertOrders(w) ==
    LET Before(r, s) == \E i, j \in DOMAIN tick[w].claimed :
                           i < j /\ tick[w].claimed[i] = r /\ tick[w].claimed[j] = s
    IN {q \in Bijection(1..Cardinality(Fresh(w)), Fresh(w)) :
          \A i, j \in DOMAIN q : i < j => Before(q[i], q[j])}

\* The task of a claimed schedule: the one found or the one inserted.
Created(w, s, q) ==
    IF tick[w].seen[s] # NoTask THEN tick[w].seen[s]
    ELSE Len(task) + CHOOSE i \in DOMAIN q : q[i] = s

TickCommit(w) ==
    /\ tick[w].phase = "claimed"
    /\ \A s \in Fresh(w) : Insertable(RunKey(s))
    /\ \E q \in InsertOrders(w) :
         /\ task' = task \o [i \in DOMAIN q |-> RunKey(q[i])]
         /\ schedule' = [s \in Schedules |->
              IF s \in Claimed(w)
              THEN [next_run_at |-> Advanced(s, tick[w].now), last_task_id |-> Created(w, s, q)]
              ELSE schedule[s]]
    /\ runs' = [s \in Schedules |->
         IF s \in Claimed(w) THEN Append(runs[s], schedule[s].next_run_at) ELSE runs[s]]
    /\ tick' = [tick EXCEPT ![w] = NoTick]
    /\ UNCHANGED <<request, answered, now, mishaps>>

\* A run was asked for by hand since the lookup: the tick rolls back as a whole.
TickConflict(w) ==
    /\ tick[w].phase = "claimed"
    /\ \E s \in Fresh(w) : ~Insertable(RunKey(s))
    /\ tick' = [tick EXCEPT ![w] = NoTick]
    /\ UNCHANGED <<task, request, answered, schedule, runs, now, mishaps>>

\* The transaction fails or its process dies; the szdm tick that follows in
\* the same transaction may be what fails.
TickFails(w) ==
    /\ tick[w].phase # "idle"
    /\ mishaps < MaxMishaps
    /\ mishaps' = mishaps + 1
    /\ tick' = [tick EXCEPT ![w] = NoTick]
    /\ UNCHANGED <<task, request, answered, schedule, runs, now>>

Clock ==
    /\ now < MaxTime
    /\ now' = now + 1
    /\ UNCHANGED <<task, request, answered, schedule, tick, runs, mishaps>>

-----------------------------------------------------------------------------

Next ==
    \/ \E c \in Clients : \/ \E k \in AskedKeys : Submit(c, k)
                          \/ Answer(c) \/ Conflict(c) \/ RequestFails(c)
    \/ \E w \in Workers : \/ TickStart(w) \/ TickClaim(w)
                          \/ TickCommit(w) \/ TickConflict(w) \/ TickFails(w)
    \/ Clock

Spec == Init /\ [][Next]_vars

\* Workers tick, and an open tick ends.  Nobody has to ask for a task.
Fairness == \A w \in Workers : /\ WF_vars(TickStart(w))
                               /\ WF_vars(TickClaim(w))
                               /\ WF_vars(TickCommit(w) \/ TickConflict(w))

FairSpec == Spec /\ Fairness

-----------------------------------------------------------------------------
(* Properties.                                                             *)

\* Type correctness of the rows, the open transactions and the answers.
TypeOK ==
    /\ task \in Seq(AllKeys)
    /\ request \in [Clients -> Request]
    /\ answered \subseteq [key : AskedKeys, id : TaskIds]
    /\ schedule \in [Schedules -> Schedule]
    /\ \A s \in Schedules : schedule[s].last_task_id \in TaskIds \cup {NoTask}
    /\ tick \in [Workers -> Tick]
    /\ runs \in [Schedules -> Seq(Nat)]
    /\ now \in Nat
    /\ mishaps \in Nat

\* Whoever asks for a key gets the same task, and so does the scheduler when the
\* run was asked for by hand: two requests, or a request and a tick, may both
\* have found nothing before one of them inserts.
OneTaskPerKey ==
    /\ \A a, b \in answered : a.key = b.key => a.id = b.id
    /\ \A a \in answered : task[a.id] = a.key
    /\ \A s \in Schedules :
         runs[s] # <<>> =>
            /\ task[schedule[s].last_task_id] = <<s, runs[s][Len(runs[s])]>>
            /\ \A a \in answered : a.key = <<s, runs[s][Len(runs[s])]>>
                                      => a.id = schedule[s].last_task_id

\* No run of a schedule is dispatched twice or out of order, however many
\* workers tick at once with clocks read at different times.
RunsInOrder ==
    \A s \in Schedules : \A i, j \in DOMAIN runs[s] : i < j => runs[s][i] < runs[s][j]

\* A schedule that is due is dispatched, although other schedules take the
\* places of a tick, runs are asked for by hand, and ticks fail.
DueIsDispatched ==
    \A s \in Schedules : schedule[s].next_run_at <= now ~> schedule[s].next_run_at > now
=============================================================================
