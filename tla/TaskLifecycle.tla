--------------------------- MODULE TaskLifecycle ---------------------------
(***************************************************************************)
(* What the task table promises a client that may retry a finished task:   *)
(* each task runs in one execution at a time, an execution begins only     *)
(* from a status that waits for one, and its verdict is the next status.   *)
(* No worker, lease, heartbeat or open transaction appears here; TaskLease *)
(* is shown to implement this module.                                      *)
(*                                                                         *)
(* Tasks step independently and one transaction may move several, so a     *)
(* step moves any number of tasks, each along one edge of its lifecycle.   *)
(***************************************************************************)
EXTENDS Naturals, TaskStatus

CONSTANTS Tasks, MaxAttempts

VARIABLE life   \* life[t]: status, number of executions begun, those alive

LifeInit == life = [t \in Tasks |-> [status |-> "PENDING", attempt_no |-> 0,
                                     executing |-> {}]]

\* An execution begins: the next in number, and no other is alive.
Begin(x, y) ==
    /\ x.status \in ClaimableStatus
    /\ x.executing = {}
    /\ y = [status |-> "RUNNING", attempt_no |-> x.attempt_no + 1,
            executing |-> {x.attempt_no + 1}]

\* The execution ends with a verdict.  It is tried again while max_attempts
\* allows and dead when it does not.
Conclude(x, y) ==
    /\ x.status = "RUNNING"
    /\ x.executing = {x.attempt_no}
    /\ y.status \in {"SUCCEEDED", "FAILED", "CANCELED", "RETRY_WAIT", "DEAD"}
    /\ y.status = "RETRY_WAIT" => x.attempt_no < MaxAttempts
    /\ y.status = "DEAD" => x.attempt_no >= MaxAttempts
    /\ y = [x EXCEPT !.status = y.status, !.executing = {}]

\* The execution ends without a verdict: a crash, or a verdict that could not
\* be written.
Vanish(x, y) ==
    /\ x.executing # {}
    /\ y = [x EXCEPT !.executing = {}]

\* A RUNNING task without execution is put back.
Requeue(x, y) ==
    /\ x.status = "RUNNING"
    /\ x.executing = {}
    /\ y = [x EXCEPT !.status = "PENDING"]

\* A client asks for a finished task to be run again.
Rerun(x, y) ==
    /\ x.status \in RetriableStatus
    /\ x.executing = {}
    /\ y = [x EXCEPT !.status = "PENDING"]

LifeStep(x, y) ==
    \/ Begin(x, y)
    \/ Conclude(x, y)
    \/ Vanish(x, y)
    \/ Requeue(x, y)
    \/ Rerun(x, y)

LifeNext == \A t \in Tasks : life'[t] = life[t] \/ LifeStep(life[t], life'[t])

LifeSpec == LifeInit /\ [][LifeNext]_life
=============================================================================
