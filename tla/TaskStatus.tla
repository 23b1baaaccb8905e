----------------------------- MODULE TaskStatus -----------------------------
(***************************************************************************)
(* The vocabulary of the task table: the statuses of app/domain/enums.py   *)
(* and the status sets that the guards of TaskRepository test.             *)
(***************************************************************************)

\* enums.py, TaskStatus.
TaskStatus == {"PENDING", "RUNNING", "DISPATCHING", "PARTIALLY_RUNNING",
               "AGGREGATING", "RETRY_WAIT", "SUCCEEDED", "FAILED",
               "CANCELED", "DEAD"}

\* The statuses a row of role standalone, child or aggregate can have: the
\* other three are only ever given to a parent.
WorkStatus == {"PENDING", "RUNNING", "RETRY_WAIT", "SUCCEEDED", "FAILED",
               "CANCELED", "DEAD"}

\* claim_tasks: the statuses the dispatch query selects.
ClaimableStatus == {"PENDING", "RETRY_WAIT"}

\* retry_task: the statuses a manual retry accepts.
RetriableStatus == {"FAILED", "DEAD", "CANCELED"}

\* request_cancel: the statuses a cancel acts on (RETRY_WAIT is not one).
ActiveStatus == {"PENDING", "RUNNING", "DISPATCHING", "PARTIALLY_RUNNING",
                 "AGGREGATING"}

\* The statuses from which no step of a worker leads away.
SettledStatus == {"SUCCEEDED", "FAILED", "CANCELED", "DEAD"}

\* enums.py, AttemptStatus, and "NONE" for a row that was never inserted.
\* TIMEOUT is declared there and never written by any code.
AttemptStatus == {"NONE", "RUNNING", "SUCCEEDED", "FAILED", "CANCELED"}
=============================================================================
