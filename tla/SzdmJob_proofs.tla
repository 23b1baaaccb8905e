--------------------------- MODULE SzdmJob_proofs ---------------------------
(* The types, and that the report of a job is complete, for any items,      *)
(* window, requests and faults.  Where no task runs twice (RunsOnce) the    *)
(* window of the job is kept; where besides nothing but a handler fails     *)
(* (OnlyRaises) its failure reaches the parent.                             *)
EXTENDS SzdmJob, FiniteSetTheorems, TLAPS

\* The part of the types the proof needs: the records that EXCEPT updates.
Shapes ==
    /\ job \in Job
    /\ thread \in [Tasks -> Thread]

\* The aggregate handler is past the check of the items only with all their
\* results, and has its last transaction open only then.
Loaded ==
    /\ thread[Agg].pc \in {"check", "body"} => thread[Agg].covers = Items
    /\ thread[Agg].tx.open => thread[Agg].pc = "body"

IInv == Shapes /\ Loaded /\ ReportIsComplete

LEMMA AggIsTask == Agg \in Tasks /\ Items \subseteq Tasks /\ Agg \notin Items
  BY SzdmJobAssumption DEF Tasks

\* Steps that leave the job row and the aggregate's execution alone.
LEMMA Untouched ==
  ASSUME IInv, job' = job, thread' \in [Tasks -> Thread], thread'[Agg] = thread[Agg]
  PROVE  IInv'
  BY DEF IInv, Shapes, Loaded, ReportIsComplete

\* A step of one execution that leaves the job row alone.
LEMMA OneThread ==
  ASSUME IInv, job' = job, NEW x \in Tasks, NEW th \in Thread, SetThread(x, th),
         x = Agg => /\ th.pc \in {"check", "body"} => th.covers = Items
                    /\ th.tx.open => th.pc = "body"
  PROVE  IInv'
<1>1. thread' = [thread EXCEPT ![x] = th]
  BY DEF SetThread
<1>2. thread' \in [Tasks -> Thread]
  BY <1>1 DEF IInv, Shapes
<1>3. CASE x = Agg
  <2>1. thread'[Agg] = th
    BY <1>1, <1>3 DEF IInv, Shapes
  <2>2. QED
    BY <1>2, <1>3, <2>1 DEF IInv, Shapes, Loaded, ReportIsComplete
<1>4. CASE x # Agg
  BY <1>1, <1>2, <1>4, Untouched
<1>5. QED
  BY <1>3, <1>4

LEMMA InitInv == Init => IInv
  BY AggIsTask DEF Init, IInv, Shapes, Loaded, ReportIsComplete, Job, Thread, NoThread,
     Write, NoWrite

\* A refresh only ever writes FAILED over the job.
LEMMA RefreshKeepsReport ==
  ASSUME IInv, NEW w \in Write, CommitRefresh(w)
  PROVE  job' \in Job /\ ReportIsComplete'
  BY DEF IInv, Shapes, ReportIsComplete, CommitRefresh, Job

LEMMA RefreshIsWrite == RefreshWrite \in Write /\ NoWrite \in Write
  BY DEF RefreshWrite, Write, NoWrite

-----------------------------------------------------------------------------

LEMMA TickInv == IInv /\ (TickRead \/ TickCommit) => IInv'
<1> SUFFICES ASSUME IInv, TickRead \/ TickCommit
             PROVE  IInv'
  OBVIOUS
<1>1. CASE TickRead
  BY <1>1, Untouched DEF TickRead, IInv, Shapes
<1>2. CASE TickCommit
  <2>1. /\ thread' = thread
        /\ job' = [job EXCEPT !.status = IF tick.agg THEN "AGGREGATING"
                                         ELSE IF tick.fails THEN "FAILED" ELSE @,
                              !.report = IF tick.agg THEN "RUNNING" ELSE @]
    BY <1>2 DEF TickCommit
  <2>2. job' \in Job /\ ReportIsComplete'
    BY <2>1 DEF IInv, Shapes, Job, ReportIsComplete
  <2>3. QED
    BY <2>1, <2>2 DEF IInv, Shapes, Loaded
<1>3. QED
  BY <1>1, <1>2

LEMMA TaskInv ==
  ASSUME IInv, NEW x \in Tasks,
         \/ Recover(x) \/ Claim(x) \/ Signal(x) \/ Check(x) \/ Mark(x)
         \/ MarkError(x) \/ Crash(x) \/ CancelTask(x) \/ RetryTask(x)
  PROVE  IInv'
<1> DEFINE th == thread[x]
<1>0. /\ th \in Thread
      /\ NoThread \in Thread
      /\ x = Agg => /\ th.pc \in {"check", "body"} => th.covers = Items
                    /\ th.tx.open => th.pc = "body"
  BY DEF IInv, Shapes, Loaded, Thread, NoThread, Write, NoWrite
<1>1. CASE Recover(x) \/ CancelTask(x) \/ RetryTask(x)
  BY <1>1, Untouched DEF Recover, CancelTask, RetryTask, IInv, Shapes
<1>2. CASE Claim(x)
  <2>1. job' = job /\ SetThread(x, NewThread)
    BY <1>2 DEF Claim, SetThread
  <2>2. /\ NewThread \in Thread
        /\ NewThread.pc = "enter"
        /\ ~NewThread.tx.open
    BY DEF NewThread, NoThread, Thread, Write, NoWrite
  <2>3. QED
    BY <2>1, <2>2, OneThread
<1>3. CASE Signal(x)
  <2> DEFINE new == [th EXCEPT !.signal = TRUE]
  <2>1. job' = job /\ SetThread(x, new)
    BY <1>3 DEF Signal
  <2>2. new \in Thread /\ new.pc = th.pc /\ new.tx = th.tx /\ new.covers = th.covers
    BY <1>0 DEF Thread
  <2> HIDE DEF new
  <2>3. QED
    BY <1>0, <2>1, <2>2, OneThread
<1>4. CASE Check(x)
  <2> DEFINE out  == [th EXCEPT !.pc = IF x = Agg THEN "exit" ELSE "failing",
                                !.verdict = "CANCELED"]
             on   == [th EXCEPT !.pc = "body"]
             new  == IF th.signal \/ SeesCancel(x) THEN out ELSE on
  <2>1. job' = job /\ th.pc = "check" /\ SetThread(x, new)
    BY <1>4 DEF Check
  <2>2. out \in Thread /\ on \in Thread
    BY <1>0 DEF Thread
  <2>3. x = Agg => /\ out.pc = "exit" /\ on.pc = "body"
                   /\ on.covers = th.covers
                   /\ out.tx = th.tx /\ on.tx = th.tx
    BY <1>0 DEF Thread
  <2>4. /\ new \in Thread
        /\ x = Agg => /\ new.pc \in {"check", "body"} => new.covers = Items
                      /\ new.tx.open => new.pc = "body"
    BY <1>0, <2>1, <2>2, <2>3
  <2> HIDE DEF new
  <2>5. QED
    BY <2>1, <2>4, OneThread
<1>5. CASE Mark(x) \/ Crash(x)
  <2>1. job' = job /\ SetThread(x, NoThread)
    BY <1>5 DEF Mark, Crash
  <2>2. NoThread.pc = "idle" /\ ~NoThread.tx.open
    BY DEF NoThread, NoWrite
  <2>3. QED
    BY <1>0, <2>1, <2>2, OneThread
<1>6. CASE MarkError(x)
  <2> DEFINE fail == [th EXCEPT !.verdict = "FAILED"]
             new  == IF th.verdict = "SUCCEEDED" THEN fail ELSE NoThread
  <2>1. job' = job /\ SetThread(x, new)
    BY <1>6 DEF MarkError
  <2>2. fail \in Thread /\ fail.pc = th.pc /\ fail.tx = th.tx /\ fail.covers = th.covers
    BY <1>0 DEF Thread
  <2>3. NoThread.pc = "idle" /\ ~NoThread.tx.open
    BY DEF NoThread, NoWrite
  <2>4. /\ new \in Thread
        /\ x = Agg => /\ new.pc \in {"check", "body"} => new.covers = Items
                      /\ new.tx.open => new.pc = "body"
    BY <1>0, <2>2, <2>3
  <2> HIDE DEF new
  <2>5. QED
    BY <2>1, <2>4, OneThread
<1>7. QED
  BY <1>1, <1>2, <1>3, <1>4, <1>5, <1>6

LEMMA ItemInv ==
  ASSUME IInv, NEW i \in Items,
         ItemRead(i) \/ ItemCommit(i) \/ ItemError(i) \/ FailError(i)
  PROVE  IInv'
<1>0. i \in Tasks /\ i # Agg /\ thread[i] \in Thread /\ thread[i].tx \in Write
  BY AggIsTask DEF IInv, Shapes, Thread
<1>1. CASE ItemRead(i)
  <2>1. job' = job /\ SetThread(i, [thread[i] EXCEPT !.tx = RefreshWrite])
    BY <1>1 DEF ItemRead
  <2>2. [thread[i] EXCEPT !.tx = RefreshWrite] \in Thread
    BY <1>0, RefreshIsWrite DEF Thread
  <2>3. QED
    BY <1>0, <2>1, <2>2, OneThread
<1>2. CASE ItemCommit(i)
  <2> DEFINE th == [thread[i] EXCEPT !.tx = NoWrite]
  <2>1. job' \in Job /\ ReportIsComplete'
    BY <1>0, <1>2, RefreshKeepsReport DEF ItemCommit
  <2>2. th \in Thread
    BY <1>0, RefreshIsWrite DEF Thread
  <2>3. PICK new \in Thread : SetThread(i, new)
    <3>1. /\ [th EXCEPT !.pc = "check"] \in Thread
          /\ [th EXCEPT !.pc = "exit", !.verdict = "SUCCEEDED"] \in Thread
          /\ [th EXCEPT !.pc = "exit"] \in Thread
      BY <2>2 DEF Thread
    <3>2. \/ SetThread(i, [th EXCEPT !.pc = "check"])
          \/ SetThread(i, [th EXCEPT !.pc = "exit", !.verdict = "SUCCEEDED"])
          \/ SetThread(i, [th EXCEPT !.pc = "exit"])
      BY <1>2 DEF ItemCommit
    <3> HIDE DEF th
    <3>3. QED
      BY <3>1, <3>2
  <2>4. thread' \in [Tasks -> Thread] /\ thread'[Agg] = thread[Agg]
    BY <1>0, <2>3, AggIsTask DEF SetThread, IInv, Shapes
  <2>5. QED
    BY <2>1, <2>4 DEF IInv, Shapes, Loaded
<1>3. CASE ItemError(i)
  <2> DEFINE new == [thread[i] EXCEPT !.pc = "failing", !.tx = NoWrite, !.verdict = "FAILED"]
  <2>1. job' = job /\ SetThread(i, new)
    BY <1>3 DEF ItemError
  <2>2. new \in Thread
    BY <1>0, RefreshIsWrite DEF Thread
  <2> HIDE DEF new
  <2>3. QED
    BY <1>0, <2>1, <2>2, OneThread
<1>4. CASE FailError(i)
  <2> DEFINE new == [thread[i] EXCEPT !.pc = "exit", !.tx = NoWrite, !.verdict = "FAILED"]
  <2>1. job' = job /\ SetThread(i, new)
    BY <1>4 DEF FailError
  <2>2. new \in Thread
    BY <1>0, RefreshIsWrite DEF Thread
  <2> HIDE DEF new
  <2>3. QED
    BY <1>0, <2>1, <2>2, OneThread
<1>5. QED
  BY <1>1, <1>2, <1>3, <1>4

LEMMA AggregateInv ==
  ASSUME IInv, AggregateRead \/ ReportRead \/ ReportCommit \/ AggregateError
  PROVE  IInv'
<1> DEFINE th == thread[Agg]
<1>0. /\ Agg \in Tasks
      /\ th \in Thread
      /\ th.pc \in {"check", "body"} => th.covers = Items
      /\ th.tx.open => th.pc = "body"
  BY AggIsTask DEF IInv, Shapes, Loaded
<1>1. CASE AggregateRead
  <2> DEFINE on   == [th EXCEPT !.pc = "check", !.covers = Items]
             out  == [th EXCEPT !.pc = "exit", !.verdict = "FAILED"]
             new  == IF InStatus({"SUCCEEDED"}) = Items THEN on ELSE out
  <2>1. job' = job /\ th.pc = "enter" /\ SetThread(Agg, new)
    BY <1>1 DEF AggregateRead
  <2>2. /\ on \in Thread /\ on.covers = Items /\ on.tx = th.tx
        /\ out \in Thread /\ out.pc = "exit" /\ out.tx = th.tx
    BY <1>0 DEF Thread
  <2>3. /\ new \in Thread
        /\ new.pc \in {"check", "body"} => new.covers = Items
        /\ new.tx.open => new.pc = "body"
    BY <1>0, <2>1, <2>2
  <2> HIDE DEF new
  <2>4. QED
    BY <1>0, <2>1, <2>3, OneThread
<1>2. CASE ReportRead
  <2> DEFINE w   == [open |-> TRUE, job |-> job.status # "SUCCEEDED",
                     parent |-> parent.status # "SUCCEEDED"]
             new == [th EXCEPT !.tx = w]
  <2>1. job' = job /\ th.pc = "body" /\ SetThread(Agg, new)
    BY <1>2 DEF ReportRead
  <2>2. w \in Write
    BY DEF Write
  <2>3. new \in Thread /\ new.pc = "body" /\ new.covers = Items
    BY <1>0, <2>1, <2>2 DEF Thread
  <2> HIDE DEF new
  <2>4. QED
    BY <1>0, <2>1, <2>3, OneThread
<1>3. CASE ReportCommit
  <2> DEFINE new == [th EXCEPT !.tx = NoWrite, !.pc = "exit", !.verdict = "SUCCEEDED"]
  <2>1. /\ th.tx.open
        /\ job' = [status |-> IF th.tx.job THEN "SUCCEEDED" ELSE job.status,
                   report |-> "SUCCEEDED", covers |-> th.covers]
        /\ SetThread(Agg, new)
    BY <1>3 DEF ReportCommit
  <2>2. job' \in Job /\ ReportIsComplete'
    BY <1>0, <2>1 DEF IInv, Shapes, Job, Thread, ReportIsComplete
  <2>3. new \in Thread /\ new.pc = "exit" /\ ~new.tx.open
    BY <1>0, RefreshIsWrite DEF Thread, NoWrite
  <2> HIDE DEF new
  <2>4. thread' \in [Tasks -> Thread] /\ thread'[Agg] = new
    BY <1>0, <2>1, <2>3 DEF SetThread, IInv, Shapes
  <2>5. QED
    BY <2>2, <2>3, <2>4 DEF IInv, Shapes, Loaded
<1>4. CASE AggregateError
  <2> DEFINE new == [th EXCEPT !.pc = "exit", !.tx = NoWrite, !.verdict = "FAILED"]
  <2>1. job' = job /\ SetThread(Agg, new)
    BY <1>4 DEF AggregateError
  <2>2. new \in Thread /\ new.pc = "exit" /\ ~new.tx.open
    BY <1>0, RefreshIsWrite DEF Thread, NoWrite
  <2> HIDE DEF new
  <2>3. QED
    BY <1>0, <2>1, <2>2, OneThread
<1>5. QED
  BY <1>1, <1>2, <1>3, <1>4

\* A reader commits what its snapshot asked for.  Its record may be anything:
\* only the writes it makes matter.
LEMMA RequestInv ==
  ASSUME IInv, CancelParent \/ RetryParent \/ GetRead \/ GetCommit
  PROVE  IInv'
<1>1. CASE CancelParent \/ RetryParent \/ GetRead
  BY <1>1, Untouched DEF CancelParent, RetryParent, GetRead, IInv, Shapes
<1>2. CASE GetCommit
  <2>1. job' \in Job /\ ReportIsComplete'
    BY <1>2 DEF GetCommit, CommitRefresh, IInv, Shapes, Job, ReportIsComplete
  <2>2. QED
    BY <1>2, <2>1 DEF GetCommit, IInv, Shapes, Loaded
<1>3. QED
  BY <1>1, <1>2

\* The invariant is inductive.
LEMMA NextInv == IInv /\ [Next]_vars => IInv'
<1> SUFFICES ASSUME IInv, [Next]_vars
             PROVE  IInv'
  OBVIOUS
<1>1. CASE UNCHANGED vars \/ Idle
  BY <1>1, Untouched DEF vars, Idle, IInv, Shapes
<1>2. CASE TickRead \/ TickCommit
  BY <1>2, TickInv
<1>3. ASSUME NEW x \in Tasks,
             \/ Recover(x) \/ Claim(x) \/ Signal(x) \/ Check(x) \/ Mark(x)
             \/ MarkError(x) \/ Crash(x) \/ CancelTask(x) \/ RetryTask(x)
      PROVE  IInv'
  BY <1>3, TaskInv
<1>4. ASSUME NEW i \in Items, ItemRead(i) \/ ItemCommit(i) \/ ItemError(i) \/ FailError(i)
      PROVE  IInv'
  BY <1>4, ItemInv
<1>5. CASE AggregateRead \/ ReportRead \/ ReportCommit \/ AggregateError
  BY <1>5, AggregateInv
<1>6. CASE CancelParent \/ RetryParent \/ GetRead \/ GetCommit
  BY <1>6, RequestInv
<1>7. QED
  BY <1>1, <1>2, <1>3, <1>4, <1>5, <1>6 DEF Next

\* The report of a job that SUCCEEDED holds the results of all its items:
\* finish_report runs only behind the aggregate handler's check of the items,
\* whatever the handler's own status updates and those of late refreshes do.
THEOREM CompleteReports == Spec => []ReportIsComplete
<1>1. IInv => ReportIsComplete
  BY DEF IInv
<1>2. QED
  BY InitInv, NextInv, <1>1, PTL DEF Spec

-----------------------------------------------------------------------------
(* Type correctness.  A verdict is written to a task row only behind "exit", *)
(* and there it has been reached.                                          *)

Verdicts == \A x \in Tasks : thread[x].pc \in {"failing", "exit"} => thread[x].verdict # "none"

TInv == TypeOK /\ Verdicts

TaskVerdict == {"SUCCEEDED", "FAILED", "CANCELED"}

\* A step of one execution.
LEMMA OneVerdict ==
  ASSUME TInv, thread' \in [Tasks -> Thread], NEW x \in Tasks, NEW th, SetThread(x, th),
         th.pc \in {"failing", "exit"} => th.verdict # "none"
  PROVE  Verdicts'
  BY DEF TInv, TypeOK, Verdicts, SetThread

LEMMA RefreshedType ==
  ASSUME TInv, NEW rows
  PROVE  RefreshedParent(rows) \in ParentTask
  BY DEF TInv, TypeOK, RefreshedParent, ParentTask

LEMMA MoveType ==
  ASSUME TInv, NEW x \in Tasks, NEW row \in TaskRow, Move(x, row)
  PROVE  task' \in [Tasks -> TaskRow] /\ parent' \in ParentTask
<1>1. task' \in [Tasks -> TaskRow]
  BY DEF TInv, TypeOK, Move
<1>2. parent' \in ParentTask
  BY RefreshedType DEF TInv, TypeOK, Move
<1>3. QED
  BY <1>1, <1>2

LEMMA CommitType ==
  ASSUME TInv, NEW w \in Write, CommitRefresh(w)
  PROVE  parent' \in ParentTask
  BY DEF TInv, TypeOK, CommitRefresh, ParentTask

LEMMA TickTypes ==
  ASSUME IInv, IInv', TInv, TickRead \/ TickCommit
  PROVE  TInv'
<1>1. CASE TickRead
  <2>1. \A batch \in Batches : batch \in SUBSET Items
    BY DEF Batches, InStatus
  <2>2. tick' \in Tick
    BY <1>1, <2>1 DEF TickRead, Tick, Fails, ReadyToReport
  <2>3. QED
    BY <1>1, <2>2 DEF TickRead, TInv, TypeOK, Verdicts
<1>2. CASE TickCommit
  <2>1. tick \in Tick /\ NoTick \in Tick
    BY DEF TInv, TypeOK, Tick, NoTick
  <2>2. item' \in [Items -> ItemStatus]
    BY <1>2 DEF TickCommit, TInv, TypeOK, ItemStatus
  <2>3. task' \in [Tasks -> TaskRow]
    BY <1>2 DEF TickCommit, TInv, TypeOK, TaskRow, NewTask
  <2>4. parent' \in ParentTask
    <3>1. tick.agg \in BOOLEAN /\ tick.parent \in BOOLEAN
      BY <2>1 DEF Tick
    <3>2. parent \in ParentTask
      BY DEF TInv, TypeOK
    <3>3. parent' = [parent EXCEPT
                    !.status = IF ~tick.parent THEN @
                               ELSE IF tick.agg THEN "AGGREGATING" ELSE "FAILED",
                    !.dispatched = @ \/ tick.agg]
      BY <1>2 DEF TickCommit
    <3>4. QED
      BY <3>1, <3>2, <3>3 DEF ParentTask
  <2>5. QED
    BY <1>2, <2>1, <2>2, <2>3, <2>4 DEF TickCommit, TInv, TypeOK, Verdicts, IInv, Shapes
<1>3. QED
  BY <1>1, <1>2

LEMMA TaskTypes ==
  ASSUME IInv, IInv', TInv, NEW x \in Tasks,
         \/ Recover(x) \/ Claim(x) \/ Signal(x) \/ Check(x) \/ Mark(x)
         \/ MarkError(x) \/ Crash(x) \/ CancelTask(x) \/ RetryTask(x)
  PROVE  TInv'
<1>0. /\ thread[x] \in Thread /\ task[x] \in TaskRow
      /\ job' \in Job /\ thread' \in [Tasks -> Thread]
      /\ thread[x].pc \in {"failing", "exit"} => thread[x].verdict # "none"
      /\ NoThread.pc = "idle"
  BY DEF IInv, Shapes, TInv, TypeOK, Verdicts, NoThread
<1>1. CASE Recover(x)
  <2>1. [task[x] EXCEPT !.status = "PENDING"] \in TaskRow
    BY <1>0 DEF TaskRow
  <2>2. task' \in [Tasks -> TaskRow] /\ parent' \in ParentTask
    BY <1>1, <2>1, MoveType DEF Recover
  <2>3. QED
    BY <1>0, <1>1, <2>2 DEF Recover, TInv, TypeOK, Verdicts
<1>2. CASE Claim(x)
  <2>1. [status |-> "RUNNING", cancel |-> FALSE] \in TaskRow
    BY DEF TaskRow
  <2>2. task' \in [Tasks -> TaskRow] /\ parent' \in ParentTask
    BY <1>2, <2>1, MoveType DEF Claim
  <2>3. SetThread(x, NewThread) /\ NewThread.pc = "enter"
    BY <1>2 DEF Claim, SetThread, NewThread, NoThread
  <2>4. Verdicts'
    BY <1>0, <2>3, OneVerdict
  <2>5. QED
    BY <1>0, <1>2, <2>2, <2>4 DEF Claim, TInv, TypeOK
<1>3. CASE Signal(x)
  <2>1. [thread[x] EXCEPT !.signal = TRUE].pc \notin {"failing", "exit"}
    BY <1>0, <1>3 DEF Signal, Thread
  <2>2. Verdicts'
    BY <1>0, <1>3, <2>1, OneVerdict DEF Signal
  <2>3. QED
    BY <1>0, <1>3, <2>2 DEF Signal, TInv, TypeOK
<1>4. CASE Check(x)
  <2> DEFINE th == IF thread[x].signal \/ SeesCancel(x)
                   THEN [thread[x] EXCEPT !.pc = IF x = Agg THEN "exit" ELSE "failing",
                                          !.verdict = "CANCELED"]
                   ELSE [thread[x] EXCEPT !.pc = "body"]
  <2>1. th.pc \in {"failing", "exit"} => th.verdict # "none"
    BY <1>0 DEF Thread
  <2>2. SetThread(x, th)
    BY <1>4 DEF Check
  <2> HIDE DEF th
  <2>3. Verdicts'
    BY <1>0, <2>1, <2>2, OneVerdict
  <2>4. QED
    BY <1>0, <1>4, <2>3 DEF Check, TInv, TypeOK
<1>5. CASE Mark(x)
  <2>1. thread[x].verdict \in TaskVerdict
    BY <1>0, <1>5 DEF Mark, Thread, TaskVerdict
  <2>2. task' \in [Tasks -> TaskRow]
    <3>1. task' = [task EXCEPT ![x] = [task[x] EXCEPT !.status = thread[x].verdict]]
      BY <1>5 DEF Mark
    <3>2. [task[x] EXCEPT !.status = thread[x].verdict] \in TaskRow
      BY <1>0, <2>1 DEF TaskRow, TaskVerdict
    <3>3. QED
      BY <3>1, <3>2 DEF TInv, TypeOK
  <2>3. Verdicts'
    BY <1>0, <1>5, OneVerdict DEF Mark
  <2>4. QED
    BY <1>0, <1>5, <2>2, <2>3 DEF Mark, TInv, TypeOK
<1>6. CASE MarkError(x)
  <2> DEFINE th == IF thread[x].verdict = "SUCCEEDED"
                   THEN [thread[x] EXCEPT !.verdict = "FAILED"]
                   ELSE NoThread
  <2>1. th.pc \in {"failing", "exit"} => th.verdict # "none"
    BY <1>0 DEF Thread
  <2>2. SetThread(x, th)
    BY <1>6 DEF MarkError
  <2> HIDE DEF th
  <2>3. Verdicts'
    BY <1>0, <2>1, <2>2, OneVerdict
  <2>4. QED
    BY <1>0, <1>6, <2>3 DEF MarkError, Mishap, TInv, TypeOK
<1>7. CASE Crash(x)
  <2>1. Verdicts'
    BY <1>0, <1>7, OneVerdict DEF Crash
  <2>2. QED
    BY <1>0, <1>7, <2>1 DEF Crash, Mishap, TInv, TypeOK
<1>8. CASE CancelTask(x)
  <2>1. task' \in [Tasks -> TaskRow]
    BY <1>0, <1>8 DEF CancelTask, TaskRow, TInv, TypeOK
  <2>2. QED
    BY <1>0, <1>8, <2>1 DEF CancelTask, TInv, TypeOK, Verdicts
<1>9. CASE RetryTask(x)
  <2>1. task' \in [Tasks -> TaskRow]
    BY <1>9 DEF RetryTask, TaskRow, NewTask, TInv, TypeOK
  <2>2. QED
    BY <1>0, <1>9, <2>1 DEF RetryTask, TInv, TypeOK, Verdicts
<1>10. QED
  BY <1>1, <1>2, <1>3, <1>4, <1>5, <1>6, <1>7, <1>8, <1>9

LEMMA ItemTypes ==
  ASSUME IInv, IInv', TInv, NEW i \in Items,
         ItemRead(i) \/ ItemCommit(i) \/ ItemError(i) \/ FailError(i)
  PROVE  TInv'
<1>0. /\ i \in Tasks /\ thread[i] \in Thread
      /\ job' \in Job /\ thread' \in [Tasks -> Thread]
      /\ thread[i].pc \in {"failing", "exit"} => thread[i].verdict # "none"
      /\ RefreshWrite \in Write /\ NoWrite \in Write
  BY AggIsTask, RefreshIsWrite DEF IInv, Shapes, TInv, TypeOK, Verdicts
<1>1. CASE ItemRead(i)
  <2> DEFINE th == [thread[i] EXCEPT !.tx = RefreshWrite]
  <2>1. th.pc = thread[i].pc /\ th.verdict = thread[i].verdict
    BY <1>0 DEF Thread
  <2>2. SetThread(i, th)
    BY <1>1 DEF ItemRead
  <2> HIDE DEF th
  <2>3. Verdicts'
    BY <1>0, <2>1, <2>2, OneVerdict
  <2>4. QED
    BY <1>0, <1>1, <2>3 DEF ItemRead, TInv, TypeOK
<1>2. CASE ItemCommit(i)
  <2> DEFINE th == [thread[i] EXCEPT !.tx = NoWrite]
  <2>1. thread[i].tx \in Write
    BY <1>0 DEF Thread
  <2>2. parent' \in ParentTask
    BY <1>2, <2>1, CommitType DEF ItemCommit
  <2>3. item' \in [Items -> ItemStatus]
    BY <1>2 DEF ItemCommit, TInv, TypeOK, ItemStatus
  <2>4. th \in Thread /\ th.pc = thread[i].pc /\ th.verdict = thread[i].verdict
    BY <1>0 DEF Thread
  <2>5. \/ SetThread(i, [th EXCEPT !.pc = "check"])
        \/ SetThread(i, [th EXCEPT !.pc = "exit", !.verdict = "SUCCEEDED"])
        \/ th.pc = "failing" /\ SetThread(i, [th EXCEPT !.pc = "exit"])
    BY <1>2 DEF ItemCommit
  <2> HIDE DEF th
  <2>6. /\ [th EXCEPT !.pc = "check"].pc = "check"
        /\ [th EXCEPT !.pc = "exit", !.verdict = "SUCCEEDED"].verdict = "SUCCEEDED"
        /\ [th EXCEPT !.pc = "exit"].verdict = th.verdict
    BY <2>4 DEF Thread
  <2>7. Verdicts'
    BY <1>0, <2>4, <2>5, <2>6, OneVerdict
  <2>8. QED
    BY <1>0, <1>2, <2>2, <2>3, <2>7 DEF ItemCommit, TInv, TypeOK
<1>3. CASE ItemError(i) \/ FailError(i)
  <2>1. \E p : SetThread(i, [thread[i] EXCEPT !.pc = p, !.tx = NoWrite, !.verdict = "FAILED"])
    BY <1>3 DEF ItemError, FailError
  <2>2. \A p : [thread[i] EXCEPT !.pc = p, !.tx = NoWrite, !.verdict = "FAILED"].verdict = "FAILED"
    BY <1>0 DEF Thread
  <2>3. Verdicts'
    BY <1>0, <2>1, <2>2, OneVerdict
  <2>4. QED
    BY <1>0, <1>3, <2>3 DEF ItemError, FailError, Mishap, TInv, TypeOK
<1>4. QED
  BY <1>1, <1>2, <1>3

LEMMA AggregateTypes ==
  ASSUME IInv, IInv', TInv, AggregateRead \/ ReportRead \/ ReportCommit \/ AggregateError
  PROVE  TInv'
<1> DEFINE a == thread[Agg]
<1>0. /\ Agg \in Tasks /\ a \in Thread
      /\ job' \in Job /\ thread' \in [Tasks -> Thread]
      /\ a.pc \in {"failing", "exit"} => a.verdict # "none"
  BY AggIsTask DEF IInv, Shapes, TInv, TypeOK, Verdicts
<1>1. CASE AggregateRead
  <2>1. \/ SetThread(Agg, [a EXCEPT !.pc = "check", !.covers = Items])
        \/ SetThread(Agg, [a EXCEPT !.pc = "exit", !.verdict = "FAILED"])
    BY <1>1 DEF AggregateRead
  <2>2. /\ [a EXCEPT !.pc = "check", !.covers = Items].pc = "check"
        /\ [a EXCEPT !.pc = "exit", !.verdict = "FAILED"].verdict = "FAILED"
    BY <1>0 DEF Thread
  <2> HIDE DEF a
  <2>3. Verdicts'
    BY <1>0, <2>1, <2>2, OneVerdict
  <2>4. QED
    BY <1>0, <1>1, <2>3 DEF AggregateRead, TInv, TypeOK
<1>2. CASE ReportRead
  <2> DEFINE w == [open |-> TRUE, job |-> job.status # "SUCCEEDED",
                   parent |-> parent.status # "SUCCEEDED"]
             th == [a EXCEPT !.tx = w]
  <2>1. SetThread(Agg, th)
    BY <1>2 DEF ReportRead
  <2>2. th.pc = a.pc /\ th.verdict = a.verdict
    BY <1>0 DEF Thread
  <2> HIDE DEF th, a
  <2>3. Verdicts'
    BY <1>0, <2>1, <2>2, OneVerdict
  <2>4. QED
    BY <1>0, <1>2, <2>3 DEF ReportRead, TInv, TypeOK
<1>3. CASE ReportCommit
  <2> DEFINE th == [a EXCEPT !.tx = NoWrite, !.pc = "exit", !.verdict = "SUCCEEDED"]
  <2>1. SetThread(Agg, th) /\ parent' = [parent EXCEPT !.status = IF a.tx.parent THEN "SUCCEEDED" ELSE @]
    BY <1>3 DEF ReportCommit
  <2>2. th.verdict = "SUCCEEDED"
    BY <1>0 DEF Thread
  <2> HIDE DEF th, a
  <2>3. Verdicts'
    BY <1>0, <2>1, <2>2, OneVerdict
  <2>4. parent' \in ParentTask
    BY <2>1 DEF TInv, TypeOK, ParentTask
  <2>5. QED
    BY <1>0, <1>3, <2>3, <2>4 DEF ReportCommit, TInv, TypeOK
<1>4. CASE AggregateError
  <2> DEFINE th == [a EXCEPT !.pc = "exit", !.tx = NoWrite, !.verdict = "FAILED"]
  <2>1. SetThread(Agg, th)
    BY <1>4 DEF AggregateError
  <2>2. th.verdict = "FAILED"
    BY <1>0 DEF Thread
  <2> HIDE DEF th, a
  <2>3. Verdicts'
    BY <1>0, <2>1, <2>2, OneVerdict
  <2>4. QED
    BY <1>0, <1>4, <2>3 DEF AggregateError, Mishap, TInv, TypeOK
<1>5. QED
  BY <1>1, <1>2, <1>3, <1>4

LEMMA RequestTypes ==
  ASSUME IInv, IInv', TInv, CancelParent \/ RetryParent \/ GetRead \/ GetCommit
  PROVE  TInv'
<1>1. CASE CancelParent \/ RetryParent
  <2>1. parent' \in ParentTask
    BY <1>1 DEF CancelParent, RetryParent, TInv, TypeOK, ParentTask
  <2>2. QED
    BY <1>1, <2>1 DEF CancelParent, RetryParent, TInv, TypeOK, Verdicts
<1>2. CASE GetRead
  BY <1>2, RefreshIsWrite DEF GetRead, TInv, TypeOK, Verdicts
<1>3. CASE GetCommit
  <2>1. parent' \in ParentTask
    BY <1>3, CommitType DEF GetCommit, TInv, TypeOK
  <2>2. QED
    BY <1>3, <2>1, RefreshIsWrite DEF GetCommit, TInv, TypeOK, Verdicts, IInv, Shapes
<1>4. QED
  BY <1>1, <1>2, <1>3

LEMMA NextTypes == IInv /\ TInv /\ [Next]_vars => TInv'
<1> SUFFICES ASSUME IInv, TInv, [Next]_vars
             PROVE  TInv'
  OBVIOUS
<1>0. IInv'
  BY NextInv
<1>1. CASE UNCHANGED vars
  BY <1>1 DEF vars, TInv, TypeOK, Verdicts
<1>2. CASE TickRead \/ TickCommit
  BY <1>0, <1>2, TickTypes
<1>3. ASSUME NEW x \in Tasks,
             \/ Recover(x) \/ Claim(x) \/ Signal(x) \/ Check(x) \/ Mark(x)
             \/ MarkError(x) \/ Crash(x) \/ CancelTask(x) \/ RetryTask(x)
      PROVE  TInv'
  BY <1>0, <1>3, TaskTypes
<1>4. ASSUME NEW i \in Items, ItemRead(i) \/ ItemCommit(i) \/ ItemError(i) \/ FailError(i)
      PROVE  TInv'
  BY <1>0, <1>4, ItemTypes
<1>5. CASE AggregateRead \/ ReportRead \/ ReportCommit \/ AggregateError
  BY <1>0, <1>5, AggregateTypes
<1>6. CASE CancelParent \/ RetryParent \/ GetRead \/ GetCommit
  BY <1>0, <1>6, RequestTypes
<1>7. QED
  BY <1>1, <1>2, <1>3, <1>4, <1>5, <1>6 DEF Next, Idle

\* Types of all rows, threads and transactions; a task row never takes the
\* missing verdict of an unfinished handler (_run_claimed_task).
THEOREM TypeCorrect == Spec => []TypeOK
<1>1. Init => TInv
  BY DEF Init, TInv, TypeOK, Verdicts, Job, ItemStatus, ParentTask, TaskRow, NoTask, Thread,
         NoThread, Write, NoWrite, Tick, NoTick
<1>2. TInv => TypeOK
  BY DEF TInv
<1>3. QED
  BY <1>1, <1>2, InitInv, NextInv, NextTypes, PTL DEF Spec

-----------------------------------------------------------------------------
(* The window.  Where no task runs twice only a tick puts an item to work, *)
(* and between its snapshot and its commit items only leave the window.    *)

InUse == InStatus({"DISPATCHED", "RUNNING"})

\* No retry of a task, and no verdict or handler is lost.
RunsOnce == "retry_task" \notin Requests /\ Faults \cap {"crash", "mark_error"} = {}

\* An item is at work while its task is, and starts from DISPATCHED.
Once(i) ==
    /\ task[i].status = "PENDING" => item[i] = "DISPATCHED" /\ ~Executing(i)
    /\ task[i].status = "RUNNING" => Executing(i)
    /\ item[i] = "PENDING" => ~Executing(i)
    /\ thread[i].pc = "enter" => item[i] = "DISPATCHED"

\* The batch of an open tick still fits.
TickFits ==
    /\ tick.items \subseteq InStatus({"PENDING"})
    /\ Cardinality(InUse) + Cardinality(tick.items) <= MaxParallel

WInv == (\A i \in Items : Once(i)) /\ TickFits

LEMMA NoMishap ==
  ASSUME RunsOnce
  PROVE  /\ ~Mishap("crash") /\ ~Mishap("mark_error")
         /\ \A x \in Tasks : ~RetryTask(x) /\ ~MarkError(x) /\ ~Crash(x)
  BY DEF RunsOnce, Mishap, RetryTask, MarkError, Crash

LEMMA PartsFinite ==
  ASSUME NEW S \in SUBSET Items
  PROVE  IsFiniteSet(S) /\ Cardinality(S) \in Nat
  BY SzdmJobAssumption, FS_Subset, FS_CardinalityType

\* The window with no more items in it, the items that wait still waiting.
LEMMA WindowShrinks ==
  ASSUME WInv, tick' = tick,
         \A i \in Items : /\ item'[i] \in {"DISPATCHED", "RUNNING"} =>
                                item[i] \in {"DISPATCHED", "RUNNING"}
                          /\ item[i] = "PENDING" => item'[i] = "PENDING"
  PROVE  TickFits'
<1>1. InUse' \subseteq InUse /\ InUse \in SUBSET Items /\ InUse' \in SUBSET Items
  BY DEF InUse, InStatus
<1>2. tick.items \subseteq InStatus({"PENDING"})'
  BY DEF WInv, TickFits, InStatus
<1>3. tick.items \in SUBSET Items
  BY DEF WInv, TickFits, InStatus
<1>4. Cardinality(InUse') <= Cardinality(InUse)
  BY <1>1, PartsFinite, FS_Subset
<1>5. /\ Cardinality(InUse') \in Nat /\ Cardinality(InUse) \in Nat
      /\ Cardinality(tick.items) \in Nat /\ MaxParallel \in Nat
  BY <1>1, <1>3, PartsFinite, SzdmJobAssumption
<1>6. Cardinality(InUse) + Cardinality(tick.items) <= MaxParallel
  BY DEF WInv, TickFits
<1>7. Cardinality(InUse') + Cardinality(tick.items) <= MaxParallel
  BY <1>4, <1>5, <1>6
<1>8. QED
  BY <1>2, <1>7 DEF TickFits

\* A step of one task, its item and its execution.
LEMMA OneItem ==
  ASSUME WInv, tick' = tick, NEW x \in Tasks,
         \A i \in Items : i # x => /\ item'[i] = item[i] /\ task'[i] = task[i]
                                   /\ thread'[i] = thread[i],
         x \in Items => /\ Once(x)'
                        /\ item'[x] \in {"DISPATCHED", "RUNNING"} =>
                               item[x] \in {"DISPATCHED", "RUNNING"}
                        /\ item[x] = "PENDING" => item'[x] = "PENDING"
  PROVE  WInv'
<1>1. TickFits'
  BY WindowShrinks
<1>2. ASSUME NEW i \in Items
      PROVE  Once(i)'
  BY DEF WInv, Once, Executing
<1>3. QED
  BY <1>1, <1>2 DEF WInv

LEMMA WindowTickRead == TInv /\ WInv /\ TickRead => WInv'
<1> SUFFICES ASSUME TInv, WInv, TickRead
             PROVE  WInv'
  OBVIOUS
<1> DEFINE pending == InStatus({"PENDING"})
           size == Min2(DispatchLimit, Cardinality(pending))
<1>1. InUse \in SUBSET Items /\ pending \in SUBSET Items /\ tick.items \in SUBSET Items
  BY DEF InUse, InStatus, WInv, TickFits
<1>2. /\ Cardinality(InUse) \in Nat /\ Cardinality(pending) \in Nat
      /\ Cardinality(tick.items) \in Nat
      /\ MaxParallel \in Nat /\ BatchSize \in Nat /\ PerJobLimit \in Nat
  BY <1>1, PartsFinite, SzdmJobAssumption
<1>3. Cardinality(InUse) <= MaxParallel
  BY <1>2 DEF WInv, TickFits
<1>4. PICK batch \in Batches : tick'.items = batch
  BY DEF TickRead
<1>5. batch \subseteq pending /\ Cardinality(batch) <= MaxParallel - Cardinality(InUse)
  <2>1. CASE size <= 0
    <3>1. batch = {}
      BY <1>4, <2>1 DEF Batches
    <3>2. QED
      BY <1>2, <1>3, <3>1, FS_EmptySet
  <2>2. CASE ~(size <= 0)
    <3>1. batch \subseteq pending /\ Cardinality(batch) = size
      BY <1>4, <2>2 DEF Batches
    <3>2. size <= DispatchLimit /\ DispatchLimit <= MaxParallel - Cardinality(InUse)
      BY <1>2 DEF Min2, DispatchLimit, InUse
    <3>3. size \in Int /\ DispatchLimit \in Int
      BY <1>2 DEF Min2, DispatchLimit, InUse
    <3>4. QED
      BY <1>2, <3>1, <3>2, <3>3
  <2>3. QED
    BY <2>1, <2>2
<1>6. Cardinality(batch) \in Nat
  BY <1>1, <1>5, PartsFinite
<1>7. TickFits'
  <2>1. InUse' = InUse /\ InStatus({"PENDING"})' = pending
    BY DEF TickRead, InUse, InStatus
  <2>2. Cardinality(InUse) + Cardinality(batch) <= MaxParallel
    BY <1>2, <1>5, <1>6
  <2>3. QED
    BY <1>4, <1>5, <2>1, <2>2 DEF TickFits
<1>8. QED
  BY <1>7 DEF TickRead, WInv, Once, Executing

LEMMA WindowTickCommit == TInv /\ WInv /\ TickCommit => WInv'
<1> SUFFICES ASSUME TInv, WInv, TickCommit
             PROVE  WInv'
  OBVIOUS
<1>0. /\ item' = [i \in Items |-> IF i \in tick.items THEN "DISPATCHED" ELSE item[i]]
      /\ tick'.items = {} /\ thread' = thread
      /\ \A i \in Items : task'[i] = IF i \in tick.items THEN NewTask ELSE task[i]
  BY AggIsTask DEF TickCommit, NoTick, Tasks
<1>1. tick.items \in SUBSET Items /\ InUse \in SUBSET Items
  BY DEF InUse, InStatus, WInv, TickFits
<1>2. InUse' = InUse \cup tick.items
  BY <1>0, <1>1 DEF InUse, InStatus
<1>3. InUse \cap tick.items = {}
  BY DEF WInv, TickFits, InUse, InStatus
<1>4. Cardinality(InUse') = Cardinality(InUse) + Cardinality(tick.items)
  <2>1. IsFiniteSet(InUse) /\ IsFiniteSet(tick.items)
    BY <1>1, PartsFinite
  <2>2. Cardinality(InUse) \in Nat /\ Cardinality(tick.items) \in Nat
    BY <1>1, PartsFinite
  <2>3. Cardinality(InUse \cup tick.items) =
            Cardinality(InUse) + Cardinality(tick.items) - Cardinality(InUse \cap tick.items)
    BY <2>1, FS_Union
  <2>4. Cardinality(InUse \cap tick.items) = 0
    BY <1>3, FS_EmptySet
  <2>5. Cardinality(InUse \cup tick.items) = Cardinality(InUse) + Cardinality(tick.items)
    BY <2>2, <2>3, <2>4
  <2>6. QED
    BY <1>2, <2>5
<1>5. TickFits'
  <2>1. Cardinality(InUse') \in Nat /\ Cardinality(tick'.items) = 0
    BY <1>0, <1>1, <1>2, PartsFinite, FS_EmptySet
  <2>2. Cardinality(InUse') <= MaxParallel
    BY <1>4 DEF WInv, TickFits
  <2>3. Cardinality(InUse') + Cardinality(tick'.items) <= MaxParallel
    BY <2>1, <2>2, SzdmJobAssumption
  <2>4. QED
    BY <1>0, <2>3 DEF TickFits
<1>6. ASSUME NEW i \in Items
      PROVE  Once(i)'
  <2>1. i \in tick.items => item[i] = "PENDING"
    BY DEF WInv, TickFits, InStatus
  <2>2. Once(i)
    BY DEF WInv
  <2>3. NewTask.status = "PENDING"
    BY DEF NewTask
  <2>4. QED
    BY <1>0, <2>1, <2>2, <2>3 DEF Once, Executing
<1>7. QED
  BY <1>5, <1>6 DEF WInv

LEMMA WindowTask ==
  ASSUME RunsOnce, TInv, TInv', WInv, NEW x \in Tasks,
         Recover(x) \/ Claim(x) \/ Signal(x) \/ Check(x) \/ Mark(x) \/ CancelTask(x)
  PROVE  WInv'
<1>0. /\ task[x] \in TaskRow /\ thread[x] \in Thread /\ x \in DOMAIN task /\ x \in DOMAIN thread
      /\ NoThread.pc = "idle" /\ NewThread.pc = "enter"
      /\ tick' = tick /\ item' = item
      /\ \A i \in Items : i # x => task'[i] = task[i] /\ thread'[i] = thread[i]
      /\ x \in Items => Once(x)
  BY AggIsTask DEF TInv, TypeOK, NoThread, NewThread, Recover, Claim, Signal, Check, Mark, CancelTask,
     Move, SetThread, WInv
<1>1. CASE Recover(x)
  <2>1. x \notin Items
    BY <1>0, <1>1 DEF Recover, Once
  <2>2. QED
    BY <1>0, <2>1, OneItem
<1>2. CASE Claim(x)
  <2>1. /\ task[x].status = "PENDING" /\ task'[x] = [status |-> "RUNNING", cancel |-> FALSE]
        /\ thread'[x] = NewThread
    BY <1>0, <1>2 DEF Claim, Move
  <2>2. x \in Items => Once(x)'
    BY <1>0, <2>1 DEF Once, Executing
  <2>3. QED
    BY <1>0, <2>2, OneItem
<1>3. CASE Signal(x)
  <2>1. task' = task /\ thread'[x].pc = thread[x].pc
    BY <1>0, <1>3 DEF Signal, SetThread, Thread
  <2>2. x \in Items => Once(x)'
    BY <1>0, <2>1 DEF Once, Executing
  <2>3. QED
    BY <1>0, <2>2, OneItem
<1>4. CASE Check(x)
  <2> DEFINE out == [thread[x] EXCEPT !.pc = IF x = Agg THEN "exit" ELSE "failing",
                                      !.verdict = "CANCELED"]
             on  == [thread[x] EXCEPT !.pc = "body"]
  <2>1. task' = task /\ thread[x].pc = "check" /\ thread'[x] \in {out, on}
    BY <1>0, <1>4 DEF Check, SetThread
  <2>2. out.pc \in {"exit", "failing"} /\ on.pc = "body"
    BY <1>0 DEF Thread
  <2>3. thread'[x].pc \in {"exit", "failing", "body"}
    BY <2>1, <2>2
  <2>4. x \in Items => Once(x)'
    BY <1>0, <2>1, <2>3 DEF Once, Executing
  <2>5. QED
    BY <1>0, <2>4, OneItem
<1>5. CASE Mark(x)
  <2>1. /\ thread[x].pc = "exit" /\ thread'[x] = NoThread
        /\ task'[x] = [task[x] EXCEPT !.status = thread[x].verdict]
    BY <1>0, <1>5 DEF Mark, SetThread
  <2>2. thread[x].verdict \in TaskVerdict
    BY <1>0, <2>1 DEF TInv, Verdicts, Thread, TaskVerdict
  <2>3. task'[x].status = thread[x].verdict
    BY <1>0, <2>1 DEF TaskRow
  <2>4. x \in Items => Once(x)'
    BY <1>0, <2>1, <2>2, <2>3 DEF Once, Executing, TaskVerdict
  <2>5. QED
    BY <1>0, <2>4, OneItem
<1>6. CASE CancelTask(x)
  <2>1. /\ thread' = thread
        /\ task'[x].status = IF task[x].status = "PENDING" THEN "CANCELED" ELSE task[x].status
    BY <1>0, <1>6 DEF CancelTask, TaskRow
  <2>2. x \in Items => Once(x)'
    BY <1>0, <2>1 DEF Once, Executing
  <2>3. QED
    BY <1>0, <2>2, OneItem
<1>7. QED
  BY <1>1, <1>2, <1>3, <1>4, <1>5, <1>6

\* What a step of an item's handler does to its item and its execution.
LEMMA ItemStep ==
  ASSUME TInv, NEW i \in Items,
         ItemRead(i) \/ ItemCommit(i) \/ ItemError(i) \/ FailError(i)
  PROVE  /\ task' = task /\ tick' = tick /\ reader' = reader
         /\ \A j \in Items : j # i => item'[j] = item[j] /\ thread'[j] = thread[j]
         /\ thread'[Agg] = thread[Agg]
         /\ ItemRead(i) => /\ thread'[i].pc = thread[i].pc
                           /\ thread'[i].tx = RefreshWrite
                           /\ item' = item /\ job' = job /\ parent' = parent
                           /\ thread[i].pc \in {"enter", "body", "failing"}
         /\ ItemCommit(i) =>
                /\ thread'[i].tx = NoWrite
                /\ CommitRefresh(thread[i].tx)
                /\ \/ /\ thread[i].pc = "enter" /\ thread'[i].pc = "check"
                      /\ item'[i] = "RUNNING"
                   \/ /\ thread[i].pc = "body" /\ thread'[i].pc = "exit"
                      /\ item'[i] = "SUCCEEDED"
                   \/ /\ thread[i].pc = "failing" /\ thread'[i].pc = "exit"
                      /\ item'[i] = "FAILED"
         /\ ItemError(i) => /\ \/ thread[i].pc \in {"enter", "body"}
                               \/ thread[i].pc = "exit" /\ "progress_error" \in Faults
                            /\ thread'[i].pc = "failing" /\ thread'[i].tx = NoWrite
                            /\ item' = item /\ job' = job /\ parent' = parent
         /\ FailError(i) => /\ thread[i].pc = "failing" /\ "fail_error" \in Faults
                            /\ thread'[i].pc = "exit" /\ thread'[i].tx = NoWrite
                            /\ item' = item /\ job' = job /\ parent' = parent
<1>0. /\ i \in Tasks /\ i # Agg /\ Agg \in Tasks /\ thread[i] \in Thread
      /\ thread \in [Tasks -> Thread] /\ item \in [Items -> ItemStatus]
      /\ \A j \in Items : j \in Tasks
  BY AggIsTask DEF TInv, TypeOK
<1>1. CASE ItemRead(i)
  <2> DEFINE new == [thread[i] EXCEPT !.tx = RefreshWrite]
  <2>1. new.pc = thread[i].pc /\ new.tx = RefreshWrite
    BY <1>0 DEF Thread
  <2>2. thread' = [thread EXCEPT ![i] = new]
    BY <1>1 DEF ItemRead, SetThread
  <2> HIDE DEF new
  <2>3. ~ItemCommit(i) /\ ~ItemError(i) /\ ~FailError(i)
    <3>1. ~thread[i].tx.open /\ mishaps' = mishaps
      BY <1>1 DEF ItemRead
    <3>2. mishaps \in Nat
      BY DEF TInv, TypeOK
    <3>3. QED
      BY <3>1, <3>2 DEF ItemCommit, CommitRefresh, ItemError, FailError, Mishap
  <2>4. QED
    BY <1>0, <1>1, <2>1, <2>2, <2>3 DEF ItemRead
<1>2. CASE ItemCommit(i)
  <2> DEFINE th == [thread[i] EXCEPT !.tx = NoWrite]
             a == [th EXCEPT !.pc = "check"]
             b == [th EXCEPT !.pc = "exit", !.verdict = "SUCCEEDED"]
             c == [th EXCEPT !.pc = "exit"]
  <2>1. th \in Thread /\ th.pc = thread[i].pc /\ th.tx = NoWrite
    BY <1>0, RefreshIsWrite DEF Thread
  <2>2. /\ a.pc = "check" /\ a.tx = th.tx
        /\ b.pc = "exit" /\ b.tx = th.tx
        /\ c.pc = "exit" /\ c.tx = th.tx
    BY <2>1 DEF Thread
  <2>3. \/ th.pc = "enter" /\ item' = [item EXCEPT ![i] = "RUNNING"] /\ SetThread(i, a)
        \/ th.pc = "body" /\ item' = [item EXCEPT ![i] = "SUCCEEDED"] /\ SetThread(i, b)
        \/ th.pc = "failing" /\ item' = [item EXCEPT ![i] = "FAILED"] /\ SetThread(i, c)
    BY <1>2 DEF ItemCommit
  <2>4. thread[i].tx.open /\ mishaps' = mishaps /\ mishaps \in Nat
    BY <1>2 DEF ItemCommit, CommitRefresh, TInv, TypeOK
  <2>5. ~ItemRead(i) /\ ~ItemError(i) /\ ~FailError(i)
    BY <2>4 DEF ItemRead, ItemError, FailError, Mishap
  <2>6. /\ task' = task /\ tick' = tick /\ reader' = reader /\ CommitRefresh(thread[i].tx)
    BY <1>2 DEF ItemCommit
  <2> HIDE DEF th, a, b, c
  <2>7. QED
    BY <1>0, <2>1, <2>2, <2>3, <2>5, <2>6 DEF SetThread
<1>3. CASE ItemError(i)
  <2> DEFINE new == [thread[i] EXCEPT !.pc = "failing", !.tx = NoWrite, !.verdict = "FAILED"]
  <2>1. new.pc = "failing" /\ new.tx = NoWrite
    BY <1>0 DEF Thread
  <2>2. /\ thread' = [thread EXCEPT ![i] = new]
        /\ UNCHANGED <<job, item, parent, task, tick, reader>>
        /\ mishaps' = mishaps + 1
        /\ \/ thread[i].pc \in {"enter", "body"}
           \/ thread[i].pc = "exit" /\ "progress_error" \in Faults
    BY <1>3 DEF ItemError, SetThread, Mishap
  <2> HIDE DEF new
  <2>3. ~ItemRead(i) /\ ~ItemCommit(i) /\ ~FailError(i)
    <3>1. mishaps \in Nat
      BY DEF TInv, TypeOK
    <3>2. QED
      BY <2>2, <3>1 DEF ItemRead, ItemCommit, FailError
  <2>4. QED
    BY <1>0, <2>1, <2>2, <2>3
<1>4. CASE FailError(i)
  <2> DEFINE new == [thread[i] EXCEPT !.pc = "exit", !.tx = NoWrite, !.verdict = "FAILED"]
  <2>1. new.pc = "exit" /\ new.tx = NoWrite
    BY <1>0 DEF Thread
  <2>2. /\ thread' = [thread EXCEPT ![i] = new]
        /\ UNCHANGED <<job, item, parent, task, tick, reader>>
        /\ mishaps' = mishaps + 1
        /\ thread[i].pc = "failing" /\ "fail_error" \in Faults
    BY <1>4 DEF FailError, SetThread, Mishap
  <2> HIDE DEF new
  <2>3. ~ItemRead(i) /\ ~ItemCommit(i) /\ ~ItemError(i)
    <3>1. mishaps \in Nat
      BY DEF TInv, TypeOK
    <3>2. QED
      BY <2>2, <3>1 DEF ItemRead, ItemCommit, ItemError
  <2>4. QED
    BY <1>0, <2>1, <2>2, <2>3
<1>5. QED
  BY <1>1, <1>2, <1>3, <1>4

LEMMA WindowItem ==
  ASSUME RunsOnce, TInv, WInv, NEW i \in Items,
         ItemRead(i) \/ ItemCommit(i) \/ ItemError(i) \/ FailError(i)
  PROVE  WInv'
<1>1. Once(i) /\ i \in Tasks /\ tick' = tick /\ task' = task
  BY AggIsTask, ItemStep DEF WInv
<1>2. /\ Once(i)'
      /\ item'[i] \in {"DISPATCHED", "RUNNING"} => item[i] \in {"DISPATCHED", "RUNNING"}
      /\ item[i] = "PENDING" => item'[i] = "PENDING"
  BY <1>1, ItemStep DEF Once, Executing
<1>3. \A j \in Items : j # i => item'[j] = item[j] /\ task'[j] = task[j] /\ thread'[j] = thread[j]
  BY <1>1, ItemStep
<1>4. QED
  BY <1>1, <1>2, <1>3, OneItem

LEMMA WindowAggregate ==
  ASSUME TInv, WInv, AggregateRead \/ ReportRead \/ ReportCommit \/ AggregateError
  PROVE  WInv'
<1>1. /\ tick' = tick /\ task' = task /\ item' = item
      /\ \A i \in Items : thread'[i] = thread[i]
  BY AggIsTask DEF AggregateRead, ReportRead, ReportCommit, AggregateError, SetThread, TInv, TypeOK
<1>2. QED
  BY <1>1, AggIsTask, OneItem

LEMMA NextWindow == RunsOnce /\ TInv /\ TInv' /\ WInv /\ [Next]_vars => WInv'
<1> SUFFICES ASSUME RunsOnce, TInv, TInv', WInv, [Next]_vars
             PROVE  WInv'
  OBVIOUS
<1>1. CASE UNCHANGED vars \/ Idle \/ CancelParent \/ RetryParent \/ GetRead \/ GetCommit
  <2>1. UNCHANGED <<item, task, thread, tick>>
    BY <1>1 DEF vars, Idle, CancelParent, RetryParent, GetRead, GetCommit
  <2>2. QED
    BY <2>1 DEF WInv, Once, Executing, TickFits, InUse, InStatus
<1>2. CASE TickRead \/ TickCommit
  BY <1>2, WindowTickRead, WindowTickCommit
<1>3. ASSUME NEW x \in Tasks,
             \/ Recover(x) \/ Claim(x) \/ Signal(x) \/ Check(x) \/ Mark(x)
             \/ MarkError(x) \/ Crash(x) \/ CancelTask(x) \/ RetryTask(x)
      PROVE  WInv'
  BY <1>3, NoMishap, WindowTask
<1>4. ASSUME NEW i \in Items, ItemRead(i) \/ ItemCommit(i) \/ ItemError(i) \/ FailError(i)
      PROVE  WInv'
  BY <1>4, WindowItem
<1>5. CASE AggregateRead \/ ReportRead \/ ReportCommit \/ AggregateError
  BY <1>5, WindowAggregate
<1>6. QED
  BY <1>1, <1>2, <1>3, <1>4, <1>5 DEF Next

LEMMA InitWindow == Init => WInv
<1> SUFFICES ASSUME Init
             PROVE  WInv
  OBVIOUS
<1>1. \A i \in Items : Once(i)
  BY AggIsTask DEF Init, Once, Executing, NoTask, NoThread
<1>2. InUse = {} /\ tick.items = {}
  BY DEF Init, InUse, InStatus, NoTick
<1>3. QED
  BY <1>1, <1>2, FS_EmptySet, SzdmJobAssumption DEF WInv, TickFits

LEMMA WindowHolds == TInv /\ WInv => WindowRespected
<1> SUFFICES ASSUME WInv
             PROVE  WindowRespected
  OBVIOUS
<1>1. InUse \in SUBSET Items /\ tick.items \in SUBSET Items
  BY DEF InUse, InStatus, WInv, TickFits
<1>2. /\ Cardinality(InUse) \in Nat /\ Cardinality(tick.items) \in Nat /\ MaxParallel \in Nat
  BY <1>1, PartsFinite, SzdmJobAssumption
<1>3. QED
  BY <1>2 DEF WInv, TickFits, WindowRespected, InUse

LEMMA InitTypes == Init => TInv
  BY DEF Init, TInv, TypeOK, Verdicts, Job, ItemStatus, ParentTask, TaskRow, NoTask, Thread,
     NoThread, Write, NoWrite, Tick, NoTick

\* Where no task runs twice, the items at work never exceed the window of the
\* job (max_parallel_children), whatever a tick's snapshot missed, whoever
\* cancels, retries the parent or reads, and whatever handlers raise.
THEOREM WindowKept ==
  ASSUME RunsOnce
  PROVE  Spec => []WindowRespected
<1>1. IInv /\ TInv /\ WInv /\ [Next]_vars => IInv' /\ TInv' /\ WInv'
  BY NextInv, NextTypes, NextWindow
<1>2. QED
  BY <1>1, InitInv, InitTypes, InitWindow, WindowHolds, PTL DEF Spec

-----------------------------------------------------------------------------
(* The parent of a failed job.  A commit may fail the job and not the       *)
(* parent, which it saw FAILED.  If the parent is not FAILED any more, a   *)
(* claim of another child has revived it, and that child has a read before *)
(* it, which sees the failed item and fails the parent.  Once the report   *)
(* is scheduled no child is left to claim, and job and parent are only     *)
(* failed together.                                                        *)

\* Nothing is retried, no verdict is lost, and the write of a failure does not
\* fail itself.
OnlyRaises ==
    /\ RunsOnce
    /\ "retry_parent" \notin Requests
    /\ "fail_error" \notin Faults

\* How an item and its task stand while the handler is at each place.
Settling(i) ==
    /\ thread[i].pc \in {"check", "body"} => item[i] \in {"DISPATCHED", "RUNNING"}
    /\ thread[i].pc = "failing" => item[i] # "FAILED" /\ thread[i].verdict # "SUCCEEDED"
    /\ thread[i].pc = "exit" =>
           item[i] = IF thread[i].verdict = "SUCCEEDED" THEN "SUCCEEDED" ELSE "FAILED"
    /\ thread[i].tx.open => thread[i].pc \in {"enter", "body", "failing"}
    /\ item[i] = "PENDING" => task[i].status = "NONE"
    /\ task[i].status \in {"FAILED", "CANCELED"} => item[i] # "SUCCEEDED" /\ ~Executing(i)

Closed == \A i \in Items : item[i] \in {"SUCCEEDED", "FAILED"}
Failed == InStatus({"FAILED"}) # {}

ReportDue == tick.agg \/ job.report # "PENDING"

\* The report is scheduled once all items have succeeded, and then none of them
\* runs again; one may still be failed by the handler that has stored its result.
ReportFits ==
    /\ ReportDue => Closed
    /\ task[Agg].status # "NONE" => job.report # "PENDING"
    /\ Executing(Agg) => task[Agg].status # "NONE"

\* The job has failed, or a transaction will fail it or its parent.
Noticed ==
    \/ job.status = "FAILED"
    \/ reader.job \/ reader.parent
    \/ tick.fails
    \/ \E i \in Items : thread[i].tx.job \/ thread[i].tx.parent

\* A transaction will fail the job and not the parent, or the parent and not the
\* job.
JobOnly ==
    \/ reader.job /\ ~reader.parent
    \/ tick.fails /\ ~tick.parent
    \/ \E i \in Items : thread[i].tx.job /\ ~thread[i].tx.parent
ParentOnly ==
    \/ reader.parent /\ ~reader.job
    \/ \E i \in Items : thread[i].tx.parent /\ ~thread[i].tx.job

\* The tick holds the lock of the job row while it is open.
TickKnows ==
    /\ tick.open => job.status = "PARTIALLY_RUNNING"
    /\ tick.parent => tick.fails \/ tick.agg
    /\ tick.agg => tick.open /\ ~tick.fails /\ parent.status # "FAILED"

\* A parent is not failed without a child to blame.
Blamed == \E i \in Items : item[i] = "FAILED" \/ task[i].status \in {"FAILED", "CANCELED"}

\* The handler of the item will write the parent, or has a read before it.
Due(i) == /\ thread[i].pc \in {"enter", "check", "body", "failing"}
          /\ thread[i].tx.open => thread[i].tx.parent

Together == /\ ~JobOnly /\ ~ParentOnly
            /\ job.status = "FAILED" => parent.status = "FAILED"

ParentFollows ==
    job.status = "FAILED" \/ JobOnly => parent.status = "FAILED" \/ \E i \in Items : Due(i)

FInv ==
    /\ \A i \in Items : Settling(i)
    /\ ReportFits
    /\ Noticed => Failed
    /\ TickKnows
    /\ parent.status = "FAILED" => Blamed
    /\ thread[Agg].pc \in {"check", "body"} => ~Noticed
    /\ ReportDue => Together
    /\ ParentFollows

LEMMA NoRerun ==
  ASSUME OnlyRaises
  PROVE  RunsOnce /\ "fail_error" \notin Faults /\ ~RetryParent
  BY DEF OnlyRaises, RetryParent

LEMMA NothingToWrite == ~NoWrite.open /\ ~NoWrite.job /\ ~NoWrite.parent
  BY DEF NoWrite

\* A write that a refresh prepares.
LEMMA RefreshSees ==
  /\ RefreshWrite.open
  /\ RefreshWrite.job = (Fails /\ job.status # "FAILED")
  /\ RefreshWrite.parent = (Fails /\ parent.status # "FAILED")
  /\ Fails => Failed /\ job.report = "PENDING"
  BY DEF RefreshWrite, Fails, Failed

LEMMA NothingFailed == InStatus({"SUCCEEDED"}) = Items => ~Failed
  BY DEF InStatus, Failed

\* Steps of executions and tasks.  What they read or roll back is one
\* transaction of an item or the reader; a claim may change the parent.
LEMMA RowsKept ==
  ASSUME FInv, job' = job, item' = item, tick' = tick,
         reader' = reader \/ reader' = RefreshWrite,
         \A i \in Items : \/ thread'[i].tx = thread[i].tx
                          \/ thread'[i].tx = NoWrite
                          \/ thread'[i].tx = RefreshWrite,
         \A i \in Items : Settling(i)',
         ReportFits',
         \A i \in Items : task[i].status \in {"FAILED", "CANCELED"} =>
                              task'[i].status \in {"FAILED", "CANCELED"},
         thread'[Agg].pc \in {"check", "body"} =>
             thread[Agg].pc \in {"check", "body"} \/ ~Failed,
         \A i \in Items : Due(i) /\ Fails => Due(i)' \/ parent.status = "FAILED",
         \/ (parent'.status = "FAILED") = (parent.status = "FAILED")
         \/ /\ ~Closed
            /\ parent'.status = "FAILED" => parent.status = "FAILED" \/ Blamed'
            /\ \E i \in Items : Due(i)'
  PROVE  FInv'
<1>1. Failed' = Failed /\ Closed' = Closed /\ Fails' = Fails /\ ReportDue' = ReportDue
  BY DEF Failed, Closed, Fails, InStatus, ReportDue
<1>2. Blamed => Blamed'
  BY DEF Blamed
<1>3. Noticed' => Noticed \/ Fails
  BY RefreshSees, NothingToWrite DEF Noticed
<1>4. Noticed' => Failed'
  BY <1>1, <1>3, RefreshSees DEF FInv
<1>5. TickKnows'
  <2>1. tick.agg => Closed
    BY DEF FInv, ReportFits, ReportDue
  <2>2. QED
    BY <2>1 DEF FInv, TickKnows
<1>6. parent'.status = "FAILED" => Blamed'
  BY <1>2 DEF FInv
<1>7. thread'[Agg].pc \in {"check", "body"} => ~Noticed'
  <2>1. SUFFICES ASSUME thread'[Agg].pc \in {"check", "body"}
                 PROVE  ~Noticed'
    OBVIOUS
  <2>2. job.report # "PENDING"
    BY <2>1 DEF ReportFits, Executing
  <2>3. ~Fails
    BY <2>2 DEF Fails
  <2>4. QED
    BY <1>3, <2>1, <2>3 DEF FInv
<1>8. JobOnly' => JobOnly \/ (RefreshWrite.job /\ ~RefreshWrite.parent)
  BY NothingToWrite DEF JobOnly
<1>9. ParentOnly' => ParentOnly \/ (RefreshWrite.parent /\ ~RefreshWrite.job)
  BY NothingToWrite DEF ParentOnly
<1>10. ReportDue' => Together'
  <2>1. SUFFICES ASSUME ReportDue
                 PROVE  Together'
    BY <1>1
  <2>2. Closed /\ Together
    BY <2>1 DEF FInv, ReportFits
  <2>3. Fails => job.status # "FAILED" /\ parent.status # "FAILED"
    <3>1. Fails => tick.agg
      BY <2>1 DEF Fails, ReportDue
    <3>2. QED
      BY <3>1 DEF FInv, TickKnows
  <2>4. RefreshWrite.job = RefreshWrite.parent
    BY <2>3, RefreshSees
  <2>5. QED
    BY <1>8, <1>9, <2>2, <2>4 DEF Together
<1>11. ParentFollows'
  <2>1. SUFFICES ASSUME job.status = "FAILED" \/ JobOnly', ~(\E i \in Items : Due(i)')
                 PROVE  parent'.status = "FAILED"
    BY DEF ParentFollows
  <2>2. (parent'.status = "FAILED") = (parent.status = "FAILED")
    BY <2>1
  <2>3. CASE RefreshWrite.job /\ ~RefreshWrite.parent
    BY <2>2, <2>3, RefreshSees
  <2>4. CASE ~(RefreshWrite.job /\ ~RefreshWrite.parent)
    <3>1. job.status = "FAILED" \/ JobOnly
      BY <1>8, <2>1, <2>4
    <3>2. CASE ReportDue
      BY <2>2, <3>1, <3>2 DEF FInv, Together
    <3>3. CASE ~ReportDue
      <4>1. Noticed
        BY <3>1 DEF Noticed, JobOnly
      <4>2. Fails
        BY <3>3, <4>1 DEF FInv, ReportDue, Fails, Failed
      <4>3. QED
        BY <2>1, <2>2, <3>1, <4>2 DEF FInv, ParentFollows
    <3>4. QED
      BY <3>2, <3>3
  <2>5. QED
    BY <2>3, <2>4
<1>12. QED
  BY <1>4, <1>5, <1>6, <1>7, <1>10, <1>11 DEF FInv

\* A refresh is committed, and maybe an item with it.
LEMMA CommitEffect ==
  ASSUME TInv, NEW w \in Write, CommitRefresh(w)
  PROVE  /\ job'.report = job.report
         /\ job'.status = IF w.job THEN "FAILED" ELSE job.status
         /\ parent'.status = IF w.parent THEN "FAILED" ELSE parent.status
         /\ w.job => ~tick.open
<1>1. job \in Job /\ parent \in ParentTask
  BY DEF TInv, TypeOK
<1>2. QED
  BY <1>1 DEF CommitRefresh, Job, ParentTask, Write

LEMMA CommitKept ==
  ASSUME TInv, FInv, NEW w \in Write, CommitRefresh(w),
         w.job \/ w.parent => Noticed,
         w.job /\ ~w.parent => JobOnly,
         w.parent /\ ~w.job => ParentOnly,
         tick' = tick, task' = task, thread'[Agg] = thread[Agg],
         reader' = reader \/ reader' = NoWrite,
         \A i \in Items : thread'[i].tx = thread[i].tx \/ thread'[i].tx = NoWrite,
         \A i \in Items : Settling(i)',
         \A i \in Items : /\ item[i] = "FAILED" => item'[i] = "FAILED"
                          /\ item[i] = "SUCCEEDED" => item'[i] \in {"SUCCEEDED", "FAILED"},
         \A i \in Items : Due(i) /\ ~w.parent => Due(i)'
  PROVE  FInv'
<1>0. /\ job'.report = job.report
      /\ job'.status = IF w.job THEN "FAILED" ELSE job.status
      /\ parent'.status = IF w.parent THEN "FAILED" ELSE parent.status
      /\ w.job => ~tick.open
  BY CommitEffect
<1>1. (Failed => Failed') /\ (Closed => Closed') /\ (Blamed => Blamed') /\ ReportDue' = ReportDue
  BY <1>0 DEF Failed, Closed, InStatus, Blamed, ReportDue
<1>2. ReportFits'
  BY <1>0, <1>1 DEF FInv, ReportFits, Executing
<1>3. Noticed' => Noticed
  BY <1>0, NothingToWrite DEF Noticed
<1>4. Noticed' => Failed'
  BY <1>1, <1>3 DEF FInv
<1>5. TickKnows'
  <2>1. tick.agg => ~w.parent
    BY <1>0 DEF FInv, TickKnows, ReportDue, Together
  <2>2. QED
    BY <1>0, <2>1 DEF FInv, TickKnows
<1>6. parent'.status = "FAILED" => Blamed'
  <2>1. Failed => Blamed
    BY DEF Failed, InStatus, Blamed
  <2>2. QED
    BY <1>0, <1>1, <2>1 DEF FInv
<1>7. thread'[Agg].pc \in {"check", "body"} => ~Noticed'
  BY <1>3 DEF FInv
<1>8. (JobOnly' => JobOnly) /\ (ParentOnly' => ParentOnly)
  BY NothingToWrite DEF JobOnly, ParentOnly
<1>9. ReportDue' => Together'
  BY <1>0, <1>1, <1>8 DEF FInv, Together
<1>10. ParentFollows'
  BY <1>0, <1>8 DEF FInv, ParentFollows
<1>11. QED
  BY <1>2, <1>4, <1>5, <1>6, <1>7, <1>9, <1>10 DEF FInv

LEMMA FailureTickRead == TInv /\ FInv /\ TickRead => FInv'
<1> SUFFICES ASSUME TInv, FInv, TickRead
             PROVE  FInv'
  OBVIOUS
<1>1. UNCHANGED <<job, item, parent, task, thread, reader>>
  BY DEF TickRead
<1>2. /\ job.status = "PARTIALLY_RUNNING" /\ ~tick.open
      /\ tick'.fails = Fails /\ tick'.agg = ReadyToReport
      /\ tick'.open
      /\ tick'.parent = (\/ Fails /\ parent.status # "FAILED"
                         \/ ReadyToReport /\ parent.status # "AGGREGATING")
  BY DEF TickRead
<1>3. ReadyToReport => /\ ~Failed /\ ~Noticed /\ ~Fails /\ Closed
                       /\ job.report = "PENDING" /\ parent.status # "FAILED"
  <2>1. SUFFICES ASSUME ReadyToReport
                 PROVE  /\ ~Failed /\ ~Noticed /\ ~Fails /\ Closed
                        /\ job.report = "PENDING" /\ parent.status # "FAILED"
    OBVIOUS
  <2>2. (\A i \in Items : item[i] = "SUCCEEDED") /\ job.report = "PENDING"
    BY <2>1 DEF ReadyToReport
  <2>3. ~Failed /\ Closed /\ ~Fails
    BY <2>2 DEF Failed, Closed, InStatus, Fails
  <2>4. ~Blamed
    BY <2>2 DEF Blamed, FInv, Settling
  <2>5. QED
    BY <2>2, <2>3, <2>4 DEF FInv
<1>4. \A i \in Items : Settling(i)' /\ (Due(i) => Due(i)')
  BY <1>1 DEF FInv, Settling, Due, Executing
<1>5. Failed' = Failed /\ Blamed' = Blamed /\ Closed' = Closed
  BY <1>1 DEF Failed, Blamed, Closed, InStatus
<1>6. ReportFits'
  BY <1>1, <1>2, <1>3, <1>5 DEF FInv, ReportFits, ReportDue, Executing
<1>7. Noticed' => Noticed \/ Fails
  BY <1>1, <1>2 DEF Noticed
<1>8. TickKnows'
  BY <1>1, <1>2, <1>3 DEF TickKnows
<1>9. thread'[Agg].pc \in {"check", "body"} => ~Noticed'
  <2>1. SUFFICES ASSUME thread[Agg].pc \in {"check", "body"}
                 PROVE  ~Noticed'
    BY <1>1
  <2>2. job.report # "PENDING"
    BY <2>1 DEF FInv, ReportFits, Executing
  <2>3. ~Fails /\ ~Noticed
    BY <2>1, <2>2 DEF FInv, Fails
  <2>4. QED
    BY <1>7, <2>3
<1>10. (JobOnly' => JobOnly \/ (Fails /\ parent.status = "FAILED")) /\ (ParentOnly' => ParentOnly)
  <2>1. tick'.fails /\ ~tick'.parent => Fails /\ parent.status = "FAILED"
    BY <1>2
  <2>2. JobOnly' => JobOnly \/ (tick'.fails /\ ~tick'.parent)
    BY <1>1 DEF JobOnly
  <2>3. ParentOnly' => ParentOnly
    BY <1>1 DEF ParentOnly
  <2>4. QED
    BY <2>1, <2>2, <2>3
<1>11. ReportDue' => Together'
  <2>1. SUFFICES ASSUME ReportDue'
                 PROVE  Together'
    OBVIOUS
  <2>2. CASE ReadyToReport
    <3>1. ~JobOnly /\ ~ParentOnly
      BY <1>3, <2>2 DEF Noticed, JobOnly, ParentOnly
    <3>2. QED
      BY <1>1, <1>2, <1>3, <1>10, <2>2, <3>1 DEF Together
  <2>3. CASE ~ReadyToReport
    <3>1. job.report # "PENDING"
      BY <1>1, <1>2, <2>1, <2>3 DEF ReportDue
    <3>2. ~Fails
      BY <3>1 DEF Fails
    <3>3. QED
      BY <1>1, <1>10, <3>1, <3>2 DEF FInv, ReportDue, Together
  <2>4. QED
    BY <2>2, <2>3
<1>12. ParentFollows'
  BY <1>1, <1>4, <1>10 DEF FInv, ParentFollows
<1>13. QED
  BY <1>1, <1>4, <1>5, <1>6, <1>7, <1>8, <1>9, <1>11, <1>12, RefreshSees DEF FInv

LEMMA FailureTickCommit == TInv /\ WInv /\ FInv /\ TickCommit => FInv'
<1> SUFFICES ASSUME TInv, WInv, FInv, TickCommit
             PROVE  FInv'
  OBVIOUS
<1>0. /\ item' = [i \in Items |-> IF i \in tick.items THEN "DISPATCHED" ELSE item[i]]
      /\ task'[Agg] = IF tick.agg THEN NewTask ELSE task[Agg]
      /\ \A i \in Items : task'[i] = IF i \in tick.items THEN NewTask ELSE task[i]
      /\ thread' = thread /\ reader' = reader
      /\ tick' = NoTick
      /\ job'.report = IF tick.agg THEN "RUNNING" ELSE job.report
      /\ job'.status = IF tick.agg THEN "AGGREGATING"
                       ELSE IF tick.fails THEN "FAILED" ELSE job.status
      /\ parent'.status = IF ~tick.parent THEN parent.status
                          ELSE IF tick.agg THEN "AGGREGATING" ELSE "FAILED"
      /\ tick.open
  <2>1. Agg \in Tasks /\ Agg \notin tick.items /\ \A i \in Items : i \in Tasks /\ i # Agg
    BY AggIsTask DEF WInv, TickFits, InStatus
  <2>2. job \in Job /\ parent \in ParentTask
    BY DEF TInv, TypeOK
  <2>3. job' = [job EXCEPT !.status = IF tick.agg THEN "AGGREGATING"
                                      ELSE IF tick.fails THEN "FAILED" ELSE @,
                           !.report = IF tick.agg THEN "RUNNING" ELSE @]
    BY DEF TickCommit
  <2>4. parent' = [parent EXCEPT
                    !.status = IF ~tick.parent THEN @
                               ELSE IF tick.agg THEN "AGGREGATING" ELSE "FAILED",
                    !.dispatched = @ \/ tick.agg]
    BY DEF TickCommit
  <2>5. QED
    BY <2>1, <2>2, <2>3, <2>4 DEF TickCommit, Job, ParentTask
<1>1. /\ ~tick'.fails /\ ~tick'.agg /\ ~tick'.open /\ ~tick'.parent
      /\ \A i \in tick.items : i \in Items /\ item[i] = "PENDING"
      /\ NewTask.status = "PENDING"
  BY <1>0 DEF NoTick, WInv, TickFits, InStatus, NewTask
<1>2. \A i \in Items : Settling(i)' /\ (Due(i) => Due(i)')
  <2>1. \A i \in Items : item[i] = "PENDING" => ~Executing(i) /\ ~thread[i].tx.open
    BY DEF WInv, Once, FInv, Settling, Executing
  <2>2. QED
    BY <1>0, <1>1, <2>1 DEF FInv, Settling, Due, Executing
<1>3. (JobOnly' => JobOnly) /\ (ParentOnly' => ParentOnly)
  BY <1>0, <1>1 DEF JobOnly, ParentOnly
<1>4. (Failed => Failed') /\ (Closed => Closed')
  BY <1>0, <1>1 DEF Failed, Closed, InStatus
<1>5. Blamed => Blamed'
  <2>1. \A i \in tick.items : task[i].status = "NONE"
    BY <1>1 DEF FInv, Settling
  <2>2. QED
    BY <1>0, <1>1, <2>1 DEF Blamed
<1>6. Noticed' => Noticed
  BY <1>0, <1>1 DEF Noticed
<1>7. ReportDue' = ReportDue
  BY <1>0, <1>1 DEF ReportDue
<1>8. ReportFits'
  BY <1>0, <1>4, <1>7 DEF FInv, ReportFits, Executing, NewTask, ReportDue
<1>9. TickKnows'
  BY <1>1 DEF TickKnows
<1>10. parent'.status = "FAILED" => Blamed'
  <2>1. Failed => Blamed
    BY DEF Failed, InStatus, Blamed
  <2>2. tick.parent /\ ~tick.agg => Failed
    BY DEF FInv, TickKnows, Noticed
  <2>3. QED
    BY <1>0, <1>5, <2>1, <2>2 DEF FInv
<1>11. thread'[Agg].pc \in {"check", "body"} => ~Noticed'
  BY <1>0, <1>6 DEF FInv
<1>12. tick.fails /\ ~tick.parent => JobOnly
  BY DEF JobOnly
<1>13. ReportDue' => Together'
  BY <1>0, <1>3, <1>7, <1>12 DEF FInv, Together, TickKnows
<1>14. ParentFollows'
  BY <1>0, <1>2, <1>3, <1>12 DEF FInv, ParentFollows, TickKnows
<1>15. QED
  BY <1>2, <1>4, <1>6, <1>8, <1>9, <1>10, <1>11, <1>13, <1>14 DEF FInv

LEMMA FailureItemTask ==
  ASSUME OnlyRaises, TInv, TInv', WInv, FInv, NEW x \in Items,
         Recover(x) \/ Claim(x) \/ Signal(x) \/ Check(x) \/ Mark(x) \/ CancelTask(x)
  PROVE  FInv'
<1>0. /\ x \in Tasks /\ Agg \in Tasks /\ x # Agg
      /\ task \in [Tasks -> TaskRow] /\ thread \in [Tasks -> Thread]
      /\ thread[x] \in Thread /\ task[x] \in TaskRow
      /\ \A i \in Items : i \in Tasks
  BY AggIsTask DEF TInv, TypeOK
<1>1. /\ UNCHANGED <<job, item, reader, tick>>
      /\ task'[Agg] = task[Agg] /\ thread'[Agg] = thread[Agg]
      /\ \A i \in Items : i # x => thread'[i] = thread[i] /\ task'[i] = task[i]
  BY <1>0 DEF Recover, Claim, Signal, Check, Mark, CancelTask, Move, SetThread
<1>2. Once(x) /\ Settling(x)
  BY DEF WInv, FInv
<1>3. ReportFits'
  BY <1>1 DEF FInv, ReportFits, ReportDue, Closed, Executing
<1>4. \A i \in Items : i # x => Settling(i)' /\ (Due(i) => Due(i)')
  BY <1>1 DEF FInv, Settling, Due, Executing
<1>5. ASSUME Settling(x)',
             \/ thread'[x].tx = thread[x].tx \/ thread'[x].tx = NoWrite,
             task[x].status \in {"FAILED", "CANCELED"} =>
                 task'[x].status \in {"FAILED", "CANCELED"},
             Due(x) => Due(x)',
             parent' = parent
      PROVE  FInv'
  <2>1. \A i \in Items : Settling(i)' /\ (Due(i) => Due(i)')
    BY <1>4, <1>5
  <2>2. \A i \in Items : \/ thread'[i].tx = thread[i].tx
                         \/ thread'[i].tx = NoWrite
                         \/ thread'[i].tx = RefreshWrite
    BY <1>1, <1>5
  <2>3. \A i \in Items : task[i].status \in {"FAILED", "CANCELED"} =>
                             task'[i].status \in {"FAILED", "CANCELED"}
    BY <1>1, <1>5
  <2>4. QED
    BY <1>1, <1>3, <1>5, <2>1, <2>2, <2>3, RowsKept
<1>6. CASE Recover(x)
  BY <1>2, <1>6 DEF Recover, Once
<1>7. CASE Claim(x)
  <2>1. /\ thread'[x] = NewThread /\ task[x].status = "PENDING" /\ item[x] = "DISPATCHED"
        /\ task'[x] = [status |-> "RUNNING", cancel |-> FALSE]
        /\ parent' = RefreshedParent(task')
    BY <1>0, <1>2, <1>7 DEF Claim, Move, Once
  <2>2. NewThread.pc = "enter" /\ NewThread.tx = NoWrite
    BY DEF NewThread, NoThread
  <2>3. \A i \in Items : Settling(i)'
    BY <1>1, <1>4, <2>1, <2>2, NothingToWrite DEF Settling, Executing
  <2>4. Due(x)'
    BY <2>1, <2>2, NothingToWrite DEF Due
  <2>5. ~Closed
    BY <2>1 DEF Closed
  <2>6. parent'.status = "FAILED" => parent.status = "FAILED" \/ Blamed'
    <3>1. parent \in ParentTask
      BY DEF TInv, TypeOK
    <3>2. parent'.status = "FAILED" =>
              \/ parent.status = "FAILED"
              \/ \E i \in Items : task'[i].status \in {"FAILED", "CANCELED"}
      BY <2>1, <3>1 DEF RefreshedParent, ParentTask
    <3>3. QED
      BY <3>2 DEF Blamed
  <2>7. \A i \in Items : task[i].status \in {"FAILED", "CANCELED"} =>
                             task'[i].status \in {"FAILED", "CANCELED"}
    BY <1>1, <2>1
  <2>8. \A i \in Items : \/ thread'[i].tx = thread[i].tx
                         \/ thread'[i].tx = NoWrite
                         \/ thread'[i].tx = RefreshWrite
    BY <1>1, <2>1, <2>2
  <2>9. \A i \in Items : Due(i) /\ Fails => Due(i)' \/ parent.status = "FAILED"
    BY <1>4, <2>4
  <2>10. QED
    BY <1>1, <1>3, <2>3, <2>4, <2>5, <2>6, <2>7, <2>8, <2>9, RowsKept
<1>8. CASE Signal(x)
  <2> DEFINE new == [thread[x] EXCEPT !.signal = TRUE]
  <2>1. new.pc = thread[x].pc /\ new.tx = thread[x].tx /\ new.verdict = thread[x].verdict
    BY <1>0 DEF Thread
  <2>2. thread'[x] = new /\ parent' = parent /\ task' = task
    BY <1>0, <1>8 DEF Signal, SetThread
  <2> HIDE DEF new
  <2>3. Settling(x)' /\ (Due(x) => Due(x)')
    BY <1>1, <1>2, <2>1, <2>2 DEF Settling, Due, Executing
  <2>4. QED
    BY <1>5, <2>1, <2>2, <2>3
<1>9. CASE Check(x)
  <2> DEFINE out == [thread[x] EXCEPT !.pc = "failing", !.verdict = "CANCELED"]
             on  == [thread[x] EXCEPT !.pc = "body"]
  <2>1. /\ out.pc = "failing" /\ out.tx = thread[x].tx /\ out.verdict = "CANCELED"
        /\ on.pc = "body" /\ on.tx = thread[x].tx
    BY <1>0 DEF Thread
  <2>2. thread[x].pc = "check" /\ thread'[x] \in {out, on} /\ parent' = parent /\ task' = task
    BY <1>0, <1>9 DEF Check, SetThread
  <2> HIDE DEF out, on
  <2>3. /\ thread'[x].tx = thread[x].tx
        /\ \/ thread'[x].pc = "failing" /\ thread'[x].verdict = "CANCELED"
           \/ thread'[x].pc = "body"
    BY <2>1, <2>2
  <2>4. Settling(x)' /\ (Due(x) => Due(x)')
    BY <1>1, <1>2, <2>2, <2>3 DEF Settling, Due, Executing
  <2>5. QED
    BY <1>5, <2>2, <2>3, <2>4
<1>10. CASE Mark(x)
  <2>1. /\ thread'[x] = NoThread /\ parent' = parent /\ thread[x].pc = "exit"
        /\ task'[x] = [task[x] EXCEPT !.status = thread[x].verdict]
    BY <1>0, <1>10 DEF Mark, SetThread
  <2>2. task'[x].status = thread[x].verdict
    BY <1>0, <2>1 DEF TaskRow
  <2>3. NoThread.pc = "idle" /\ NoThread.tx = NoWrite
    BY DEF NoThread
  <2>4. Settling(x)' /\ ~Due(x)
    <3>1. thread[x].verdict \in {"FAILED", "CANCELED"} => item[x] # "SUCCEEDED"
      BY <1>2, <2>1 DEF Settling
    <3>2. item[x] # "PENDING"
      BY <1>2, <2>1 DEF Settling
    <3>3. QED
      BY <1>1, <2>1, <2>2, <2>3, <3>1, <3>2, NothingToWrite DEF Settling, Due, Executing
  <2>5. task[x].status \notin {"FAILED", "CANCELED"}
    BY <1>2, <2>1 DEF Settling, Executing
  <2>6. QED
    BY <1>5, <2>1, <2>3, <2>4, <2>5
<1>11. CASE CancelTask(x)
  <2>1. thread' = thread /\ parent' = parent /\ task[x].status \in ActiveStatus
    BY <1>11 DEF CancelTask
  <2>2. task'[x].status = IF task[x].status = "PENDING" THEN "CANCELED" ELSE task[x].status
    BY <1>0, <1>11 DEF CancelTask, TaskRow
  <2>3. Settling(x)'
    BY <1>1, <1>2, <2>1, <2>2 DEF Settling, Executing, Once
  <2>4. QED
    BY <1>5, <2>1, <2>2, <2>3 DEF Due
<1>12. QED
  BY <1>6, <1>7, <1>8, <1>9, <1>10, <1>11

\* Steps that touch the items and their executions in no way.
LEMMA ItemsKept ==
  ASSUME FInv, job' = job, item' = item, tick' = tick,
         reader' = reader \/ reader' = RefreshWrite,
         (parent'.status = "FAILED") = (parent.status = "FAILED"),
         \A i \in Items : thread'[i] = thread[i] /\ task'[i] = task[i],
         ReportFits',
         thread'[Agg].pc \in {"check", "body"} =>
             thread[Agg].pc \in {"check", "body"} \/ ~Failed
  PROVE  FInv'
<1>1. \A i \in Items : Settling(i)' /\ (Due(i) => Due(i)')
  BY DEF FInv, Settling, Due, Executing
<1>2. /\ \A i \in Items : \/ thread'[i].tx = thread[i].tx
                          \/ thread'[i].tx = NoWrite
                          \/ thread'[i].tx = RefreshWrite
      /\ \A i \in Items : task[i].status \in {"FAILED", "CANCELED"} =>
                              task'[i].status \in {"FAILED", "CANCELED"}
  OBVIOUS
<1>3. QED
  BY <1>1, <1>2, RowsKept

LEMMA FailureAggTask ==
  ASSUME TInv, TInv', FInv,
         \/ Recover(Agg) \/ Claim(Agg) \/ Signal(Agg) \/ Check(Agg) \/ Mark(Agg)
         \/ CancelTask(Agg)
  PROVE  FInv'
<1>0. /\ Agg \in Tasks /\ Agg \notin Items
      /\ task \in [Tasks -> TaskRow] /\ thread \in [Tasks -> Thread]
      /\ task[Agg] \in TaskRow /\ thread[Agg] \in Thread
      /\ \A i \in Items : i \in Tasks /\ i # Agg
  BY AggIsTask DEF TInv, TypeOK
<1>1. /\ UNCHANGED <<job, item, reader, tick, parent>>
      /\ \A i \in Items : thread'[i] = thread[i] /\ task'[i] = task[i]
  BY <1>0 DEF Recover, Claim, Signal, Check, Mark, CancelTask, Move, SetThread
<1>2. task[Agg].status # "NONE" /\ task'[Agg].status # "NONE"
  <2>1. CASE Recover(Agg)
    BY <1>0, <2>1 DEF Recover, Move, TaskRow
  <2>2. CASE Claim(Agg)
    BY <1>0, <2>2 DEF Claim, Move
  <2>3. CASE Signal(Agg) \/ Check(Agg)
    BY <2>3 DEF Signal, Check, FInv, ReportFits, Executing
  <2>4. CASE Mark(Agg)
    <3>1. task[Agg].status # "NONE"
      BY <2>4 DEF Mark, FInv, ReportFits, Executing
    <3>2. thread[Agg].verdict \in TaskVerdict
      BY <1>0, <2>4 DEF Mark, TInv, Verdicts, Thread, TaskVerdict
    <3>3. task'[Agg].status = thread[Agg].verdict
      BY <1>0, <2>4 DEF Mark, TaskRow
    <3>4. QED
      BY <3>1, <3>2, <3>3 DEF TaskVerdict
  <2>5. CASE CancelTask(Agg)
    <3>1. task[Agg].status # "NONE"
      BY <2>5 DEF CancelTask, ActiveStatus
    <3>2. task'[Agg].status = IF task[Agg].status = "PENDING" THEN "CANCELED"
                              ELSE task[Agg].status
      BY <1>0, <2>5 DEF CancelTask, TaskRow
    <3>3. QED
      BY <3>1, <3>2
  <2>6. QED
    BY <2>1, <2>2, <2>3, <2>4, <2>5
<1>3. ReportFits'
  BY <1>1, <1>2 DEF FInv, ReportFits, ReportDue, Closed
<1>4. thread'[Agg].pc \in {"check", "body"} => thread[Agg].pc \in {"check", "body"}
  <2>1. CASE Recover(Agg) \/ CancelTask(Agg)
    BY <2>1 DEF Recover, CancelTask
  <2>2. CASE Claim(Agg)
    BY <1>0, <2>2 DEF Claim, NewThread, NoThread
  <2>3. CASE Mark(Agg)
    BY <1>0, <2>3 DEF Mark, SetThread, NoThread
  <2>4. CASE Signal(Agg) \/ Check(Agg)
    <3>1. thread[Agg].pc \in {"enter", "check"}
      BY <2>4 DEF Signal, Check
    <3>2. Signal(Agg) => thread'[Agg].pc = thread[Agg].pc
      BY <1>0 DEF Signal, SetThread, Thread
    <3>3. Check(Agg) => thread[Agg].pc = "check"
      BY DEF Check
    <3>4. QED
      BY <2>4, <3>2, <3>3
  <2>5. QED
    BY <2>1, <2>2, <2>3, <2>4
<1>5. QED
  BY <1>1, <1>3, <1>4, ItemsKept

LEMMA FailureItem ==
  ASSUME OnlyRaises, TInv, TInv', WInv, FInv, NEW x \in Items,
         ItemRead(x) \/ ItemCommit(x) \/ ItemError(x) \/ FailError(x)
  PROVE  FInv'
<1>0. /\ task' = task /\ tick' = tick /\ reader' = reader
      /\ thread'[Agg] = thread[Agg]
      /\ \A i \in Items : i # x => item'[i] = item[i] /\ thread'[i] = thread[i]
  BY ItemStep
<1>1. Once(x) /\ Settling(x)
  BY DEF WInv, FInv
<1>2. \A i \in Items : i # x => Settling(i)' /\ (Due(i) => Due(i)')
  BY <1>0 DEF FInv, Settling, Due, Executing
<1>3. ASSUME item' = item, job' = job, parent' = parent,
             Settling(x)', thread'[x].tx \in {NoWrite, RefreshWrite},
             Due(x) /\ Fails => Due(x)' \/ parent.status = "FAILED"
      PROVE  FInv'
  <2>1. ReportFits'
    BY <1>0, <1>3 DEF FInv, ReportFits, ReportDue, Closed, Executing
  <2>2. \A i \in Items : Settling(i)'
    BY <1>2, <1>3
  <2>3. \A i \in Items : Due(i) /\ Fails => Due(i)' \/ parent.status = "FAILED"
    BY <1>2, <1>3
  <2>4. \A i \in Items : \/ thread'[i].tx = thread[i].tx
                         \/ thread'[i].tx = NoWrite
                         \/ thread'[i].tx = RefreshWrite
    BY <1>0, <1>3
  <2>5. QED
    BY <1>0, <1>3, <2>1, <2>2, <2>3, <2>4, RowsKept
<1>4. CASE ItemRead(x)
  <2>1. /\ thread'[x].pc = thread[x].pc /\ thread'[x].tx = RefreshWrite
        /\ item' = item /\ job' = job /\ parent' = parent
        /\ thread[x].pc \in {"enter", "body", "failing"}
    BY <1>4, ItemStep
  <2>2. thread'[x].verdict = thread[x].verdict
    BY <1>4, AggIsTask DEF ItemRead, SetThread, TInv, TypeOK, Thread
  <2>3. Settling(x)'
    BY <1>0, <1>1, <2>1, <2>2 DEF Settling, Executing
  <2>4. Fails => Due(x)' \/ parent.status = "FAILED"
    BY <2>1, RefreshSees DEF Due
  <2>5. QED
    BY <1>3, <2>1, <2>3, <2>4
<1>5. CASE ItemError(x)
  <2>1. /\ thread[x].pc \in {"enter", "body", "exit"}
        /\ thread'[x].pc = "failing" /\ thread'[x].tx = NoWrite
        /\ item' = item /\ job' = job /\ parent' = parent
    BY <1>5, ItemStep
  <2>2. /\ thread'[x].verdict = "FAILED"
        /\ thread[x].pc = "exit" => thread[x].verdict = "SUCCEEDED"
    BY <1>5, AggIsTask DEF ItemError, SetThread, TInv, TypeOK, Thread
  <2>3. item[x] # "FAILED" /\ item[x] # "PENDING"
    BY <1>1, <2>1, <2>2 DEF Settling, Once, Executing
  <2>4. Settling(x)' /\ Due(x)'
    BY <1>0, <1>1, <2>1, <2>2, <2>3, NothingToWrite DEF Settling, Due, Executing
  <2>5. QED
    BY <1>3, <2>1, <2>4
<1>6. CASE FailError(x)
  BY <1>6, ItemStep, NoRerun
<1>7. CASE ItemCommit(x)
  <2> DEFINE w == thread[x].tx
  <2>0. w \in Write /\ w.open
    BY <1>7, AggIsTask DEF TInv, TypeOK, Thread, ItemCommit, CommitRefresh
  <2>1. /\ thread'[x].tx = NoWrite /\ CommitRefresh(w)
        /\ \/ /\ thread[x].pc = "enter" /\ thread'[x].pc = "check"
              /\ item'[x] = "RUNNING"
           \/ /\ thread[x].pc = "body" /\ thread'[x].pc = "exit"
              /\ item'[x] = "SUCCEEDED"
           \/ /\ thread[x].pc = "failing" /\ thread'[x].pc = "exit"
              /\ item'[x] = "FAILED"
    BY <1>7, ItemStep
  <2>2. /\ thread'[x].pc = "exit" /\ thread[x].pc = "body" => thread'[x].verdict = "SUCCEEDED"
        /\ thread[x].pc = "failing" => thread'[x].verdict = thread[x].verdict
    <3> DEFINE th == [thread[x] EXCEPT !.tx = NoWrite]
               b == [th EXCEPT !.pc = "exit", !.verdict = "SUCCEEDED"]
               c == [th EXCEPT !.pc = "exit"]
    <3>0. thread[x] \in Thread /\ NoWrite \in Write
      BY AggIsTask, RefreshIsWrite DEF TInv, TypeOK
    <3>1. th \in Thread /\ th.pc = thread[x].pc /\ th.verdict = thread[x].verdict
      BY <3>0 DEF Thread
    <3> HIDE DEF th
    <3>2. b.verdict = "SUCCEEDED" /\ c.verdict = th.verdict
      BY <3>1 DEF Thread
    <3>3. /\ th.pc = "body" => SetThread(x, b)
          /\ th.pc = "failing" => SetThread(x, c)
      <4> USE DEF th
      <4>1. QED
        BY <1>7 DEF ItemCommit
    <3> HIDE DEF b, c
    <3>4. QED
      BY <3>1, <3>2, <3>3, AggIsTask DEF SetThread, TInv, TypeOK
  <2> HIDE DEF w
  <2>3. /\ w.job \/ w.parent => Noticed
        /\ w.job /\ ~w.parent => JobOnly
        /\ w.parent /\ ~w.job => ParentOnly
    BY DEF Noticed, JobOnly, ParentOnly, w
  <2>4. Settling(x)'
    <3>1. task[x].status \notin {"FAILED", "CANCELED"}
      BY <1>1, <2>1 DEF Settling, Executing
    <3>2. QED
      BY <1>0, <1>1, <2>1, <2>2, <3>1, NothingToWrite DEF Settling
  <2>5. \A i \in Items : Settling(i)'
    BY <1>2, <2>4
  <2>6. \A i \in Items : /\ item[i] = "FAILED" => item'[i] = "FAILED"
                         /\ item[i] = "SUCCEEDED" => item'[i] \in {"SUCCEEDED", "FAILED"}
    BY <1>0, <1>1, <2>1 DEF Once, Settling
  <2>7. \A i \in Items : Due(i) /\ ~w.parent => Due(i)'
    <3>1. ~w.parent => ~Due(x)
      BY <2>0 DEF Due, w
    <3>2. QED
      BY <1>2, <3>1
  <2>8. \A i \in Items : thread'[i].tx = thread[i].tx \/ thread'[i].tx = NoWrite
    BY <1>0, <2>1
  <2>9. QED
    BY <1>0, <2>0, <2>1, <2>3, <2>5, <2>6, <2>7, <2>8, CommitKept
<1>8. QED
  BY <1>4, <1>5, <1>6, <1>7

LEMMA FailureAggregate ==
  ASSUME IInv, TInv, FInv, AggregateRead \/ ReportRead \/ ReportCommit \/ AggregateError
  PROVE  FInv'
<1>0. /\ Agg \in Tasks /\ thread \in [Tasks -> Thread] /\ thread[Agg] \in Thread
      /\ \A i \in Items : i \in Tasks /\ i # Agg
  BY AggIsTask DEF TInv, TypeOK
<1>1. /\ UNCHANGED <<item, task, tick, reader>>
      /\ \A i \in Items : thread'[i] = thread[i]
  BY <1>0 DEF AggregateRead, ReportRead, ReportCommit, AggregateError, SetThread
<1>2. Executing(Agg)
  BY DEF AggregateRead, ReportRead, ReportCommit, AggregateError, IInv, Loaded, Executing
<1>3. task[Agg].status # "NONE" /\ job.report # "PENDING" /\ Closed /\ Together
  BY <1>2 DEF FInv, ReportFits, ReportDue
<1>4. CASE AggregateRead \/ ReportRead \/ AggregateError
  <2>1. job' = job /\ parent' = parent
    BY <1>4 DEF AggregateRead, ReportRead, AggregateError
  <2>2. ReportFits'
    BY <1>1, <1>3, <2>1 DEF ReportFits, ReportDue, Closed
  <2>3. thread'[Agg].pc \in {"check", "body"} => thread[Agg].pc \in {"check", "body"} \/ ~Failed
    <3>1. CASE AggregateRead
      <4>1. InStatus({"SUCCEEDED"}) = Items \/ thread'[Agg].pc = "exit"
        BY <1>0, <3>1 DEF AggregateRead, SetThread, Thread
      <4>2. QED
        BY <4>1, NothingFailed
    <3>2. CASE ReportRead
      BY <3>2 DEF ReportRead
    <3>3. CASE AggregateError
      BY <1>0, <3>3 DEF AggregateError, SetThread, Thread
    <3>4. QED
      BY <1>4, <3>1, <3>2, <3>3
  <2>4. QED
    BY <1>1, <2>1, <2>2, <2>3, ItemsKept
<1>5. CASE ReportCommit
  <2>0. /\ ~tick.open
        /\ thread[Agg].pc = "body" /\ thread'[Agg].pc = "exit"
        /\ job'.report = "SUCCEEDED"
        /\ job'.status # "FAILED" \/ job'.status = job.status
        /\ parent'.status # "FAILED" \/ parent'.status = parent.status
    <3>1. thread[Agg].pc = "body"
      BY <1>5 DEF ReportCommit, IInv, Loaded
    <3>2. thread'[Agg].pc = "exit"
      BY <1>0, <1>5, RefreshIsWrite DEF ReportCommit, SetThread, Thread
    <3>3. parent'.status # "FAILED" \/ parent'.status = parent.status
      <4>1. parent \in ParentTask
        BY DEF TInv, TypeOK
      <4>2. parent' = [parent EXCEPT !.status = IF thread[Agg].tx.parent THEN "SUCCEEDED" ELSE @]
        BY <1>5 DEF ReportCommit
      <4>3. QED
        BY <4>1, <4>2 DEF ParentTask
    <3>4. QED
      BY <1>5, <3>1, <3>2, <3>3 DEF ReportCommit
  <2>1. ~Noticed
    BY <2>0 DEF FInv
  <2>2. ~Noticed'
    BY <1>1, <2>0, <2>1 DEF Noticed
  <2>3. ~JobOnly' /\ ~ParentOnly' /\ job'.status # "FAILED"
    BY <2>2 DEF JobOnly, ParentOnly, Noticed
  <2>4. ReportFits'
    BY <1>1, <1>3, <2>0 DEF ReportFits, ReportDue, Closed
  <2>5. \A i \in Items : Settling(i)'
    BY <1>1 DEF FInv, Settling, Executing
  <2>6. TickKnows'
    BY <1>1, <2>0 DEF FInv, TickKnows
  <2>7. parent'.status = "FAILED" => Blamed'
    BY <1>1, <2>0 DEF FInv, Blamed
  <2>8. QED
    BY <2>0, <2>2, <2>3, <2>4, <2>5, <2>6, <2>7 DEF FInv, ParentFollows, Together
<1>6. QED
  BY <1>4, <1>5

LEMMA FailureRequest ==
  ASSUME TInv, FInv, CancelParent \/ GetRead \/ GetCommit
  PROVE  FInv'
<1>0. UNCHANGED <<item, task, thread, tick>> /\ parent \in ParentTask
  BY DEF CancelParent, GetRead, GetCommit, TInv, TypeOK
<1>1. CASE CancelParent \/ GetRead
  <2>1. /\ (parent'.status = "FAILED") = (parent.status = "FAILED")
        /\ job' = job
        /\ reader' = reader \/ reader' = RefreshWrite
    BY <1>0, <1>1 DEF CancelParent, GetRead, ParentTask
  <2>2. ReportFits'
    BY <1>0, <2>1 DEF FInv, ReportFits, ReportDue, Closed, Executing
  <2>3. QED
    BY <1>0, <2>1, <2>2, ItemsKept
<1>2. CASE GetCommit
  <2>1. reader \in Write /\ CommitRefresh(reader) /\ reader' = NoWrite
    BY <1>2 DEF GetCommit, TInv, TypeOK
  <2>2. /\ reader.job \/ reader.parent => Noticed
        /\ reader.job /\ ~reader.parent => JobOnly
        /\ reader.parent /\ ~reader.job => ParentOnly
    BY DEF Noticed, JobOnly, ParentOnly
  <2>3. \A i \in Items : Settling(i)' /\ (Due(i) => Due(i)')
    BY <1>0 DEF FInv, Settling, Due, Executing
  <2>4. QED
    BY <1>0, <2>1, <2>2, <2>3, CommitKept
<1>3. QED
  BY <1>1, <1>2

LEMMA NextFailure ==
  OnlyRaises /\ IInv /\ TInv /\ TInv' /\ WInv /\ FInv /\ [Next]_vars => FInv'
<1> SUFFICES ASSUME OnlyRaises, IInv, TInv, TInv', WInv, FInv, [Next]_vars
             PROVE  FInv'
  OBVIOUS
<1>1. CASE UNCHANGED vars \/ Idle
  <2>1. UNCHANGED vars
    BY <1>1 DEF Idle
  <2>2. ReportFits'
    BY <2>1 DEF vars, FInv, ReportFits, ReportDue, Closed, Executing
  <2>3. QED
    BY <2>1, <2>2, ItemsKept DEF vars
<1>2. CASE TickRead \/ TickCommit
  BY <1>2, FailureTickRead, FailureTickCommit
<1>3. ASSUME NEW x \in Tasks,
             \/ Recover(x) \/ Claim(x) \/ Signal(x) \/ Check(x) \/ Mark(x)
             \/ MarkError(x) \/ Crash(x) \/ CancelTask(x) \/ RetryTask(x)
      PROVE  FInv'
  <2>1. \/ Recover(x) \/ Claim(x) \/ Signal(x) \/ Check(x) \/ Mark(x) \/ CancelTask(x)
    BY <1>3, NoRerun, NoMishap
  <2>2. x \in Items \/ x = Agg
    BY DEF Tasks
  <2>3. QED
    BY <2>1, <2>2, FailureItemTask, FailureAggTask
<1>4. ASSUME NEW i \in Items, ItemRead(i) \/ ItemCommit(i) \/ ItemError(i) \/ FailError(i)
      PROVE  FInv'
  BY <1>4, FailureItem
<1>5. CASE AggregateRead \/ ReportRead \/ ReportCommit \/ AggregateError
  BY <1>5, FailureAggregate
<1>6. CASE CancelParent \/ GetRead \/ GetCommit
  BY <1>6, FailureRequest
<1>7. ~RetryParent
  BY NoRerun
<1>8. QED
  BY <1>1, <1>2, <1>3, <1>4, <1>5, <1>6, <1>7 DEF Next

LEMMA InitFailure == Init => FInv
<1> SUFFICES ASSUME Init
             PROVE  FInv
  OBVIOUS
<1>1. \A x \in Tasks : /\ thread[x].pc = "idle" /\ thread[x].tx = NoWrite
                       /\ task[x].status = "NONE"
  BY DEF Init, NoThread, NoTask
<1>2. /\ ~tick.open /\ ~tick.agg /\ ~tick.fails /\ ~tick.parent
      /\ reader = NoWrite
  BY DEF Init, NoTick
<1>3. /\ job.status = "PARTIALLY_RUNNING" /\ job.report = "PENDING"
      /\ parent.status = "PARTIALLY_RUNNING"
  BY DEF Init
<1>4. ~Noticed /\ ~JobOnly
  BY <1>1, <1>2, <1>3, NothingToWrite, AggIsTask DEF Noticed, JobOnly
<1>5. \A i \in Items : Settling(i)
  BY <1>1, NothingToWrite, AggIsTask DEF Settling
<1>6. ReportFits /\ TickKnows /\ ~ReportDue /\ ParentFollows
  BY <1>1, <1>2, <1>3, <1>4, AggIsTask DEF ReportFits, ReportDue, TickKnows, ParentFollows, Executing
<1>7. QED
  BY <1>3, <1>4, <1>5, <1>6 DEF FInv

\* With nothing left to do no handler can still be due to fail the parent.
LEMMA FailureArrived == FInv => FailureReachesParent
<1> SUFFICES ASSUME FInv, job.status = "FAILED", ~Outstanding
             PROVE  parent.status = "FAILED"
  BY DEF FailureReachesParent
<1>1. \A i \in Items : ~Due(i)
  BY AggIsTask DEF Outstanding, Due, Executing
<1>2. QED
  BY <1>1 DEF FInv, ParentFollows

\* Where nothing is retried or lost and the write of a failure does not fail
\* itself, the parent task of a job that FAILED with nothing left to do is
\* FAILED, whatever claims (refresh_parent_state) revived it in between.
THEOREM FailureArrives ==
  ASSUME OnlyRaises
  PROVE  Spec => []FailureReachesParent
<1>1. IInv /\ TInv /\ WInv /\ FInv /\ [Next]_vars => IInv' /\ TInv' /\ WInv' /\ FInv'
  BY NoRerun, NextInv, NextTypes, NextWindow, NextFailure
<1>2. QED
  BY <1>1, InitInv, InitTypes, InitWindow, InitFailure, FailureArrived, PTL DEF Spec
=============================================================================
