-------------------------- MODULE TaskLease_proofs --------------------------
(***************************************************************************)
(* Theorems of TaskLease, for any number of tasks, workers, clients and    *)
(* mishaps and any max_attempts: the types, RunningIsLeased,               *)
(* VerdictHasAttempt, AttemptVerdictIsFinal and ClaimBudget hold in every  *)
(* behaviour, with late leases and stale API writes included.  Where       *)
(* leases are timely and requests are single retries (Timely), TaskLease   *)
(* implements TaskLifecycle.                                               *)
(***************************************************************************)
EXTENDS TaskLease, SequenceTheorems, FiniteSetTheorems, TLAPS

\* Every claim inserted one row of task_attempt.
AttemptsAreNumbered == \A t \in Tasks : task[t].attempt_no = Len(attempts[t])

\* The verdict an attempt is about to write is one that attempt n may reach.
MarkFits(a, n) == /\ a.mark \in Verdict
                  /\ a.mark = "DEAD" => n >= MaxAttempts
                  /\ a.mark = "RETRY_WAIT" => n < MaxAttempts

\* An attempt is finished in the table only if its thread is over, and has
\* decided on its verdict when it comes to write it.
SoundAttempt(a, n) == /\ Live(a) => a.status = "RUNNING"
                      /\ a.pc \in {"marking", "owned"} => MarkFits(a, n)

SoundAttempts == \A t \in Tasks : \A n \in DOMAIN attempts[t] :
                    SoundAttempt(attempts[t][n], n)

\* A request that clears owner or lease also moves the status.
SoundRequests == \A c \in Clients : api[c] # NoRequest =>
    ({"owner", "lease"} \cap api[c].columns # {} => "status" \in api[c].columns)

\* The inductive invariant.
IInv == /\ TypeOK
        /\ AttemptsAreNumbered
        /\ SoundAttempts
        /\ SoundRequests
        /\ RunningIsLeased
        /\ VerdictHasAttempt

\* What a step may do to the attempts: keep every row, its worker and, once
\* finished, its status.
KeepsAttempts == \A t \in Tasks : \A n \in DOMAIN attempts[t] :
    /\ n \in DOMAIN attempts'[t]
    /\ attempts'[t][n].worker = attempts[t][n].worker
    /\ attempts[t][n].status # "RUNNING" => attempts'[t][n].status = attempts[t][n].status

-----------------------------------------------------------------------------

\* A row that keeps its status, owner, number and lease stays leased when its
\* attempts keep their workers.
LEMMA LeasedKept ==
    ASSUME NEW row, NEW log, NEW row2, NEW log2, Leased(row, log),
           row2.status = row.status, row2.owner = row.owner,
           row2.attempt_no = row.attempt_no,
           row.lease # "none" => row2.lease # "none",
           \A m \in DOMAIN log : m \in DOMAIN log2 /\ log2[m].worker = log[m].worker
    PROVE  Leased(row2, log2)
BY DEF Leased

\* A row that keeps its status stays vouched for when its finished attempts
\* keep theirs.
LEMMA VouchedKept ==
    ASSUME NEW row, NEW log, NEW row2, NEW log2, Vouched(row, log),
           row2.status = row.status,
           \A m \in DOMAIN log :
              /\ m \in DOMAIN log2
              /\ log[m].status # "RUNNING" => log2[m].status = log[m].status
    PROVE  Vouched(row2, log2)
<1>1. CASE row.status = "SUCCEEDED"
  BY <1>1 DEF Vouched
<1>2. CASE row.status = "DEAD"
  BY <1>2 DEF Vouched
<1>3. CASE row.status = "RETRY_WAIT"
  BY <1>3 DEF Vouched
<1> QED
  BY <1>1, <1>2, <1>3 DEF Vouched

\* Replacing one attempt keeps the sequences and all other attempts.
LEMMA SetAttemptEffect ==
    ASSUME TypeOK, NEW t \in Tasks, NEW n \in DOMAIN attempts[t], NEW a \in Attempt,
           SetAttempt(t, n, a)
    PROVE  /\ attempts' \in [Tasks -> Seq(Attempt)]
           /\ \A u \in Tasks : /\ Len(attempts'[u]) = Len(attempts[u])
                               /\ DOMAIN attempts'[u] = DOMAIN attempts[u]
           /\ \A u \in Tasks : \A m \in DOMAIN attempts[u] :
                 attempts'[u][m] = IF u = t /\ m = n THEN a ELSE attempts[u][m]
<1>1. attempts[t] \in Seq(Attempt) /\ n \in 1 .. Len(attempts[t])
  BY LenProperties DEF TypeOK
<1>2. /\ [attempts[t] EXCEPT ![n] = a] \in Seq(Attempt)
      /\ Len([attempts[t] EXCEPT ![n] = a]) = Len(attempts[t])
      /\ \A j \in 1 .. Len(attempts[t]) :
            [attempts[t] EXCEPT ![n] = a][j] = IF j = n THEN a ELSE attempts[t][j]
  BY <1>1, ExceptSeq
<1>3. /\ attempts'[t] = [attempts[t] EXCEPT ![n] = a]
      /\ \A u \in Tasks : u # t => attempts'[u] = attempts[u]
      /\ attempts' \in [Tasks -> Seq(Attempt)]
  BY <1>1, <1>2 DEF TypeOK, SetAttempt
<1>4. \A u \in Tasks : /\ DOMAIN attempts[u] = 1 .. Len(attempts[u])
                       /\ DOMAIN attempts'[u] = 1 .. Len(attempts'[u])
  BY <1>3, LenProperties DEF TypeOK
<1> QED
  BY <1>2, <1>3, <1>4

\* A step that replaces one attempt by a sound one with the same worker and
\* status, and touches nothing else, keeps the invariant.
LEMMA AttemptStep ==
    ASSUME IInv, NEW t \in Tasks, NEW n \in DOMAIN attempts[t], NEW a \in Attempt,
           SetAttempt(t, n, a), SoundAttempt(a, n),
           a.worker = attempts[t][n].worker, a.status = attempts[t][n].status,
           UNCHANGED <<task, api, recoveries, retries>>, mishaps' \in Nat
    PROVE  IInv' /\ KeepsAttempts
<1> USE DEF IInv
<1>1. /\ attempts' \in [Tasks -> Seq(Attempt)]
      /\ \A u \in Tasks : /\ Len(attempts'[u]) = Len(attempts[u])
                          /\ DOMAIN attempts'[u] = DOMAIN attempts[u]
      /\ \A u \in Tasks : \A m \in DOMAIN attempts[u] :
            attempts'[u][m] = IF u = t /\ m = n THEN a ELSE attempts[u][m]
  BY SetAttemptEffect
<1>2. TypeOK'
  BY <1>1 DEF TypeOK
<1>3. AttemptsAreNumbered'
  BY <1>1 DEF AttemptsAreNumbered
<1>4. SoundAttempts'
  BY <1>1 DEF SoundAttempts, SoundAttempt, MarkFits, Live
<1>5. SoundRequests'
  BY DEF SoundRequests
<1>6. \A u \in Tasks : \A m \in DOMAIN attempts[u] :
         /\ attempts'[u][m].worker = attempts[u][m].worker
         /\ attempts'[u][m].status = attempts[u][m].status
  BY <1>1
<1>7. RunningIsLeased'
  BY <1>1, <1>6, LeasedKept DEF RunningIsLeased
<1>8. VerdictHasAttempt'
  BY <1>1, <1>6, VouchedKept DEF VerdictHasAttempt
<1>9. KeepsAttempts
  BY <1>1, <1>6 DEF KeepsAttempts
<1> QED
  BY <1>2, <1>3, <1>4, <1>5, <1>7, <1>8, <1>9

-----------------------------------------------------------------------------
(* The steps of a thread and of its heartbeat that leave the row alone.    *)

LEMMA StartStep ==
    ASSUME IInv, NEW t \in Tasks, NEW n \in DOMAIN attempts[t], Start(t, n)
    PROVE  IInv' /\ KeepsAttempts
<1> DEFINE old == attempts[t][n]
           new == IF t \in Handles[old.worker]
                  THEN [old EXCEPT !.pc = "running", !.beat = "idle"]
                  ELSE [old EXCEPT !.pc = "marking", !.mark = "FAILED"]
<1>1. old \in Attempt
  BY LenProperties DEF IInv, TypeOK
<1>2. /\ new \in Attempt
      /\ new.worker = old.worker
      /\ new.status = old.status
  BY <1>1 DEF Attempt, ThreadPC, Verdict
<1>3. SoundAttempt(new, n)
  BY <1>1 DEF IInv, SoundAttempts, SoundAttempt, MarkFits, Live, Attempt, Start, Verdict
<1>4. SetAttempt(t, n, new) /\ UNCHANGED <<task, api, recoveries, retries, mishaps>>
  BY DEF Start
<1> HIDE DEF new
<1> QED
  BY <1>2, <1>3, <1>4, AttemptStep DEF IInv, TypeOK

LEMMA HandlerEndsStep ==
    ASSUME IInv, NEW t \in Tasks, NEW n \in DOMAIN attempts[t],
           NEW verdict \in Verdict, HandlerEnds(t, n, verdict)
    PROVE  IInv' /\ KeepsAttempts
<1> DEFINE old == attempts[t][n]
           new == [old EXCEPT !.pc = "marking", !.mark = verdict]
<1>1. old \in Attempt /\ n \in Nat
  BY LenProperties DEF IInv, TypeOK
<1>2. /\ new \in Attempt
      /\ new.worker = old.worker
      /\ new.status = old.status
  BY <1>1 DEF Attempt, ThreadPC
<1>3. MarkFits(new, n)
  BY <1>1, TaskLeaseAssumption
  DEF HandlerEnds, RetryVerdict, MarkFits, Attempt
<1>4. SoundAttempt(new, n)
  BY <1>1, <1>3 DEF IInv, SoundAttempts, SoundAttempt, Live, Attempt, HandlerEnds
<1>5. SetAttempt(t, n, new) /\ UNCHANGED <<task, api, recoveries, retries, mishaps>>
  BY DEF HandlerEnds
<1> HIDE DEF new
<1> QED
  BY <1>2, <1>4, <1>5, AttemptStep DEF IInv, TypeOK

\* An exception out of the marking transaction.
LEMMA MarkRaisesSound ==
    ASSUME NEW old \in Attempt, NEW n \in Nat, SoundAttempt(old, n),
           old.pc \in {"marking", "owned"}
    PROVE  /\ MarkRaises(old) \in Attempt
           /\ SoundAttempt(MarkRaises(old), n)
           /\ MarkRaises(old).worker = old.worker
           /\ MarkRaises(old).status = old.status
<1>1. CASE old.mark = "SUCCEEDED"
  BY <1>1 DEF MarkRaises, Attempt, ThreadPC, Verdict, SoundAttempt, MarkFits, Live
<1>2. CASE old.mark # "SUCCEEDED"
  BY <1>2 DEF MarkRaises, Ended, Attempt, ThreadPC, SoundAttempt, Live
<1> QED
  BY <1>1, <1>2

LEMMA MarkReadStep ==
    ASSUME IInv, NEW t \in Tasks, NEW n \in DOMAIN attempts[t], MarkRead(t, n)
    PROVE  IInv' /\ KeepsAttempts
<1> DEFINE old == attempts[t][n]
           new == IF Owns(t, n) THEN [old EXCEPT !.pc = "owned"] ELSE MarkRaises(old)
<1>1. old \in Attempt /\ n \in Nat /\ SoundAttempt(old, n) /\ old.pc = "marking"
  BY LenProperties DEF IInv, TypeOK, SoundAttempts, MarkRead
<1>2. /\ new \in Attempt
      /\ new.worker = old.worker
      /\ new.status = old.status
      /\ SoundAttempt(new, n)
  <2>1. CASE Owns(t, n)
    BY <1>1, <2>1 DEF Attempt, ThreadPC, SoundAttempt, MarkFits, Live
  <2>2. CASE ~Owns(t, n)
    BY <1>1, <2>2, MarkRaisesSound
  <2> QED
    BY <2>1, <2>2
<1>3. SetAttempt(t, n, new) /\ UNCHANGED <<task, api, recoveries, retries, mishaps>>
  BY DEF MarkRead
<1> HIDE DEF new
<1> QED
  BY <1>2, <1>3, AttemptStep DEF IInv, TypeOK

LEMMA MarkErrorStep ==
    ASSUME IInv, NEW t \in Tasks, NEW n \in DOMAIN attempts[t], MarkError(t, n)
    PROVE  IInv' /\ KeepsAttempts
<1>1. /\ attempts[t][n] \in Attempt
      /\ n \in Nat
      /\ SoundAttempt(attempts[t][n], n)
      /\ attempts[t][n].pc \in {"marking", "owned"}
  BY LenProperties DEF IInv, TypeOK, SoundAttempts, MarkError
<1>2. /\ SetAttempt(t, n, MarkRaises(attempts[t][n]))
      /\ UNCHANGED <<task, api, recoveries, retries>>
      /\ mishaps' \in Nat
  BY DEF MarkError, Mishap, IInv, TypeOK
<1> QED
  BY <1>1, <1>2, MarkRaisesSound, AttemptStep

LEMMA HeartbeatReadStep ==
    ASSUME IInv, NEW t \in Tasks, NEW n \in DOMAIN attempts[t], HeartbeatRead(t, n)
    PROVE  IInv' /\ KeepsAttempts
<1> DEFINE old == attempts[t][n]
           new == IF Owns(t, n)
                  THEN [old EXCEPT !.beat = "read", !.signal = @ \/ task[t].cancel]
                  ELSE [old EXCEPT !.beat = "off", !.signal = TRUE]
<1>1. old \in Attempt /\ n \in Nat /\ SoundAttempt(old, n)
  BY LenProperties DEF IInv, TypeOK, SoundAttempts
<1>2. (old.signal \/ task[t].cancel) \in BOOLEAN
  OBVIOUS
<1>3. /\ new \in Attempt
      /\ new.worker = old.worker
      /\ new.status = old.status
      /\ SoundAttempt(new, n)
  BY <1>1, <1>2 DEF Attempt, SoundAttempt, MarkFits, Live
<1>4. SetAttempt(t, n, new) /\ UNCHANGED <<task, api, recoveries, retries, mishaps>>
  BY DEF HeartbeatRead
<1> HIDE DEF new
<1> QED
  BY <1>3, <1>4, AttemptStep DEF IInv, TypeOK

LEMMA HeartbeatDiesStep ==
    ASSUME IInv, NEW t \in Tasks, NEW n \in DOMAIN attempts[t], HeartbeatDies(t, n)
    PROVE  IInv' /\ KeepsAttempts
<1> DEFINE old == attempts[t][n]
           new == [old EXCEPT !.beat = "off"]
<1>1. old \in Attempt /\ n \in Nat /\ SoundAttempt(old, n)
  BY LenProperties DEF IInv, TypeOK, SoundAttempts
<1>2. /\ new \in Attempt
      /\ new.worker = old.worker
      /\ new.status = old.status
      /\ SoundAttempt(new, n)
  BY <1>1 DEF Attempt, SoundAttempt, MarkFits, Live
<1>3. /\ SetAttempt(t, n, new)
      /\ UNCHANGED <<task, api, recoveries, retries>>
      /\ mishaps' \in Nat
  BY DEF HeartbeatDies, Mishap, IInv, TypeOK
<1> HIDE DEF new
<1> QED
  BY <1>2, <1>3, AttemptStep

-----------------------------------------------------------------------------
(* The steps that write the row.                                           *)

\* Moving the lease or the schedule of one row, while its status, owner and
\* number stay, keeps the invariant when the lease does not go.
LEMMA RowStep ==
    ASSUME IInv, NEW t \in Tasks, NEW row \in Row,
           task' = [task EXCEPT ![t] = row],
           row.status = task[t].status, row.owner = task[t].owner,
           row.attempt_no = task[t].attempt_no,
           task[t].lease # "none" => row.lease # "none",
           UNCHANGED <<attempts, api, recoveries, retries>>, mishaps' \in Nat
    PROVE  IInv' /\ KeepsAttempts
<1> USE DEF IInv
<1>1. TypeOK'
  BY DEF TypeOK
<1>2. AttemptsAreNumbered'
  BY DEF AttemptsAreNumbered, TypeOK
<1>3. SoundAttempts' /\ SoundRequests'
  BY DEF SoundAttempts, SoundRequests
<1>4. \A u \in Tasks : /\ task'[u].status = task[u].status
                        /\ task'[u].owner = task[u].owner
                        /\ task'[u].attempt_no = task[u].attempt_no
                        /\ task[u].lease # "none" => task'[u].lease # "none"
  BY DEF TypeOK
<1>5. RunningIsLeased' /\ VerdictHasAttempt'
  BY <1>4, LeasedKept, VouchedKept DEF RunningIsLeased, VerdictHasAttempt
<1>6. KeepsAttempts
  BY DEF KeepsAttempts
<1> QED
  BY <1>1, <1>2, <1>3, <1>4, <1>5, <1>6

LEMMA LeaseLapseStep ==
    ASSUME IInv, NEW t \in Tasks, LeaseLapse(t)
    PROVE  IInv' /\ KeepsAttempts
<1> DEFINE row == [task[t] EXCEPT !.lease = "expired"]
<1>1. /\ row \in Row
      /\ row.status = task[t].status
      /\ row.owner = task[t].owner
      /\ row.attempt_no = task[t].attempt_no
      /\ row.lease # "none"
  BY DEF IInv, TypeOK, Row
<1>2. /\ task' = [task EXCEPT ![t] = row]
      /\ UNCHANGED <<attempts, api, recoveries, retries>>
      /\ mishaps' \in Nat
  BY DEF LeaseLapse, Mishap, IInv, TypeOK
<1> HIDE DEF row
<1> QED
  BY <1>1, <1>2, RowStep

LEMMA BecomesDueStep ==
    ASSUME IInv, NEW t \in Tasks, BecomesDue(t)
    PROVE  IInv' /\ KeepsAttempts
<1> DEFINE row == [task[t] EXCEPT !.due = TRUE]
<1>1. /\ row \in Row
      /\ row.status = task[t].status
      /\ row.owner = task[t].owner
      /\ row.attempt_no = task[t].attempt_no
      /\ row.lease = task[t].lease
  BY DEF IInv, TypeOK, Row
<1>2. /\ task' = [task EXCEPT ![t] = row]
      /\ UNCHANGED <<attempts, api, recoveries, retries>>
      /\ mishaps' \in Nat
  BY DEF BecomesDue, IInv, TypeOK
<1> HIDE DEF row
<1> QED
  BY <1>1, <1>2, RowStep

\* A heartbeat that commits late puts a lease on a row it may no longer own;
\* the row's owner and status stay what they are.
LEMMA HeartbeatCommitStep ==
    ASSUME IInv, NEW t \in Tasks, NEW n \in DOMAIN attempts[t], HeartbeatCommit(t, n)
    PROVE  IInv' /\ KeepsAttempts
<1> DEFINE old == attempts[t][n]
           new == [old EXCEPT !.beat = IF Live(old) THEN "idle" ELSE "off"]
<1>1. old \in Attempt /\ n \in Nat /\ SoundAttempt(old, n)
  BY LenProperties DEF IInv, TypeOK, SoundAttempts
<1>2. /\ new \in Attempt
      /\ new.worker = old.worker
      /\ new.status = old.status
      /\ SoundAttempt(new, n)
  BY <1>1 DEF Attempt, SoundAttempt, MarkFits, Live
<1>3. /\ SetAttempt(t, n, new)
      /\ task' = [task EXCEPT ![t].lease = "live"]
      /\ UNCHANGED <<api, recoveries, retries, mishaps>>
  BY DEF HeartbeatCommit
<1> HIDE DEF new
<1>4. /\ attempts' \in [Tasks -> Seq(Attempt)]
      /\ \A u \in Tasks : /\ Len(attempts'[u]) = Len(attempts[u])
                          /\ DOMAIN attempts'[u] = DOMAIN attempts[u]
      /\ \A u \in Tasks : \A m \in DOMAIN attempts[u] :
            attempts'[u][m] = IF u = t /\ m = n THEN new ELSE attempts[u][m]
  BY <1>2, <1>3, SetAttemptEffect DEF IInv
<1>5. /\ task' \in [Tasks -> Row]
      /\ \A u \in Tasks : /\ task'[u].status = task[u].status
                          /\ task'[u].owner = task[u].owner
                          /\ task'[u].attempt_no = task[u].attempt_no
                          /\ task[u].lease # "none" => task'[u].lease # "none"
  BY <1>3 DEF IInv, TypeOK, Row
<1>6. \A u \in Tasks : \A m \in DOMAIN attempts[u] :
         /\ attempts'[u][m].worker = attempts[u][m].worker
         /\ attempts'[u][m].status = attempts[u][m].status
  BY <1>2, <1>4
<1>7. TypeOK'
  BY <1>3, <1>4, <1>5 DEF IInv, TypeOK
<1>8. AttemptsAreNumbered'
  BY <1>4, <1>5 DEF IInv, AttemptsAreNumbered
<1>9. SoundAttempts'
  BY <1>2, <1>4 DEF IInv, SoundAttempts, SoundAttempt, MarkFits, Live
<1>10. SoundRequests'
  BY <1>3 DEF IInv, SoundRequests
<1>11. RunningIsLeased'
  <2>1. ASSUME NEW u \in Tasks
        PROVE  Leased(task'[u], attempts'[u])
    <3>1. Leased(task[u], attempts[u])
      BY DEF IInv, RunningIsLeased
    <3>2. \A m \in DOMAIN attempts[u] :
             m \in DOMAIN attempts'[u] /\ attempts'[u][m].worker = attempts[u][m].worker
      BY <1>4, <1>6
    <3> QED
      BY <3>1, <3>2, <1>5, LeasedKept
  <2> QED
    BY <2>1 DEF RunningIsLeased
<1>12. VerdictHasAttempt'
  BY <1>4, <1>5, <1>6, VouchedKept DEF IInv, VerdictHasAttempt
<1>13. KeepsAttempts
  BY <1>4, <1>6 DEF KeepsAttempts
<1> QED
  BY <1>7, <1>8, <1>9, <1>10, <1>11, <1>12, <1>13 DEF IInv

LEMMA MarkedRow ==
    ASSUME NEW row \in Row, NEW verdict \in Verdict
    PROVE  /\ Marked(row, verdict) \in Row
           /\ Marked(row, verdict).status = verdict
           /\ Marked(row, verdict).attempt_no = row.attempt_no
<1>1. CASE verdict = "RETRY_WAIT"
  BY <1>1 DEF Marked, Row, WorkStatus
<1>2. CASE verdict # "RETRY_WAIT"
  BY <1>2 DEF Marked, Row, Verdict, WorkStatus
<1> QED
  BY <1>1, <1>2

\* A verdict moves the row out of RUNNING, whoever owns it by then, and is
\* recorded in an attempt that had none.
LEMMA MarkCommitStep ==
    ASSUME IInv, NEW t \in Tasks, NEW n \in DOMAIN attempts[t], MarkCommit(t, n)
    PROVE  IInv' /\ KeepsAttempts
<1> DEFINE old == attempts[t][n]
           new == [Ended(old) EXCEPT !.status = AttemptVerdict(old.mark)]
<1>1. /\ old \in Attempt
      /\ n \in Nat
      /\ MarkFits(old, n)
      /\ old.status = "RUNNING"
  <2>1. old \in Attempt /\ n \in Nat /\ SoundAttempt(old, n) /\ old.pc = "owned"
    BY LenProperties DEF IInv, TypeOK, SoundAttempts, MarkCommit
  <2> QED
    BY <2>1 DEF SoundAttempt, Live
<1>2. /\ new \in Attempt
      /\ new.worker = old.worker
      /\ new.status = AttemptVerdict(old.mark)
      /\ SoundAttempt(new, n)
  <2>1. Ended(old) \in Attempt /\ Ended(old).worker = old.worker /\ Ended(old).pc = "ended"
    BY <1>1 DEF Ended, Attempt, ThreadPC
  <2>2. AttemptVerdict(old.mark) \in AttemptStatus \ {"NONE"}
    BY <1>1 DEF AttemptVerdict, MarkFits, Verdict, AttemptStatus
  <2> QED
    BY <2>1, <2>2 DEF Attempt, SoundAttempt, Live
<1>3. /\ SetAttempt(t, n, new)
      /\ task' = [task EXCEPT ![t] = Marked(task[t], old.mark)]
      /\ UNCHANGED <<api, recoveries, retries, mishaps>>
  BY DEF MarkCommit
<1> HIDE DEF new
<1>4. /\ attempts' \in [Tasks -> Seq(Attempt)]
      /\ \A u \in Tasks : /\ Len(attempts'[u]) = Len(attempts[u])
                          /\ DOMAIN attempts'[u] = DOMAIN attempts[u]
      /\ \A u \in Tasks : \A m \in DOMAIN attempts[u] :
            attempts'[u][m] = IF u = t /\ m = n THEN new ELSE attempts[u][m]
  BY <1>2, <1>3, SetAttemptEffect DEF IInv
<1>5. /\ Marked(task[t], old.mark) \in Row
      /\ Marked(task[t], old.mark).status = old.mark
      /\ Marked(task[t], old.mark).attempt_no = task[t].attempt_no
  <2>1. task[t] \in Row /\ old.mark \in Verdict
    BY <1>1 DEF IInv, TypeOK, MarkFits
  <2> QED
    BY <2>1, MarkedRow
<1>6. /\ task' \in [Tasks -> Row]
      /\ task'[t].status = old.mark
      /\ task'[t].attempt_no = task[t].attempt_no
      /\ \A u \in Tasks : u # t => task'[u] = task[u]
  BY <1>3, <1>5 DEF IInv, TypeOK
<1>7. \A u \in Tasks : \A m \in DOMAIN attempts[u] :
         /\ attempts'[u][m].worker = attempts[u][m].worker
         /\ attempts[u][m].status # "RUNNING" => attempts'[u][m].status = attempts[u][m].status
  BY <1>1, <1>2, <1>4
<1>8. TypeOK'
  BY <1>3, <1>4, <1>6 DEF IInv, TypeOK
<1>9. AttemptsAreNumbered'
  BY <1>4, <1>6 DEF IInv, AttemptsAreNumbered
<1>10. SoundAttempts'
  BY <1>2, <1>4 DEF IInv, SoundAttempts, SoundAttempt, MarkFits, Live
<1>11. SoundRequests'
  BY <1>3 DEF IInv, SoundRequests
<1>12. RunningIsLeased'
  <2>1. ASSUME NEW u \in Tasks, u # t
        PROVE  Leased(task'[u], attempts'[u])
    <3>1. Leased(task[u], attempts[u]) /\ task'[u] = task[u]
      BY <2>1, <1>6 DEF IInv, RunningIsLeased
    <3>2. \A m \in DOMAIN attempts[u] :
             m \in DOMAIN attempts'[u] /\ attempts'[u][m].worker = attempts[u][m].worker
      BY <1>4, <1>7
    <3> QED
      BY <3>1, <3>2, LeasedKept
  <2>2. Leased(task'[t], attempts'[t])
    BY <1>1, <1>6 DEF Leased, MarkFits, Verdict
  <2> QED
    BY <2>1, <2>2 DEF RunningIsLeased
<1>13. VerdictHasAttempt'
  <2>1. ASSUME NEW u \in Tasks, u # t
        PROVE  Vouched(task'[u], attempts'[u])
    <3>1. Vouched(task[u], attempts[u]) /\ task'[u] = task[u]
      BY <2>1, <1>6 DEF IInv, VerdictHasAttempt
    <3>2. \A m \in DOMAIN attempts[u] :
             /\ m \in DOMAIN attempts'[u]
             /\ attempts[u][m].status # "RUNNING" => attempts'[u][m].status = attempts[u][m].status
      BY <1>4, <1>7
    <3> QED
      BY <3>1, <3>2, VouchedKept
  <2>2. n \in DOMAIN attempts'[t] /\ attempts'[t][n].status = AttemptVerdict(old.mark)
    BY <1>2, <1>4
  <2>3. Vouched(task'[t], attempts'[t])
    BY <1>1, <1>6, <2>2 DEF Vouched, MarkFits, AttemptVerdict, Verdict
  <2> QED
    BY <2>1, <2>3 DEF VerdictHasAttempt
<1>14. KeepsAttempts
  BY <1>4, <1>7 DEF KeepsAttempts
<1> QED
  BY <1>8, <1>9, <1>10, <1>11, <1>12, <1>13, <1>14 DEF IInv

-----------------------------------------------------------------------------
(* The API requests.                                                       *)

\* A cancel or retry that touches owner or lease found a status it moves.
LEMMA DirtyMovesStatus ==
    ASSUME NEW row \in Row, NEW op \in {"cancel", "retry"},
           {"owner", "lease"} \cap Dirty(op, row) # {}
    PROVE  "status" \in Dirty(op, row)
<1>1. CASE op = "cancel"
  <2>1. row.status = "PENDING"
    BY <1>1 DEF Dirty, OpSets, CancelSets
  <2> QED
    BY <1>1, <2>1 DEF Dirty, OpSets, OpValue, CancelSets, CancelValue
<1>2. CASE op = "retry"
  <2>1. row.status \in RetriableStatus
    BY <1>2 DEF Dirty, OpSets, RetrySets
  <2> QED
    BY <1>2, <2>1 DEF Dirty, OpSets, OpValue, RetrySets, RetryValue, RetriableStatus
<1> QED
  BY <1>1, <1>2

LEMMA DirtyType ==
    ASSUME NEW row \in Row, NEW op \in {"cancel", "retry"}
    PROVE  Dirty(op, row) \subseteq Column
BY DEF Dirty, OpSets, CancelSets, RetrySets, Column

LEMMA ApiReadStep ==
    ASSUME IInv, NEW c \in Clients, NEW t \in Tasks, NEW op \in ApiOps, ApiRead(c, t, op)
    PROVE  IInv' /\ KeepsAttempts
<1> DEFINE request == [op |-> op, task |-> t, columns |-> Dirty(op, task[t])]
<1>1. op \in {"cancel", "retry"} /\ task[t] \in Row
  BY TaskLeaseAssumption DEF IInv, TypeOK
<1>2. request \in Request
  BY <1>1, DirtyType DEF Request
<1>3. {"owner", "lease"} \cap request.columns # {} => "status" \in request.columns
  BY <1>1, DirtyMovesStatus
<1>4. /\ api' = [api EXCEPT ![c] = request]
      /\ UNCHANGED <<task, attempts, recoveries, retries, mishaps>>
  BY DEF ApiRead
<1> HIDE DEF request
<1>5. TypeOK'
  BY <1>2, <1>4 DEF IInv, TypeOK
<1>6. SoundRequests'
  BY <1>3, <1>4 DEF IInv, SoundRequests, TypeOK
<1>7. /\ AttemptsAreNumbered'
      /\ SoundAttempts'
      /\ RunningIsLeased'
      /\ VerdictHasAttempt'
  BY <1>4 DEF IInv, AttemptsAreNumbered, SoundAttempts, RunningIsLeased, VerdictHasAttempt
<1>8. KeepsAttempts
  BY <1>4 DEF KeepsAttempts
<1> QED
  BY <1>5, <1>6, <1>7, <1>8 DEF IInv

\* The row after a commit: either its status, owner and lease are what they
\* were, or its status is one no owner and no attempt is needed for.
LEMMA UpdatedRow ==
    ASSUME NEW row \in Row, NEW op \in {"cancel", "retry"}, NEW columns \in SUBSET Column,
           {"owner", "lease"} \cap columns # {} => "status" \in columns
    PROVE  LET new == Updated(row, columns, OpValue(op)) IN
           /\ new \in Row
           /\ new.attempt_no = row.attempt_no
           /\ \/ /\ new.status = row.status
                 /\ new.owner = row.owner
                 /\ new.lease = row.lease
              \/ new.status \in {"CANCELED", "PENDING"}
<1> DEFINE value == OpValue(op)
<1>1. /\ value.status \in {"CANCELED", "PENDING"}
      /\ value.owner = NoWorker
      /\ value.lease = "none"
      /\ value.due \in BOOLEAN
      /\ value.cancel \in BOOLEAN
  BY DEF OpValue, CancelValue, RetryValue
<1> DEFINE s == IF "status" \in columns THEN value.status ELSE row.status
           o == IF "owner" \in columns THEN value.owner ELSE row.owner
           l == IF "lease" \in columns THEN value.lease ELSE row.lease
           d == IF "due" \in columns THEN value.due ELSE row.due
           k == IF "cancel" \in columns THEN value.cancel ELSE row.cancel
<1>2. Updated(row, columns, value) =
        [row EXCEPT !.status = s, !.owner = o, !.lease = l, !.due = d, !.cancel = k]
  BY DEF Updated
<1>3. /\ s \in WorkStatus
      /\ o \in Workers \cup {NoWorker}
      /\ l \in {"none", "live", "expired"}
      /\ d \in BOOLEAN
      /\ k \in BOOLEAN
      /\ \/ s = row.status /\ o = row.owner /\ l = row.lease
         \/ s \in {"CANCELED", "PENDING"}
  BY <1>1 DEF Row, WorkStatus
<1> HIDE DEF s, o, l, d, k, value
<1>4. LET new == [row EXCEPT !.status = s, !.owner = o, !.lease = l, !.due = d, !.cancel = k] IN
      /\ new \in Row
      /\ new.attempt_no = row.attempt_no
      /\ new.status = s
      /\ new.owner = o
      /\ new.lease = l
  BY <1>3 DEF Row
<1> QED
  BY <1>2, <1>3, <1>4 DEF value

LEMMA ApiCommitStep ==
    ASSUME IInv, NEW c \in Clients, ApiCommit(c)
    PROVE  IInv' /\ KeepsAttempts
<1> DEFINE t == api[c].task
           new == Updated(task[t], api[c].columns, OpValue(api[c].op))
<1>1. /\ t \in Tasks
      /\ task[t] \in Row
      /\ api[c].op \in {"cancel", "retry"}
      /\ api[c].columns \in SUBSET Column
      /\ {"owner", "lease"} \cap api[c].columns # {} => "status" \in api[c].columns
  BY DEF IInv, TypeOK, SoundRequests, ApiCommit, Request
<1>2. /\ new \in Row
      /\ new.attempt_no = task[t].attempt_no
      /\ \/ new.status = task[t].status /\ new.owner = task[t].owner /\ new.lease = task[t].lease
         \/ new.status \in {"CANCELED", "PENDING"}
  BY <1>1, UpdatedRow
<1>3. /\ task' = [task EXCEPT ![t] = new]
      /\ api' = [api EXCEPT ![c] = NoRequest]
      /\ retries' = [retries EXCEPT ![t] = IF api[c].op = "retry" THEN retries[t] + 1 ELSE retries[t]]
      /\ UNCHANGED <<attempts, recoveries, mishaps>>
  BY DEF ApiCommit
<1> HIDE DEF new, t
<1>4. /\ task' \in [Tasks -> Row]
      /\ task'[t] = new
      /\ \A u \in Tasks : u # t => task'[u] = task[u]
  BY <1>1, <1>2, <1>3 DEF IInv, TypeOK
<1>5. TypeOK'
  BY <1>1, <1>3, <1>4 DEF IInv, TypeOK
<1>6. AttemptsAreNumbered'
  BY <1>1, <1>2, <1>3, <1>4 DEF IInv, AttemptsAreNumbered
<1>7. SoundAttempts' /\ SoundRequests'
  BY <1>3 DEF IInv, TypeOK, SoundAttempts, SoundRequests
<1>8. ASSUME NEW u \in Tasks
      PROVE  Leased(task'[u], attempts'[u]) /\ Vouched(task'[u], attempts'[u])
  <2>1. Leased(task[u], attempts[u]) /\ Vouched(task[u], attempts[u])
    BY DEF IInv, RunningIsLeased, VerdictHasAttempt
  <2>2. CASE u # t
    BY <2>1, <2>2, <1>3, <1>4
  <2>3. CASE u = t
    BY <2>1, <2>3, <1>2, <1>3, <1>4 DEF Leased, Vouched
  <2> QED
    BY <2>2, <2>3
<1>9. RunningIsLeased' /\ VerdictHasAttempt'
  BY <1>8 DEF RunningIsLeased, VerdictHasAttempt
<1>10. KeepsAttempts
  BY <1>3 DEF KeepsAttempts
<1> QED
  BY <1>5, <1>6, <1>7, <1>9, <1>10 DEF IInv

-----------------------------------------------------------------------------
(* Claims, recoveries and crashes, which move many tasks at once.          *)

\* A claim appends one attempt, of the claiming worker.
LEMMA ClaimEffect ==
    ASSUME NEW log \in Seq(Attempt), NEW row \in Row, row.attempt_no = Len(log),
           \A n \in DOMAIN log : SoundAttempt(log[n], n), NEW w \in Workers,
           NEW log2, log2 = Append(log, NewAttempt(w))
    PROVE  /\ log2 \in Seq(Attempt)
           /\ Claimed(row, w) \in Row
           /\ Claimed(row, w).attempt_no = Len(log2)
           /\ \A n \in DOMAIN log2 : SoundAttempt(log2[n], n)
           /\ \A n \in DOMAIN log : n \in DOMAIN log2 /\ log2[n] = log[n]
           /\ Leased(Claimed(row, w), log2)
           /\ Vouched(Claimed(row, w), log2)
<1> DEFINE a == NewAttempt(w)
<1>1. a \in Attempt /\ a.worker = w /\ a.status = "RUNNING" /\ a.pc = "queued"
  BY DEF NewAttempt, Attempt, AttemptStatus, ThreadPC
<1>2. /\ log2 \in Seq(Attempt)
      /\ Len(log2) = Len(log) + 1
      /\ \A n \in 1 .. Len(log) : log2[n] = log[n]
      /\ log2[Len(log) + 1] = a
  <2>1. log2 = Append(log, a)
    OBVIOUS
  <2> HIDE DEF a
  <2> QED
    BY <2>1, <1>1, AppendProperties
<1>3. /\ DOMAIN log = 1 .. Len(log)
      /\ DOMAIN log2 = 1 .. (Len(log) + 1)
      /\ Len(log) \in Nat
  BY <1>2, LenProperties
<1> HIDE DEF a
<1>4. /\ Claimed(row, w) \in Row
      /\ Claimed(row, w).attempt_no = Len(log) + 1
      /\ Claimed(row, w).status = "RUNNING"
      /\ Claimed(row, w).owner = w
      /\ Claimed(row, w).lease = "live"
  <2> DEFINE k == row.attempt_no + 1
  <2>1. k \in Nat /\ k = Len(log) + 1
    BY <1>3
  <2>2. Claimed(row, w) = [row EXCEPT !.status = "RUNNING", !.owner = w, !.lease = "live",
                                      !.cancel = FALSE, !.attempt_no = k]
    BY DEF Claimed
  <2> HIDE DEF k
  <2> QED
    BY <2>1, <2>2 DEF Row, WorkStatus
<1>5. \A n \in DOMAIN log2 : SoundAttempt(log2[n], n)
  <2>1. SoundAttempt(a, Len(log) + 1)
    BY <1>1 DEF SoundAttempt, Live
  <2> QED
    BY <2>1, <1>2, <1>3
<1>6. Leased(Claimed(row, w), log2) /\ Vouched(Claimed(row, w), log2)
  BY <1>1, <1>2, <1>3, <1>4 DEF Leased, Vouched
<1> QED
  BY <1>2, <1>3, <1>4, <1>5, <1>6

LEMMA RecoverEffect ==
    ASSUME NEW row \in Row, NEW log
    PROVE  /\ Recovered(row) \in Row
           /\ Recovered(row).attempt_no = row.attempt_no
           /\ Leased(Recovered(row), log)
           /\ Vouched(Recovered(row), log)
<1>1. /\ Recovered(row) \in Row
      /\ Recovered(row).attempt_no = row.attempt_no
      /\ Recovered(row).status = "PENDING"
  BY DEF Recovered, Row, WorkStatus
<1> QED
  BY <1>1 DEF Leased, Vouched

LEMMA RunOnceStep ==
    ASSUME IInv, NEW w \in Workers, NEW R \in SUBSET Tasks, NEW C \in SUBSET Tasks,
           RunOnce(w, R, C)
    PROVE  IInv' /\ KeepsAttempts
<1>1. ASSUME NEW t \in Tasks
      PROVE  /\ task'[t] = IF t \in R THEN Recovered(task[t])
                          ELSE IF t \in C THEN Claimed(task[t], w) ELSE task[t]
             /\ attempts'[t] = IF t \in C THEN Append(attempts[t], NewAttempt(w))
                              ELSE attempts[t]
             /\ t \in R => t \notin C
  BY DEF RunOnce, Expired, Claimable, ClaimableStatus
<1>2. ASSUME NEW t \in Tasks
      PROVE  /\ task[t] \in Row
             /\ attempts[t] \in Seq(Attempt)
             /\ task[t].attempt_no = Len(attempts[t])
             /\ \A n \in DOMAIN attempts[t] : SoundAttempt(attempts[t][n], n)
             /\ Leased(task[t], attempts[t])
             /\ Vouched(task[t], attempts[t])
  BY DEF IInv, TypeOK, AttemptsAreNumbered, SoundAttempts, RunningIsLeased, VerdictHasAttempt
<1>3. ASSUME NEW t \in Tasks
      PROVE  /\ task'[t] \in Row
             /\ attempts'[t] \in Seq(Attempt)
             /\ task'[t].attempt_no = Len(attempts'[t])
             /\ \A n \in DOMAIN attempts'[t] : SoundAttempt(attempts'[t][n], n)
             /\ \A n \in DOMAIN attempts[t] :
                   n \in DOMAIN attempts'[t] /\ attempts'[t][n] = attempts[t][n]
             /\ Leased(task'[t], attempts'[t])
             /\ Vouched(task'[t], attempts'[t])
  <2>1. CASE t \in R
    BY <2>1, <1>1, <1>2, RecoverEffect
  <2>2. CASE t \notin R /\ t \in C
    <3>1. /\ task'[t] = Claimed(task[t], w)
          /\ attempts'[t] = Append(attempts[t], NewAttempt(w))
      BY <2>2, <1>1
    <3>2. /\ attempts'[t] \in Seq(Attempt)
          /\ Claimed(task[t], w) \in Row
          /\ Claimed(task[t], w).attempt_no = Len(attempts'[t])
          /\ \A n \in DOMAIN attempts'[t] : SoundAttempt(attempts'[t][n], n)
          /\ \A n \in DOMAIN attempts[t] :
                n \in DOMAIN attempts'[t] /\ attempts'[t][n] = attempts[t][n]
          /\ Leased(Claimed(task[t], w), attempts'[t])
          /\ Vouched(Claimed(task[t], w), attempts'[t])
      BY <3>1, <1>2, ClaimEffect
    <3> QED
      BY <3>1, <3>2
  <2>3. CASE t \notin R /\ t \notin C
    BY <2>3, <1>1, <1>2
  <2> QED
    BY <2>1, <2>2, <2>3
<1>4. TypeOK'
  <2>1. task' \in [Tasks -> Row]
    BY <1>3 DEF RunOnce
  <2>2. attempts' \in [Tasks -> Seq(Attempt)]
    BY <1>3 DEF RunOnce
  <2>3. recoveries' \in [Tasks -> Nat]
    BY DEF RunOnce, IInv, TypeOK
  <2> QED
    BY <2>1, <2>2, <2>3 DEF RunOnce, IInv, TypeOK
<1>5. SoundRequests'
  BY DEF RunOnce, IInv, SoundRequests
<1>6. /\ AttemptsAreNumbered'
      /\ SoundAttempts'
      /\ RunningIsLeased'
      /\ VerdictHasAttempt'
  BY <1>3 DEF AttemptsAreNumbered, SoundAttempts, RunningIsLeased, VerdictHasAttempt
<1>7. KeepsAttempts
  BY <1>3 DEF KeepsAttempts
<1> QED
  BY <1>4, <1>5, <1>6, <1>7 DEF IInv

LEMMA CrashStep ==
    ASSUME IInv, NEW w \in Workers, Crash(w)
    PROVE  IInv' /\ KeepsAttempts
<1>1. ASSUME NEW t \in Tasks
      PROVE  /\ attempts[t] \in Seq(Attempt)
             /\ DOMAIN attempts[t] = 1 .. Len(attempts[t])
             /\ Len(attempts[t]) \in Nat
             /\ attempts'[t] = [n \in DOMAIN attempts[t] |->
                   IF OnWorker(w, attempts[t][n]) THEN Lost(attempts[t][n])
                                                  ELSE attempts[t][n]]
  BY LenProperties DEF Crash, IInv, TypeOK
<1>2. ASSUME NEW t \in Tasks, NEW n \in DOMAIN attempts[t]
      PROVE  /\ attempts'[t][n] \in Attempt
             /\ attempts'[t][n].worker = attempts[t][n].worker
             /\ attempts'[t][n].status = attempts[t][n].status
             /\ SoundAttempt(attempts'[t][n], n)
  <2>1. attempts[t][n] \in Attempt /\ SoundAttempt(attempts[t][n], n)
    BY LenProperties DEF IInv, TypeOK, SoundAttempts
  <2>2. /\ Lost(attempts[t][n]) \in Attempt
        /\ Lost(attempts[t][n]).worker = attempts[t][n].worker
        /\ Lost(attempts[t][n]).status = attempts[t][n].status
        /\ SoundAttempt(Lost(attempts[t][n]), n)
    <3>1. CASE Live(attempts[t][n])
      BY <3>1, <2>1 DEF Lost, Attempt, ThreadPC, SoundAttempt, Live
    <3>2. CASE ~Live(attempts[t][n])
      BY <3>2, <2>1 DEF Lost, Attempt, SoundAttempt, Live, MarkFits
    <3> QED
      BY <3>1, <3>2
  <2> QED
    BY <2>1, <2>2, <1>1
<1>3. ASSUME NEW t \in Tasks
      PROVE  /\ attempts'[t] \in Seq(Attempt)
             /\ Len(attempts'[t]) = Len(attempts[t])
             /\ DOMAIN attempts'[t] = DOMAIN attempts[t]
  <2>1. DOMAIN attempts'[t] = 1 .. Len(attempts[t])
    BY <1>1
  <2>2. attempts'[t] \in [1 .. Len(attempts[t]) -> Attempt]
    BY <2>1, <1>1, <1>2
  <2>3. attempts'[t] \in Seq(Attempt)
    BY <2>2, <1>1, SeqDef
  <2> QED
    BY <2>1, <2>3, <1>1, LenProperties
<1>4. TypeOK'
  <2>1. attempts' \in [Tasks -> Seq(Attempt)]
    BY <1>3 DEF Crash
  <2> QED
    BY <2>1 DEF Crash, Mishap, IInv, TypeOK
<1>5. AttemptsAreNumbered' /\ SoundAttempts' /\ SoundRequests'
  BY <1>2, <1>3 DEF Crash, IInv, AttemptsAreNumbered, SoundAttempts, SoundRequests
<1>6. ASSUME NEW t \in Tasks
      PROVE  Leased(task'[t], attempts'[t]) /\ Vouched(task'[t], attempts'[t])
  <2>1. Leased(task[t], attempts[t]) /\ Vouched(task[t], attempts[t])
    BY DEF IInv, RunningIsLeased, VerdictHasAttempt
  <2>2. task' = task
    BY DEF Crash
  <2>3. \A n \in DOMAIN attempts[t] :
           /\ n \in DOMAIN attempts'[t]
           /\ attempts'[t][n].worker = attempts[t][n].worker
           /\ attempts'[t][n].status = attempts[t][n].status
    BY <1>2, <1>3
  <2> QED
    BY <2>1, <2>2, <2>3, LeasedKept, VouchedKept
<1>7. RunningIsLeased' /\ VerdictHasAttempt'
  BY <1>6 DEF RunningIsLeased, VerdictHasAttempt
<1>8. KeepsAttempts
  BY <1>2, <1>3 DEF KeepsAttempts
<1> QED
  BY <1>4, <1>5, <1>7, <1>8 DEF IInv

-----------------------------------------------------------------------------

LEMMA InitEstablishes == Init => IInv
<1> SUFFICES ASSUME Init
             PROVE  IInv
  OBVIOUS
<1>1. NewRow \in Row /\ NewRow.status = "PENDING" /\ NewRow.attempt_no = 0
  BY DEF NewRow, Row, WorkStatus
<1>2. <<>> \in Seq(Attempt) /\ Len(<<>>) = 0 /\ DOMAIN <<>> = {}
  OBVIOUS
<1>3. TypeOK
  BY <1>1, <1>2 DEF Init, TypeOK
<1>4. AttemptsAreNumbered /\ SoundAttempts /\ SoundRequests
  BY <1>1, <1>2 DEF Init, AttemptsAreNumbered, SoundAttempts, SoundRequests
<1>5. RunningIsLeased /\ VerdictHasAttempt
  BY <1>1 DEF Init, RunningIsLeased, VerdictHasAttempt, Leased, Vouched
<1> QED
  BY <1>3, <1>4, <1>5 DEF IInv

LEMMA StutterStep ==
    ASSUME IInv, UNCHANGED vars
    PROVE  IInv' /\ KeepsAttempts
BY DEF vars, IInv, TypeOK, AttemptsAreNumbered, SoundAttempts, SoundRequests,
       RunningIsLeased, VerdictHasAttempt, KeepsAttempts

\* Every step keeps the invariant and the finished attempts.
LEMMA NextKeeps == IInv /\ [Next]_vars => IInv' /\ KeepsAttempts
<1> SUFFICES ASSUME IInv, [Next]_vars
             PROVE  IInv' /\ KeepsAttempts
  OBVIOUS
<1>1. ASSUME NEW w \in Workers, NEW R \in SUBSET Tasks, NEW C \in SUBSET Tasks, RunOnce(w, R, C)
      PROVE  IInv' /\ KeepsAttempts
  BY <1>1, RunOnceStep
<1>2. ASSUME NEW t \in Tasks, NEW n \in DOMAIN attempts[t],
             \/ Start(t, n)
             \/ \E verdict \in Verdict : HandlerEnds(t, n, verdict)
             \/ MarkRead(t, n)
             \/ MarkCommit(t, n)
      PROVE  IInv' /\ KeepsAttempts
  BY <1>2, StartStep, HandlerEndsStep, MarkReadStep, MarkCommitStep
<1>3. ASSUME NEW t \in Tasks, NEW n \in DOMAIN attempts[t],
             MarkError(t, n) \/ HeartbeatRead(t, n) \/ HeartbeatCommit(t, n) \/ HeartbeatDies(t, n)
      PROVE  IInv' /\ KeepsAttempts
  BY <1>3, MarkErrorStep, HeartbeatReadStep, HeartbeatCommitStep, HeartbeatDiesStep
<1>4. ASSUME NEW t \in Tasks, LeaseLapse(t) \/ BecomesDue(t)
      PROVE  IInv' /\ KeepsAttempts
  BY <1>4, LeaseLapseStep, BecomesDueStep
<1>5. ASSUME NEW w \in Workers, Crash(w)
      PROVE  IInv' /\ KeepsAttempts
  BY <1>5, CrashStep
<1>6. ASSUME NEW c \in Clients, NEW t \in Tasks, NEW op \in ApiOps, ApiRead(c, t, op)
      PROVE  IInv' /\ KeepsAttempts
  BY <1>6, ApiReadStep
<1>7. ASSUME NEW c \in Clients, ApiCommit(c)
      PROVE  IInv' /\ KeepsAttempts
  BY <1>7, ApiCommitStep
<1>8. CASE Idle
  BY <1>8, StutterStep DEF Idle
<1>9. CASE UNCHANGED vars
  BY <1>9, StutterStep
<1> QED
  BY <1>1, <1>2, <1>3, <1>4, <1>5, <1>6, <1>7, <1>8, <1>9 DEF Next

LEMMA Invariance == Spec => []IInv
<1>1. Init => IInv
  BY InitEstablishes
<1>2. IInv /\ [Next]_vars => IInv'
  BY NextKeeps
<1> QED
  BY <1>1, <1>2, PTL DEF Spec

\* The rows, the attempts and the open requests keep their types, for every
\* number of tasks, workers and clients.
THEOREM TypeCorrect == Spec => []TypeOK
<1>1. IInv => TypeOK
  BY DEF IInv
<1> QED
  BY <1>1, Invariance, PTL

\* A RUNNING row always carries a lease and the worker of its latest attempt,
\* so that recover_expired_running_tasks can take it back.
THEOREM AlwaysLeased == Spec => []RunningIsLeased
<1>1. IInv => RunningIsLeased
  BY DEF IInv
<1> QED
  BY <1>1, Invariance, PTL

\* No row shows a verdict that no attempt reached.
THEOREM AlwaysVouched == Spec => []VerdictHasAttempt
<1>1. IInv => VerdictHasAttempt
  BY DEF IInv
<1> QED
  BY <1>1, Invariance, PTL

\* No step rewrites or removes the verdict of a finished attempt.
THEOREM FinalVerdicts == Spec => AttemptVerdictIsFinal
<1>1. IInv /\ [Next]_vars =>
        [\A t \in Tasks : \A n \in DOMAIN attempts[t] :
            attempts[t][n].status # "RUNNING" =>
                n \in DOMAIN attempts'[t] /\ attempts'[t][n].status = attempts[t][n].status]_vars
  BY NextKeeps DEF KeepsAttempts
<1> QED
  BY <1>1, Invariance, PTL DEF Spec, AttemptVerdictIsFinal

-----------------------------------------------------------------------------
(* ClaimBudget.  An execution is paid for by the first start, a recovery, a *)
(* manual retry, or an attempt below max_attempts that failed: each of these *)
(* lets the task wait for one claim, and each claim ends one wait.          *)

Waits(row) == IF row.status \in ClaimableStatus THEN 1 ELSE 0

\* The failed attempts that allow another one.
Granted(log) == {n \in DOMAIN log : n < MaxAttempts /\ log[n].status = "FAILED"}

Paid(t) == task[t].attempt_no + Waits(task[t])
              <= 1 + Cardinality(Granted(attempts[t])) + recoveries[t] + retries[t]

AllPaid == \A t \in Tasks : Paid(t)

\* What a step does to one task: nothing that costs, a claim, something that is
\* counted, or the failure of an attempt that may be retried.
Pays(t) ==
    \/ /\ task'[t].attempt_no = task[t].attempt_no
       /\ task'[t].status \in ClaimableStatus => task[t].status \in ClaimableStatus
       /\ recoveries'[t] = recoveries[t] /\ retries'[t] = retries[t]
    \/ /\ task'[t].attempt_no = task[t].attempt_no + 1
       /\ task[t].status \in ClaimableStatus /\ task'[t].status = "RUNNING"
       /\ recoveries'[t] = recoveries[t] /\ retries'[t] = retries[t]
    \/ /\ task'[t].attempt_no = task[t].attempt_no
       /\ recoveries'[t] + retries'[t] = recoveries[t] + retries[t] + 1
    \/ /\ task'[t].attempt_no = task[t].attempt_no
       /\ recoveries'[t] = recoveries[t] /\ retries'[t] = retries[t]
       /\ \E n \in DOMAIN attempts[t] :
             /\ n < MaxAttempts
             /\ attempts[t][n].status = "RUNNING"
             /\ n \in DOMAIN attempts'[t] /\ attempts'[t][n].status = "FAILED"

\* The attempts that grant another are finitely many, and fewer than max_attempts.
LEMMA GrantedIsSmall ==
    ASSUME NEW log \in Seq(Attempt)
    PROVE  /\ IsFiniteSet(Granted(log))
           /\ Cardinality(Granted(log)) \in Nat
           /\ 1 + Cardinality(Granted(log)) <= IF MaxAttempts = 0 THEN 1 ELSE MaxAttempts
<1>1. MaxAttempts \in 0..20
  BY TaskLeaseAssumption
<1>2. /\ IsFiniteSet(1 .. (MaxAttempts - 1))
      /\ Cardinality(1 .. (MaxAttempts - 1)) = IF MaxAttempts = 0 THEN 0 ELSE MaxAttempts - 1
  BY <1>1, FS_Interval
<1>3. DOMAIN log = 1 .. Len(log) /\ Len(log) \in Nat
  BY LenProperties
<1>4. Granted(log) \in SUBSET (1 .. (MaxAttempts - 1))
  BY <1>1, <1>3 DEF Granted
<1>5. /\ IsFiniteSet(Granted(log))
      /\ Cardinality(Granted(log)) <= Cardinality(1 .. (MaxAttempts - 1))
  BY <1>2, <1>4, FS_Subset
<1>6. Cardinality(Granted(log)) \in Nat
  BY <1>5, FS_CardinalityType
<1> QED
  BY <1>1, <1>2, <1>5, <1>6

\* Failed attempts stay failed, so grants are never taken back.
LEMMA GrantsGrow ==
    ASSUME TypeOK, TypeOK', KeepsAttempts, NEW t \in Tasks
    PROVE  /\ Granted(attempts[t]) \subseteq Granted(attempts'[t])
           /\ Cardinality(Granted(attempts[t])) <= Cardinality(Granted(attempts'[t]))
           /\ (\E n \in DOMAIN attempts[t] :
                 /\ n < MaxAttempts
                 /\ attempts[t][n].status = "RUNNING"
                 /\ n \in DOMAIN attempts'[t] /\ attempts'[t][n].status = "FAILED")
              => Cardinality(Granted(attempts[t])) + 1 <= Cardinality(Granted(attempts'[t]))
<1> DEFINE G == Granted(attempts[t])
           H == Granted(attempts'[t])
<1>1. G \subseteq H
  BY DEF Granted, KeepsAttempts
<1>2. IsFiniteSet(H) /\ IsFiniteSet(G) /\ Cardinality(G) \in Nat /\ Cardinality(H) \in Nat
  BY GrantedIsSmall DEF TypeOK
<1>3. Cardinality(G) <= Cardinality(H)
  BY <1>1, <1>2, FS_Subset
<1>4. ASSUME NEW n \in DOMAIN attempts[t], n < MaxAttempts, attempts[t][n].status = "RUNNING",
             n \in DOMAIN attempts'[t], attempts'[t][n].status = "FAILED"
      PROVE  Cardinality(G) + 1 <= Cardinality(H)
  <2>1. n \in H /\ n \notin G
    BY <1>4 DEF Granted
  <2>2. Cardinality(G) # Cardinality(H)
    BY <1>1, <1>2, <2>1, FS_Subset
  <2> QED
    BY <1>2, <1>3, <2>2
<1> QED
  BY <1>1, <1>3, <1>4

LEMMA PaidKept ==
    ASSUME IInv, IInv', KeepsAttempts, NEW t \in Tasks, Paid(t), Pays(t)
    PROVE  Paid(t)'
<1> DEFINE G == Cardinality(Granted(attempts[t]))
           H == Cardinality(Granted(attempts'[t]))
<1>1. /\ G \in Nat /\ H \in Nat /\ G <= H
      /\ (\E n \in DOMAIN attempts[t] :
            /\ n < MaxAttempts
            /\ attempts[t][n].status = "RUNNING"
            /\ n \in DOMAIN attempts'[t] /\ attempts'[t][n].status = "FAILED") => G + 1 <= H
  BY GrantsGrow, GrantedIsSmall DEF IInv, TypeOK
<1>2. /\ task[t].attempt_no \in Nat /\ task'[t].attempt_no \in Nat
      /\ recoveries[t] \in Nat /\ recoveries'[t] \in Nat
      /\ retries[t] \in Nat /\ retries'[t] \in Nat
  BY DEF IInv, TypeOK, Row
<1>3. /\ Waits(task[t]) \in 0..1 /\ Waits(task'[t]) \in 0..1
      /\ task[t].status \in ClaimableStatus <=> Waits(task[t]) = 1
      /\ task'[t].status \in ClaimableStatus <=> Waits(task'[t]) = 1
  BY DEF Waits
<1>4. task'[t].status = "RUNNING" => Waits(task'[t]) = 0
  BY DEF Waits, ClaimableStatus
<1>5. task[t].attempt_no + Waits(task[t]) <= 1 + G + recoveries[t] + retries[t]
  BY DEF Paid
<1> HIDE DEF G, H
<1>6. task'[t].attempt_no + Waits(task'[t]) <= 1 + H + recoveries'[t] + retries'[t]
  BY <1>1, <1>2, <1>3, <1>4, <1>5 DEF Pays
<1> QED
  BY <1>6 DEF Paid, H

\* A step that leaves the rows and the counts alone.
LEMMA SameRowsPay ==
    ASSUME UNCHANGED <<task, recoveries, retries>>, NEW t \in Tasks
    PROVE  Pays(t)
BY DEF Pays

LEMMA RunOncePays ==
    ASSUME IInv, NEW w \in Workers, NEW R \in SUBSET Tasks, NEW C \in SUBSET Tasks,
           RunOnce(w, R, C), NEW t \in Tasks
    PROVE  Pays(t)
<1>1. task[t] \in Row /\ recoveries[t] \in Nat /\ retries[t] \in Nat
  BY DEF IInv, TypeOK
<1>2. /\ task'[t] = IF t \in R THEN Recovered(task[t])
                    ELSE IF t \in C THEN Claimed(task[t], w) ELSE task[t]
      /\ recoveries'[t] = IF t \in R THEN recoveries[t] + 1 ELSE recoveries[t]
      /\ retries' = retries
  BY DEF RunOnce
<1>3. CASE t \in R
  <2>1. task'[t].attempt_no = task[t].attempt_no
    BY <1>1, <1>2, <1>3 DEF Recovered, Row
  <2> QED
    BY <1>1, <1>2, <1>3, <2>1 DEF Pays
<1>4. CASE t \notin R /\ t \in C
  <2>1. task'[t].attempt_no = task[t].attempt_no + 1 /\ task'[t].status = "RUNNING"
    BY <1>1, <1>2, <1>4 DEF Claimed, Row
  <2>2. task[t].status \in ClaimableStatus
    BY <1>4 DEF RunOnce, Claimable
  <2> QED
    BY <1>2, <1>4, <2>1, <2>2 DEF Pays
<1>5. CASE t \notin R /\ t \notin C
  BY <1>2, <1>5 DEF Pays
<1> QED
  BY <1>3, <1>4, <1>5

LEMMA MarkCommitPays ==
    ASSUME IInv, NEW u \in Tasks, NEW n \in DOMAIN attempts[u], MarkCommit(u, n), NEW t \in Tasks
    PROVE  Pays(t)
<1> DEFINE a == attempts[u][n]
           b == [Ended(a) EXCEPT !.status = AttemptVerdict(a.mark)]
<1>1. /\ a.pc = "owned" /\ task' = [task EXCEPT ![u] = Marked(@, a.mark)]
      /\ SetAttempt(u, n, b) /\ UNCHANGED <<recoveries, retries>>
  BY DEF MarkCommit
<1>2. task[u] \in Row /\ a \in Attempt
  BY ElementOfSeq, LenProperties DEF IInv, TypeOK
<1>3. /\ a.mark \in Verdict /\ a.status = "RUNNING"
      /\ a.mark = "RETRY_WAIT" => n < MaxAttempts
  BY <1>1 DEF IInv, SoundAttempts, SoundAttempt, MarkFits, Live
<1>4. b \in Attempt
  BY <1>2, <1>3 DEF Ended, AttemptVerdict, Attempt, AttemptStatus, ThreadPC, Verdict
<1>5. a.mark = "RETRY_WAIT" => b.status = "FAILED"
  BY <1>2 DEF Ended, AttemptVerdict, Attempt
<1> HIDE DEF b
<1>6. n \in DOMAIN attempts'[u] /\ attempts'[u][n] = b
  BY <1>1, <1>4, SetAttemptEffect DEF IInv
<1>7. /\ Marked(task[u], a.mark).attempt_no = task[u].attempt_no
      /\ Marked(task[u], a.mark).status = a.mark
  BY <1>2, <1>3 DEF Marked, Row
<1>8. CASE t # u
  BY <1>1, <1>8 DEF Pays, IInv, TypeOK
<1>9. CASE t = u /\ a.mark # "RETRY_WAIT"
  <2>1. task'[t] = Marked(task[u], a.mark)
    BY <1>1, <1>9 DEF IInv, TypeOK
  <2>2. task'[t].status \notin ClaimableStatus
    BY <1>3, <1>7, <1>9, <2>1 DEF ClaimableStatus, Verdict
  <2> QED
    BY <1>1, <1>7, <1>9, <2>1, <2>2 DEF Pays
<1>10. CASE t = u /\ a.mark = "RETRY_WAIT"
  <2>1. task'[t] = Marked(task[u], a.mark)
    BY <1>1, <1>10 DEF IInv, TypeOK
  <2>2. \E m \in DOMAIN attempts[t] :
             /\ m < MaxAttempts
             /\ attempts[t][m].status = "RUNNING"
             /\ m \in DOMAIN attempts'[t] /\ attempts'[t][m].status = "FAILED"
    BY <1>3, <1>5, <1>6, <1>10
  <2> QED
    BY <1>1, <1>7, <1>10, <2>1, <2>2 DEF Pays
<1> QED
  BY <1>8, <1>9, <1>10

\* Steps that change only the lease or the due time of a row.
LEMMA LeaseOrDuePays ==
    ASSUME IInv, NEW u \in Tasks, NEW t \in Tasks, UNCHANGED <<recoveries, retries>>,
           \/ task' = [task EXCEPT ![u].lease = "live"]
           \/ task' = [task EXCEPT ![u].lease = "expired"]
           \/ task' = [task EXCEPT ![u].due = TRUE]
    PROVE  Pays(t)
<1>1. task[t] \in Row /\ task[u] \in Row
  BY DEF IInv, TypeOK
<1>2. /\ task \in [Tasks -> Row]
      /\ \/ task' = [task EXCEPT ![u] = [task[u] EXCEPT !.lease = "live"]]
         \/ task' = [task EXCEPT ![u] = [task[u] EXCEPT !.lease = "expired"]]
         \/ task' = [task EXCEPT ![u] = [task[u] EXCEPT !.due = TRUE]]
  BY DEF IInv, TypeOK
<1>3. \/ task'[t] = task[t]
      \/ task'[t] = [task[t] EXCEPT !.lease = "live"]
      \/ task'[t] = [task[t] EXCEPT !.lease = "expired"]
      \/ task'[t] = [task[t] EXCEPT !.due = TRUE]
  BY <1>2
<1>4. task'[t].attempt_no = task[t].attempt_no /\ task'[t].status = task[t].status
  BY <1>1, <1>3 DEF Row
<1> QED
  BY <1>4 DEF Pays

LEMMA ApiCommitPays ==
    ASSUME IInv, NEW c \in Clients, ApiCommit(c), NEW t \in Tasks
    PROVE  Pays(t)
<1> DEFINE r == api[c]
           v == Updated(task[r.task], r.columns, OpValue(r.op))
<1>1. r \in Request
  BY DEF ApiCommit, IInv, TypeOK
<1>2. /\ task' = [task EXCEPT ![r.task] = v]
      /\ retries' = [retries EXCEPT ![r.task] = IF r.op = "retry" THEN @ + 1 ELSE @]
      /\ recoveries' = recoveries
  BY DEF ApiCommit
<1>3. r.task \in Tasks /\ r.op \in {"cancel", "retry"}
  BY <1>1 DEF Request
<1>4. task[r.task] \in Row /\ retries[r.task] \in Nat /\ recoveries[r.task] \in Nat
  BY <1>3 DEF IInv, TypeOK
<1>5. v.attempt_no = task[r.task].attempt_no
  BY <1>4 DEF Updated, Row
<1>6. r.op = "cancel" => v.status \in {task[r.task].status, "CANCELED"}
  BY <1>4 DEF Updated, Row, OpValue, CancelValue
<1> HIDE DEF v
<1>7. CASE t # r.task
  BY <1>2, <1>3, <1>7 DEF Pays, IInv, TypeOK
<1>8. CASE t = r.task
  <2>1. task'[t] = v
    BY <1>2, <1>3, <1>8 DEF IInv, TypeOK
  <2>2. retries'[t] = IF r.op = "retry" THEN retries[t] + 1 ELSE retries[t]
    BY <1>2, <1>3, <1>8 DEF IInv, TypeOK
  <2>3. CASE r.op = "retry"
    BY <1>2, <1>4, <1>5, <1>8, <2>1, <2>2, <2>3 DEF Pays
  <2>4. CASE r.op = "cancel"
    <3>1. v.status \in ClaimableStatus => task[t].status \in ClaimableStatus
      BY <1>6, <1>8, <2>4 DEF ClaimableStatus
    <3> QED
      BY <1>2, <1>5, <1>8, <2>1, <2>2, <2>4, <3>1 DEF Pays
  <2> QED
    BY <1>3, <2>3, <2>4
<1> QED
  BY <1>7, <1>8

LEMMA NextPays == ASSUME IInv, [Next]_vars, NEW t \in Tasks PROVE Pays(t)
<1>1. ASSUME NEW w \in Workers, NEW R \in SUBSET Tasks, NEW C \in SUBSET Tasks, RunOnce(w, R, C)
      PROVE  Pays(t)
  BY <1>1, RunOncePays
<1>2. ASSUME NEW u \in Tasks, NEW n \in DOMAIN attempts[u],
             \/ Start(u, n)
             \/ \E verdict \in Verdict : HandlerEnds(u, n, verdict)
             \/ MarkRead(u, n)
             \/ MarkError(u, n)
             \/ HeartbeatRead(u, n)
             \/ HeartbeatDies(u, n)
      PROVE  Pays(t)
  BY <1>2, SameRowsPay
     DEF Start, HandlerEnds, MarkRead, MarkError, HeartbeatRead, HeartbeatDies
<1>3. ASSUME NEW u \in Tasks, NEW n \in DOMAIN attempts[u], MarkCommit(u, n)
      PROVE  Pays(t)
  BY <1>3, MarkCommitPays
<1>4. ASSUME NEW u \in Tasks, NEW n \in DOMAIN attempts[u], HeartbeatCommit(u, n)
      PROVE  Pays(t)
  BY <1>4, LeaseOrDuePays DEF HeartbeatCommit
<1>5. ASSUME NEW u \in Tasks, LeaseLapse(u) \/ BecomesDue(u)
      PROVE  Pays(t)
  BY <1>5, LeaseOrDuePays DEF LeaseLapse, BecomesDue
<1>6. ASSUME NEW w \in Workers, Crash(w)
      PROVE  Pays(t)
  BY <1>6, SameRowsPay DEF Crash
<1>7. ASSUME NEW c \in Clients, NEW u \in Tasks, NEW op \in ApiOps, ApiRead(c, u, op)
      PROVE  Pays(t)
  BY <1>7, SameRowsPay DEF ApiRead
<1>8. ASSUME NEW c \in Clients, ApiCommit(c)
      PROVE  Pays(t)
  BY <1>8, ApiCommitPays
<1>9. CASE UNCHANGED vars
  BY <1>9, SameRowsPay DEF vars
<1> QED
  BY <1>1, <1>2, <1>3, <1>4, <1>5, <1>6, <1>7, <1>8, <1>9 DEF Next, Idle

\* Executions beyond max_attempts are each paid for by a recovery or a manual
\* retry, though a claim does not look at the number (mark_retry_wait,
\* mark_dead, claim_tasks).
THEOREM BudgetKept == Spec => []ClaimBudget
<1>1. Init => AllPaid
  <2> SUFFICES ASSUME Init, NEW t \in Tasks
               PROVE  Paid(t)
    BY DEF AllPaid
  <2>1. /\ task[t].attempt_no = 0 /\ Waits(task[t]) \in 0..1
        /\ recoveries[t] = 0 /\ retries[t] = 0
    BY DEF Init, NewRow, Waits
  <2>2. Cardinality(Granted(attempts[t])) \in Nat
    BY InitEstablishes, GrantedIsSmall DEF IInv, TypeOK
  <2> QED
    BY <2>1, <2>2 DEF Paid
<1>2. IInv /\ AllPaid /\ [Next]_vars => AllPaid'
  BY NextKeeps, NextPays, PaidKept DEF AllPaid
<1>3. IInv /\ AllPaid => ClaimBudget
  <2> SUFFICES ASSUME IInv, AllPaid, NEW t \in Tasks
               PROVE  task[t].attempt_no <= (IF MaxAttempts = 0 THEN 1 ELSE MaxAttempts)
                                            + recoveries[t] + retries[t]
    BY DEF ClaimBudget
  <2>1. /\ task[t].attempt_no \in Nat /\ recoveries[t] \in Nat /\ retries[t] \in Nat
        /\ attempts[t] \in Seq(Attempt) /\ MaxAttempts \in 0..20
    BY TaskLeaseAssumption DEF IInv, TypeOK, Row
  <2>2. /\ Cardinality(Granted(attempts[t])) \in Nat
        /\ 1 + Cardinality(Granted(attempts[t])) <= IF MaxAttempts = 0 THEN 1 ELSE MaxAttempts
    BY <2>1, GrantedIsSmall
  <2>3. Waits(task[t]) \in 0..1
    BY DEF Waits
  <2>4. task[t].attempt_no + Waits(task[t])
           <= 1 + Cardinality(Granted(attempts[t])) + recoveries[t] + retries[t]
    BY DEF AllPaid, Paid
  <2> QED
    BY <2>1, <2>2, <2>3, <2>4
<1> QED
  BY <1>1, <1>2, <1>3, Invariance, PTL DEF Spec

-----------------------------------------------------------------------------
(* TaskLease implements TaskLifecycle where leases are timely and requests  *)
(* are retries, one at a time.                                             *)

Timely ==
    /\ "late_lease" \notin Faults
    /\ ApiOps \subseteq {"retry"}
    /\ \A c, d \in Clients : c = d

\* The only attempt alive is the latest, its task is RUNNING and cannot be
\* recovered.
AliveIsCurrent ==
    \A t \in Tasks : \A n \in DOMAIN attempts[t] : Live(attempts[t][n]) =>
        /\ n = task[t].attempt_no
        /\ task[t].status = "RUNNING"
        /\ task[t].lease # "expired"

\* A retry in progress will still find the task finished.
RetriesFit ==
    \A c \in Clients : api[c] # NoRequest =>
        /\ api[c].op = "retry"
        /\ "status" \in api[c].columns
        /\ task[api[c].task].status \in RetriableStatus

LInv == AliveIsCurrent /\ RetriesFit

\* The refinement mapping, and what a step does to a task under it.
Alive(log) == {n \in DOMAIN log : Live(log[n])}
Life(row, log) == [status |-> row.status, attempt_no |-> row.attempt_no, executing |-> Alive(log)]
Moves(t) == \/ Life(task'[t], attempts'[t]) = Life(task[t], attempts[t])
            \/ Lifecycle!LifeStep(Life(task[t], attempts[t]), Life(task'[t], attempts'[t]))

\* Alive(log) is the latest attempt or empty; and empty unless RUNNING.
LEMMA AliveOne ==
    ASSUME IInv, AliveIsCurrent, NEW t \in Tasks
    PROVE  /\ Alive(attempts[t]) = {} \/ Alive(attempts[t]) = {task[t].attempt_no}
           /\ task[t].status # "RUNNING" \/ task[t].lease = "expired" => Alive(attempts[t]) = {}
BY DEF AliveIsCurrent, Alive

\* Replacing one attempt, whatever its type.
LEMMA AttemptsAfter ==
    ASSUME TypeOK, NEW t \in Tasks, NEW n \in DOMAIN attempts[t], NEW a, SetAttempt(t, n, a)
    PROVE  /\ \A u \in Tasks : DOMAIN attempts'[u] = DOMAIN attempts[u]
           /\ \A u \in Tasks : \A m \in DOMAIN attempts[u] :
                 attempts'[u][m] = IF u = t /\ m = n THEN a ELSE attempts[u][m]
<1>1. /\ attempts'[t] = [attempts[t] EXCEPT ![n] = a]
      /\ \A u \in Tasks \ {t} : attempts'[u] = attempts[u]
  BY DEF TypeOK, SetAttempt
<1> DEFINE s == attempts[t]
           s2 == attempts'[t]
<1>2. s = [m \in DOMAIN s |-> s[m]]
  <2>1. s \in [1 .. Len(s) -> Attempt]
    BY LenProperties DEF TypeOK
  <2> QED
    BY <2>1
<1>3. DOMAIN s2 = DOMAIN s /\ \A m \in DOMAIN s : s2[m] = IF m = n THEN a ELSE s[m]
  <2> HIDE DEF s
  <2>1. [s EXCEPT ![n] = a] = [m \in DOMAIN s |-> IF m = n THEN a ELSE s[m]]
    BY <1>2
  <2>2. s2 = [m \in DOMAIN s |-> IF m = n THEN a ELSE s[m]]
    BY <1>1, <2>1 DEF s
  <2> HIDE DEF s2
  <2> QED
    BY <2>2
<1> QED
  BY <1>1, <1>3

\* A step of one thread: it may end, and writes no row.
LEMMA ThreadMoves ==
    ASSUME IInv, LInv, NEW t \in Tasks, NEW n \in DOMAIN attempts[t], NEW a,
           SetAttempt(t, n, a), Live(a) => Live(attempts[t][n]), UNCHANGED <<task, api>>
    PROVE  LInv' /\ \A u \in Tasks : Moves(u)
<1>1. /\ \A u \in Tasks : DOMAIN attempts'[u] = DOMAIN attempts[u]
      /\ \A u \in Tasks : \A m \in DOMAIN attempts[u] :
            attempts'[u][m] = IF u = t /\ m = n THEN a ELSE attempts[u][m]
  BY AttemptsAfter DEF IInv
<1>2. LInv'
  BY <1>1 DEF LInv, AliveIsCurrent, RetriesFit
<1>3. ASSUME NEW u \in Tasks
      PROVE  Moves(u)
  <2>1. Alive(attempts'[u]) \subseteq Alive(attempts[u])
    BY <1>1 DEF Alive
  <2>2. Alive(attempts[u]) = {} \/ Alive(attempts[u]) = {task[u].attempt_no}
    BY AliveOne DEF LInv
  <2>3. \/ Alive(attempts'[u]) = Alive(attempts[u])
        \/ Alive(attempts[u]) # {} /\ Alive(attempts'[u]) = {}
    BY <2>1, <2>2
  <2> QED
    BY <2>3 DEF Moves, Life, Lifecycle!LifeStep, Lifecycle!Vanish
<1> QED
  BY <1>2, <1>3

\* A step that moves the lease or the schedule of one row.
LEMMA RowMoves ==
    ASSUME IInv, LInv, NEW t \in Tasks, api' = api,
           \A u \in Tasks : /\ task'[u].status = task[u].status
                            /\ task'[u].attempt_no = task[u].attempt_no
                            /\ Alive(attempts'[u]) = Alive(attempts[u])
                            /\ Alive(attempts[u]) # {} /\ task[u].lease # "expired"
                                  => task'[u].lease # "expired"
    PROVE  LInv' /\ \A u \in Tasks : Moves(u)
<1>1. AliveIsCurrent'
  <2>1. ASSUME NEW u \in Tasks, NEW n \in DOMAIN attempts'[u], Live(attempts'[u][n])
        PROVE  /\ n = task'[u].attempt_no
               /\ task'[u].status = "RUNNING"
               /\ task'[u].lease # "expired"
    <3>1. n \in Alive(attempts[u])
      BY <2>1 DEF Alive
    <3> QED
      BY <3>1 DEF LInv, AliveIsCurrent, Alive
  <2> QED
    BY <2>1 DEF AliveIsCurrent, Live
<1>2. RetriesFit'
  <2>1. \A c \in Clients : api[c] # NoRequest => api[c].task \in Tasks
    BY DEF IInv, TypeOK, Request
  <2> QED
    BY <2>1 DEF LInv, RetriesFit
<1> QED
  BY <1>1, <1>2 DEF LInv, Moves, Life

LEMMA HeartbeatCommitMoves ==
    ASSUME IInv, LInv, NEW t \in Tasks, NEW n \in DOMAIN attempts[t], HeartbeatCommit(t, n)
    PROVE  LInv' /\ \A u \in Tasks : Moves(u)
<1> DEFINE a == attempts[t][n]
           b == [a EXCEPT !.beat = IF Live(a) THEN "idle" ELSE "off"]
<1>1. /\ SetAttempt(t, n, b) /\ api' = api
      /\ task' = [task EXCEPT ![t].lease = "live"]
  BY DEF HeartbeatCommit
<1>2. a \in Attempt
  BY LenProperties DEF IInv, TypeOK
<1>3. Live(b) <=> Live(a)
  BY <1>2 DEF Live, Attempt
<1> HIDE DEF b
<1>4. \A u \in Tasks : Alive(attempts'[u]) = Alive(attempts[u])
  BY <1>1, <1>3, AttemptsAfter DEF IInv, Alive
<1>5. \A u \in Tasks : /\ task'[u].status = task[u].status
                       /\ task'[u].attempt_no = task[u].attempt_no
                       /\ task'[u].lease = "expired" => task[u].lease = "expired"
  BY <1>1 DEF IInv, TypeOK, Row
<1> QED
  BY <1>1, <1>4, <1>5, RowMoves

LEMMA LeaseLapseMoves ==
    ASSUME Timely, IInv, LInv, NEW t \in Tasks, LeaseLapse(t)
    PROVE  LInv' /\ \A u \in Tasks : Moves(u)
<1>1. ~LatestAlive(t)
  BY DEF Timely, LeaseLapse, Mishap
<1>2. Alive(attempts[t]) = {}
  BY <1>1 DEF LatestAlive, LInv, AliveIsCurrent, Alive
<1>3. /\ task' = [task EXCEPT ![t].lease = "expired"]
      /\ attempts' = attempts /\ api' = api
  BY DEF LeaseLapse
<1>4. \A u \in Tasks : /\ task'[u].status = task[u].status
                       /\ task'[u].attempt_no = task[u].attempt_no
                       /\ u # t => task'[u] = task[u]
  BY <1>3 DEF IInv, TypeOK, Row
<1> QED
  BY <1>2, <1>3, <1>4, RowMoves

LEMMA BecomesDueMoves ==
    ASSUME IInv, LInv, NEW t \in Tasks, BecomesDue(t)
    PROVE  LInv' /\ \A u \in Tasks : Moves(u)
<1>1. /\ task' = [task EXCEPT ![t].due = TRUE]
      /\ attempts' = attempts /\ api' = api
  BY DEF BecomesDue
<1>2. \A u \in Tasks : /\ task'[u].status = task[u].status
                       /\ task'[u].attempt_no = task[u].attempt_no
                       /\ task'[u].lease = task[u].lease
  BY <1>1 DEF IInv, TypeOK, Row
<1> QED
  BY <1>1, <1>2, RowMoves

\* The verdict of the one attempt alive becomes the status of its task.
LEMMA MarkCommitMoves ==
    ASSUME IInv, LInv, NEW t \in Tasks, NEW n \in DOMAIN attempts[t], MarkCommit(t, n)
    PROVE  LInv' /\ \A u \in Tasks : Moves(u)
<1> DEFINE a == attempts[t][n]
           b == [Ended(a) EXCEPT !.status = AttemptVerdict(a.mark)]
<1>1. /\ a.pc = "owned" /\ SetAttempt(t, n, b) /\ api' = api
      /\ task' = [task EXCEPT ![t] = Marked(@, a.mark)]
  BY DEF MarkCommit
<1>2. a \in Attempt /\ task[t] \in Row
  BY LenProperties DEF IInv, TypeOK
<1>3. Live(a) /\ ~Live(b)
  BY <1>1, <1>2 DEF Live, Attempt, Ended
<1>4. MarkFits(a, n)
  BY <1>1 DEF IInv, SoundAttempts, SoundAttempt
<1> HIDE DEF b
<1>5. n = task[t].attempt_no /\ task[t].status = "RUNNING"
  BY <1>3 DEF LInv, AliveIsCurrent
<1>6. /\ task'[t].status = a.mark
      /\ task'[t].attempt_no = task[t].attempt_no
      /\ \A u \in Tasks \ {t} : task'[u] = task[u]
  BY <1>1, <1>2 DEF Marked, Row, IInv, TypeOK
<1>7. /\ \A u \in Tasks : DOMAIN attempts'[u] = DOMAIN attempts[u]
      /\ \A u \in Tasks : \A m \in DOMAIN attempts[u] :
            attempts'[u][m] = IF u = t /\ m = n THEN b ELSE attempts[u][m]
  BY <1>1, AttemptsAfter DEF IInv
<1>8. /\ Alive(attempts[t]) = {task[t].attempt_no}
      /\ Alive(attempts'[t]) = {}
      /\ \A u \in Tasks \ {t} : Alive(attempts'[u]) = Alive(attempts[u])
  BY <1>3, <1>5, <1>7 DEF LInv, AliveIsCurrent, Alive
<1>9. AliveIsCurrent'
  <2>1. ASSUME NEW u \in Tasks, NEW m \in DOMAIN attempts'[u], Live(attempts'[u][m])
        PROVE  /\ m = task'[u].attempt_no
               /\ task'[u].status = "RUNNING"
               /\ task'[u].lease # "expired"
    <3>1. u # t
      BY <1>8, <2>1 DEF Alive
    <3> QED
      BY <1>6, <1>7, <2>1, <3>1 DEF LInv, AliveIsCurrent
  <2> QED
    BY <2>1 DEF AliveIsCurrent, Live
<1>10. RetriesFit'
  <2>1. ASSUME NEW c \in Clients, api[c] # NoRequest
        PROVE  api[c].task \in Tasks \ {t}
    <3>1. api[c].task \in Tasks /\ task[api[c].task].status \in RetriableStatus
      BY <2>1 DEF IInv, TypeOK, Request, LInv, RetriesFit
    <3> QED
      BY <1>5, <3>1 DEF RetriableStatus
  <2> QED
    BY <1>1, <1>6, <2>1 DEF LInv, RetriesFit
<1>11. Moves(t)
  <2> DEFINE x == Life(task[t], attempts[t])
             y == Life(task'[t], attempts'[t])
  <2>1. /\ x = [status |-> "RUNNING", attempt_no |-> task[t].attempt_no,
                executing |-> {task[t].attempt_no}]
        /\ y = [status |-> a.mark, attempt_no |-> task[t].attempt_no, executing |-> {}]
    BY <1>5, <1>6, <1>8 DEF Life
  <2> HIDE DEF x, y
  <2>2. Lifecycle!Conclude(x, y)
    <3>1. y = [x EXCEPT !.status = y.status, !.executing = {}]
      <4>1. y.status = a.mark
        BY <2>1
      <4>2. PICK z : z = [x EXCEPT !.status = a.mark, !.executing = {}]
        OBVIOUS
      <4>3. z.status = a.mark /\ z.executing = {} /\ z.attempt_no = task[t].attempt_no
        BY <2>1, <4>2
      <4>4. z = [f \in {"status", "attempt_no", "executing"} |-> z[f]]
        BY <2>1, <4>2
      <4> QED
        BY <2>1, <4>1, <4>2, <4>3, <4>4
    <3>2. /\ x.status = "RUNNING" /\ x.attempt_no = task[t].attempt_no
          /\ x.executing = {task[t].attempt_no} /\ y.status = a.mark
      BY <2>1
    <3> QED
      BY <1>4, <1>5, <3>1, <3>2 DEF Lifecycle!Conclude, MarkFits, Verdict
  <2> QED
    BY <2>2 DEF Moves, Lifecycle!LifeStep, x, y
<1>12. \A u \in Tasks \ {t} : Moves(u)
  BY <1>6, <1>8 DEF Moves, Life
<1> QED
  BY <1>9, <1>10, <1>11, <1>12 DEF LInv

\* Recovery puts back tasks without execution; a claim starts the next one.
LEMMA RunOnceMoves ==
    ASSUME IInv, LInv, NEW w \in Workers, NEW R \in SUBSET Tasks, NEW C \in SUBSET Tasks,
           RunOnce(w, R, C)
    PROVE  LInv' /\ \A u \in Tasks : Moves(u)
<1>1. ASSUME NEW u \in Tasks
      PROVE  /\ task[u] \in Row /\ attempts[u] \in Seq(Attempt)
             /\ task'[u] = IF u \in R THEN Recovered(task[u])
                           ELSE IF u \in C THEN Claimed(task[u], w) ELSE task[u]
             /\ attempts'[u] = IF u \in C THEN Append(attempts[u], NewAttempt(w)) ELSE attempts[u]
             /\ u \in R => task[u].status = "RUNNING" /\ task[u].lease = "expired"
             /\ u \in C => task[u].status \in ClaimableStatus
             /\ task[u].attempt_no = Len(attempts[u])
  BY DEF RunOnce, Expired, Claimable, IInv, TypeOK, AttemptsAreNumbered
<1>2. api' = api
  BY DEF RunOnce
<1>3. ASSUME NEW u \in Tasks
      PROVE  /\ Moves(u)
             /\ \A n \in Alive(attempts'[u]) : /\ n = task'[u].attempt_no
                                               /\ task'[u].status = "RUNNING"
                                               /\ task'[u].lease # "expired"
             /\ task[u].status \in RetriableStatus => task'[u] = task[u]
  <2>1. /\ Alive(attempts[u]) = {} \/ Alive(attempts[u]) = {task[u].attempt_no}
        /\ task[u].status # "RUNNING" \/ task[u].lease = "expired" => Alive(attempts[u]) = {}
    BY AliveOne DEF LInv
  <2>2. CASE u \in R
    <3>1. u \notin C
      BY <1>1, <2>2 DEF ClaimableStatus
    <3>2. Alive(attempts[u]) = {} /\ attempts'[u] = attempts[u]
      BY <1>1, <2>1, <2>2, <3>1
    <3>3. task'[u].status = "PENDING" /\ task'[u].attempt_no = task[u].attempt_no
      <4>1. task'[u] = Recovered(task[u]) /\ task[u] \in Row
        BY <1>1, <2>2
      <4> QED
        BY <4>1 DEF Recovered, Row
    <3>4. Lifecycle!Requeue(Life(task[u], attempts[u]), Life(task'[u], attempts'[u]))
      <4>1. task[u].status = "RUNNING"
        BY <1>1, <2>2
      <4>2. Life(task'[u], attempts'[u]) = [Life(task[u], attempts[u]) EXCEPT !.status = "PENDING"]
        <5> DEFINE x == Life(task[u], attempts[u])
        <5>1. /\ x = [status |-> task[u].status, attempt_no |-> task[u].attempt_no, executing |-> {}]
              /\ Life(task'[u], attempts'[u])
                    = [status |-> "PENDING", attempt_no |-> task[u].attempt_no, executing |-> {}]
          BY <4>1, <3>2, <3>3 DEF Life
        <5> HIDE DEF x
        <5>2. Life(task'[u], attempts'[u]) = [x EXCEPT !.status = "PENDING"]
          BY <5>1
        <5> QED
          BY <5>2 DEF x
      <4> QED
        BY <4>1, <4>2, <3>2 DEF Life, Lifecycle!Requeue
    <3> QED
      BY <1>1, <2>2, <3>2, <3>4 DEF Moves, Lifecycle!LifeStep, RetriableStatus
  <2>3. CASE u \notin R /\ u \in C
    <3>1. Alive(attempts[u]) = {}
      BY <1>1, <2>1, <2>3 DEF ClaimableStatus
    <3>2. /\ task'[u].status = "RUNNING" /\ task'[u].lease = "live"
          /\ task'[u].attempt_no = task[u].attempt_no + 1
      BY <1>1, <2>3 DEF Claimed, Row
    <3>0. attempts'[u] = Append(attempts[u], NewAttempt(w)) /\ attempts[u] \in Seq(Attempt)
      BY <1>1, <2>3
    <3>3. /\ Len(attempts[u]) \in Nat /\ DOMAIN attempts[u] = 1 .. Len(attempts[u])
          /\ DOMAIN attempts'[u] = 1 .. (Len(attempts[u]) + 1)
          /\ \A n \in DOMAIN attempts[u] : attempts'[u][n] = attempts[u][n]
          /\ attempts'[u][Len(attempts[u]) + 1] = NewAttempt(w)
      <4>1. NewAttempt(w) \in Attempt
        BY DEF NewAttempt, Attempt, AttemptStatus, ThreadPC
      <4> QED
        BY <3>0, <4>1, AppendProperties, LenProperties
    <3>4. Live(NewAttempt(w))
      BY DEF Live, NewAttempt
    <3>5. Alive(attempts'[u]) = {task[u].attempt_no + 1}
      <4> DEFINE k == Len(attempts[u])
      <4>1. \A n \in 1 .. k : ~Live(attempts'[u][n])
        BY <3>1, <3>3 DEF Alive
      <4>2. Live(attempts'[u][k + 1]) /\ k + 1 \in DOMAIN attempts'[u]
        BY <3>3, <3>4
      <4>3. \A n \in DOMAIN attempts'[u] : n \in 1 .. k \/ n = k + 1
        BY <3>3
      <4>4. Alive(attempts'[u]) = {k + 1}
        BY <4>1, <4>2, <4>3 DEF Alive
      <4> QED
        BY <1>1, <4>4
    <3>6. Lifecycle!Begin(Life(task[u], attempts[u]), Life(task'[u], attempts'[u]))
      <4>1. task[u].status \in ClaimableStatus
        BY <1>1, <2>3
      <4> QED
        BY <4>1, <3>1, <3>2, <3>5 DEF Life, Lifecycle!Begin, Lifecycle!ClaimableStatus, ClaimableStatus
    <3> QED
      BY <1>1, <2>3, <3>2, <3>5, <3>6 DEF Moves, Lifecycle!LifeStep, RetriableStatus, ClaimableStatus
  <2>4. CASE u \notin R /\ u \notin C
    BY <1>1, <2>4 DEF Moves, LInv, AliveIsCurrent, Alive
  <2> QED
    BY <2>2, <2>3, <2>4
<1>4. AliveIsCurrent'
  BY <1>3 DEF AliveIsCurrent, Alive
<1>5. RetriesFit'
  <2>1. \A c \in Clients : api[c] # NoRequest => api[c].task \in Tasks
    BY DEF IInv, TypeOK, Request
  <2> QED
    BY <1>2, <1>3, <2>1 DEF LInv, RetriesFit
<1> QED
  BY <1>3, <1>4, <1>5 DEF LInv

LEMMA CrashMoves ==
    ASSUME IInv, LInv, NEW w \in Workers, Crash(w)
    PROVE  LInv' /\ \A u \in Tasks : Moves(u)
<1>1. task' = task /\ api' = api
  BY DEF Crash
<1>2. ASSUME NEW u \in Tasks
      PROVE  attempts'[u] = [n \in DOMAIN attempts[u] |->
                   IF OnWorker(w, attempts[u][n]) THEN Lost(attempts[u][n]) ELSE attempts[u][n]]
  BY DEF Crash
<1>3. ASSUME NEW u \in Tasks
      PROVE  Alive(attempts'[u]) \subseteq Alive(attempts[u])
  <2>1. \A n \in DOMAIN attempts[u] : attempts[u][n] \in Attempt
    BY LenProperties DEF IInv, TypeOK
  <2>2. ASSUME NEW n \in DOMAIN attempts[u], ~Live(attempts[u][n])
        PROVE  ~Live(Lost(attempts[u][n]))
    <3>1. attempts[u][n] \in Attempt /\ Lost(attempts[u][n]) = [attempts[u][n] EXCEPT !.beat = "off"]
      BY <2>1, <2>2 DEF Lost
    <3> QED
      BY <2>2, <3>1 DEF Live, Attempt
  <2>3. ASSUME NEW n \in Alive(attempts'[u])
        PROVE  n \in Alive(attempts[u])
    <3>1. /\ n \in DOMAIN attempts[u] /\ Live(attempts'[u][n])
          /\ attempts'[u][n] = IF OnWorker(w, attempts[u][n]) THEN Lost(attempts[u][n])
                               ELSE attempts[u][n]
      BY <1>2, <2>3 DEF Alive
    <3> QED
      BY <2>2, <3>1 DEF Alive
  <2> QED
    BY <2>3
<1>4. LInv'
  BY <1>1, <1>3 DEF LInv, AliveIsCurrent, RetriesFit, Alive
<1>5. ASSUME NEW u \in Tasks
      PROVE  Moves(u)
  <2>1. Alive(attempts[u]) = {} \/ Alive(attempts[u]) = {task[u].attempt_no}
    BY AliveOne DEF LInv
  <2>2. \/ Alive(attempts'[u]) = Alive(attempts[u])
        \/ Alive(attempts[u]) # {} /\ Alive(attempts'[u]) = {}
    BY <1>3, <2>1
  <2> QED
    BY <1>1, <2>2 DEF Moves, Life, Lifecycle!LifeStep, Lifecycle!Vanish
<1> QED
  BY <1>4, <1>5

LEMMA ApiReadMoves ==
    ASSUME Timely, IInv, LInv, NEW c \in Clients, NEW t \in Tasks, NEW op \in ApiOps,
           ApiRead(c, t, op)
    PROVE  LInv' /\ \A u \in Tasks : Moves(u)
<1>1. op = "retry"
  BY DEF Timely
<1>2. /\ Dirty(op, task[t]) # {} /\ UNCHANGED <<task, attempts>>
      /\ api' = [api EXCEPT ![c] = [op |-> op, task |-> t, columns |-> Dirty(op, task[t])]]
  BY DEF ApiRead
<1>3. task[t].status \in RetriableStatus
  BY <1>1, <1>2 DEF Dirty, OpSets, RetrySets
<1>4. "status" \in Dirty(op, task[t])
  BY <1>1, <1>3 DEF Dirty, OpSets, RetrySets, OpValue, RetryValue, RetriableStatus
<1>5. RetriesFit'
  BY <1>1, <1>2, <1>3, <1>4 DEF LInv, RetriesFit, IInv, TypeOK
<1> QED
  BY <1>2, <1>5 DEF LInv, AliveIsCurrent, Moves

LEMMA ApiCommitMoves ==
    ASSUME Timely, IInv, LInv, NEW c \in Clients, ApiCommit(c)
    PROVE  LInv' /\ \A u \in Tasks : Moves(u)
<1> DEFINE r == api[c]
           t == r.task
           row == Updated(task[t], r.columns, OpValue(r.op))
<1>1. /\ r # NoRequest /\ attempts' = attempts
      /\ task' = [task EXCEPT ![t] = row]
      /\ api' = [api EXCEPT ![c] = NoRequest]
  BY DEF ApiCommit
<1>2. /\ t \in Tasks /\ task[t] \in Row /\ r.op = "retry" /\ "status" \in r.columns
      /\ task[t].status \in RetriableStatus
  BY <1>1 DEF IInv, TypeOK, Request, LInv, RetriesFit
<1>3. row.status = "PENDING" /\ row.attempt_no = task[t].attempt_no
  BY <1>2 DEF Updated, OpValue, RetryValue, Row
<1>4. Alive(attempts[t]) = {}
  BY <1>2, AliveOne DEF LInv, RetriableStatus
<1> HIDE DEF row, t, r
<1>5. task'[t] = row /\ \A u \in Tasks \ {t} : task'[u] = task[u]
  BY <1>1, <1>2 DEF IInv, TypeOK
<1>6. AliveIsCurrent'
  BY <1>1, <1>4, <1>5 DEF LInv, AliveIsCurrent, Alive
<1>7. RetriesFit'
  BY <1>1 DEF Timely, RetriesFit, IInv, TypeOK
<1>8. Lifecycle!Rerun(Life(task[t], attempts[t]), Life(task'[t], attempts'[t]))
  <2>1. Life(task'[t], attempts'[t]) = [Life(task[t], attempts[t]) EXCEPT !.status = "PENDING"]
    <3> DEFINE x == Life(task[t], attempts[t])
    <3>1. /\ x = [status |-> task[t].status, attempt_no |-> task[t].attempt_no, executing |-> {}]
          /\ Life(task'[t], attempts'[t])
                = [status |-> "PENDING", attempt_no |-> task[t].attempt_no, executing |-> {}]
      BY <1>1, <1>3, <1>4, <1>5 DEF Life
    <3> HIDE DEF x
    <3>2. Life(task'[t], attempts'[t]) = [x EXCEPT !.status = "PENDING"]
      BY <3>1
    <3> QED
      BY <3>2 DEF x
  <2> QED
    BY <1>2, <1>4, <2>1 DEF Life, Lifecycle!Rerun, Lifecycle!RetriableStatus, RetriableStatus
<1>9. \A u \in Tasks : Moves(u)
  BY <1>1, <1>5, <1>8 DEF Moves, Lifecycle!LifeStep
<1> QED
  BY <1>6, <1>7, <1>9 DEF LInv

LEMMA NextMoves ==
    ASSUME Timely, IInv, LInv, [Next]_vars
    PROVE  LInv' /\ \A u \in Tasks : Moves(u)
<1>1. ASSUME NEW w \in Workers, NEW R \in SUBSET Tasks, NEW C \in SUBSET Tasks, RunOnce(w, R, C)
      PROVE  LInv' /\ \A u \in Tasks : Moves(u)
  BY <1>1, RunOnceMoves
<1>2. ASSUME NEW t \in Tasks, NEW n \in DOMAIN attempts[t],
             \/ Start(t, n)
             \/ \E verdict \in Verdict : HandlerEnds(t, n, verdict)
             \/ MarkRead(t, n)
             \/ MarkError(t, n)
             \/ HeartbeatRead(t, n)
             \/ HeartbeatDies(t, n)
      PROVE  LInv' /\ \A u \in Tasks : Moves(u)
  <2> DEFINE a == attempts[t][n]
  <2>1. a \in Attempt
    BY LenProperties DEF IInv, TypeOK
  <2>2. CASE Start(t, n)
    <3> DEFINE b == IF t \in Handles[a.worker]
                    THEN [a EXCEPT !.pc = "running", !.beat = "idle"]
                    ELSE [a EXCEPT !.pc = "marking", !.mark = "FAILED"]
    <3>1. SetAttempt(t, n, b) /\ a.pc = "queued" /\ UNCHANGED <<task, api>>
      BY <2>2 DEF Start
    <3>2. Live(a)
      BY <3>1 DEF Live
    <3> HIDE DEF a, b
    <3> QED
      BY <3>1, <3>2, ThreadMoves DEF a
  <2>3. CASE \E verdict \in Verdict : HandlerEnds(t, n, verdict)
    <3>1. PICK verdict \in Verdict : HandlerEnds(t, n, verdict)
      BY <2>3
    <3>2. Live(a)
      BY <3>1 DEF HandlerEnds, Live
    <3> QED
      BY <3>1, <3>2, ThreadMoves DEF HandlerEnds
  <2>4. CASE MarkRead(t, n) \/ MarkError(t, n)
    <3>1. Live(a)
      BY <2>4 DEF MarkRead, MarkError, Live
    <3>2. \E b : SetAttempt(t, n, b) /\ UNCHANGED <<task, api>>
      BY <2>4 DEF MarkRead, MarkError
    <3> QED
      BY <3>1, <3>2, ThreadMoves
  <2>5. CASE HeartbeatRead(t, n)
    <3> DEFINE b == IF Owns(t, n)
                    THEN [a EXCEPT !.beat = "read", !.signal = @ \/ task[t].cancel]
                    ELSE [a EXCEPT !.beat = "off", !.signal = TRUE]
    <3>1. SetAttempt(t, n, b) /\ UNCHANGED <<task, api>>
      BY <2>5 DEF HeartbeatRead
    <3>2. Live(b) => Live(a)
      BY <2>1 DEF Live, Attempt
    <3> HIDE DEF a, b
    <3> QED
      BY <3>1, <3>2, ThreadMoves DEF a
  <2>6. CASE HeartbeatDies(t, n)
    <3> DEFINE b == [a EXCEPT !.beat = "off"]
    <3>1. SetAttempt(t, n, b) /\ UNCHANGED <<task, api>>
      BY <2>6 DEF HeartbeatDies
    <3>2. Live(b) => Live(a)
      BY <2>1 DEF Live, Attempt
    <3> HIDE DEF a, b
    <3> QED
      BY <3>1, <3>2, ThreadMoves DEF a
  <2> QED
    BY <1>2, <2>2, <2>3, <2>4, <2>5, <2>6
<1>3. ASSUME NEW t \in Tasks, NEW n \in DOMAIN attempts[t], MarkCommit(t, n)
      PROVE  LInv' /\ \A u \in Tasks : Moves(u)
  BY <1>3, MarkCommitMoves
<1>4. ASSUME NEW t \in Tasks, NEW n \in DOMAIN attempts[t], HeartbeatCommit(t, n)
      PROVE  LInv' /\ \A u \in Tasks : Moves(u)
  BY <1>4, HeartbeatCommitMoves
<1>5. ASSUME NEW t \in Tasks, LeaseLapse(t) \/ BecomesDue(t)
      PROVE  LInv' /\ \A u \in Tasks : Moves(u)
  BY <1>5, LeaseLapseMoves, BecomesDueMoves
<1>6. ASSUME NEW w \in Workers, Crash(w)
      PROVE  LInv' /\ \A u \in Tasks : Moves(u)
  BY <1>6, CrashMoves
<1>7. ASSUME NEW c \in Clients, NEW t \in Tasks, NEW op \in ApiOps, ApiRead(c, t, op)
      PROVE  LInv' /\ \A u \in Tasks : Moves(u)
  BY <1>7, ApiReadMoves
<1>8. ASSUME NEW c \in Clients, ApiCommit(c)
      PROVE  LInv' /\ \A u \in Tasks : Moves(u)
  BY <1>8, ApiCommitMoves
<1>9. CASE UNCHANGED vars
  BY <1>9 DEF vars, LInv, AliveIsCurrent, RetriesFit, Moves
<1> QED
  BY <1>1, <1>2, <1>3, <1>4, <1>5, <1>6, <1>7, <1>8, <1>9 DEF Next, Idle

\* Every task goes through the lifecycle of TaskLifecycle: one execution at a
\* time, each begun from a status that waits for one, and its verdict the next
\* status (claim_tasks, recover_expired_running_tasks, mark_*, retry_task),
\* however workers crash, verdicts fail to be written and heartbeats end.
\* Assumed: no lease expires under an execution that is alive, and requests are
\* retries that do not overlap.
THEOREM ImplementsLifecycle ==
    ASSUME Timely
    PROVE  Spec => LifecycleSpec
<1>1. Init => LInv /\ Lifecycle!LifeInit
  <2> SUFFICES ASSUME Init
               PROVE  LInv /\ Lifecycle!LifeInit
    OBVIOUS
  <2>1. \A t \in Tasks : attempts[t] = <<>> /\ task[t] = NewRow
    BY DEF Init
  <2>2. \A t \in Tasks : DOMAIN attempts[t] = {}
    BY <2>1
  <2>3. LInv
    BY <2>2 DEF Init, LInv, AliveIsCurrent, RetriesFit
  <2>4. \A t \in Tasks : {n \in DOMAIN attempts[t] : Live(attempts[t][n])} = {}
    BY <2>2
  <2> QED
    BY <2>1, <2>3, <2>4 DEF Lifecycle!LifeInit, NewRow
<1>2. IInv /\ LInv /\ [Next]_vars => LInv'
  BY NextMoves
<1>3. IInv /\ LInv /\ [Next]_vars => Lifecycle!LifeNext
  <2> SUFFICES ASSUME IInv, LInv, [Next]_vars
               PROVE  Lifecycle!LifeNext
    OBVIOUS
  <2>1. \A u \in Tasks : Moves(u)
    BY NextMoves
  <2> QED
    BY <2>1 DEF Lifecycle!LifeNext, Moves, Life, Alive
<1> QED
  BY <1>1, <1>2, <1>3, Invariance, PTL DEF Spec, LifecycleSpec, Lifecycle!LifeSpec
=============================================================================
