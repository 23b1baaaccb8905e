-------------------------- MODULE TaskSubmit_proofs --------------------------
(* One task for each key, and runs in their order, for any number of keys,  *)
(* clients, schedules and workers, and any times and intervals.             *)
EXTENDS TaskSubmit, SequenceTheorems, FunctionTheorems, FiniteSetTheorems, TLAPS

\* i is the task with key k.
IsTask(i, k) == i \in TaskIds /\ task[i] = k

UniqueKeys == \A i, j \in TaskIds : task[i] = task[j] => i = j

AnswersTrue == \A a \in answered : IsTask(a.id, a.key)

\* A request that has found a task has found that of its key.
RequestTrue(c) ==
    request[c].open =>
        /\ request[c].key \in AskedKeys
        /\ request[c].seen # NoTask => IsTask(request[c].seen, request[c].key)

\* A tick holds only schedules that are due by its clock; the tasks it has found
\* are those of their runs, which nobody advances while it holds them.
TickTrue(w) ==
    /\ tick[w].phase # "claimed" => Claimed(w) = {}
    /\ \A s \in Claimed(w) :
          /\ schedule[s].next_run_at <= tick[w].now
          /\ tick[w].seen[s] # NoTask => IsTask(tick[w].seen[s], RunKey(s))

OneHolder == \A v, w \in Workers : v # w => Claimed(v) \cap Claimed(w) = {}

\* The last task of a schedule is that of its last run, and all runs are before
\* the next one.
RunsTrue(s) ==
    /\ runs[s] # <<>> => IsTask(schedule[s].last_task_id, <<s, runs[s][Len(runs[s])]>>)
    /\ \A i \in DOMAIN runs[s] : runs[s][i] < schedule[s].next_run_at
    /\ \A i, j \in DOMAIN runs[s] : i < j => runs[s][i] < runs[s][j]

IInv ==
    /\ TypeOK
    /\ UniqueKeys
    /\ AnswersTrue
    /\ \A c \in Clients : RequestTrue(c)
    /\ \A w \in Workers : TickTrue(w)
    /\ OneHolder
    /\ \A s \in Schedules : RunsTrue(s)

-----------------------------------------------------------------------------
(* Lemmas.                                                                 *)

LEMMA AppendRun ==
  ASSUME NEW r \in Seq(Nat), NEW n \in Nat
  PROVE  /\ Append(r, n) \in Seq(Nat) /\ Append(r, n) # <<>>
         /\ Len(Append(r, n)) = Len(r) + 1 /\ Len(r) \in Nat
         /\ \A i \in 1..Len(r) : Append(r, n)[i] = r[i]
         /\ Append(r, n)[Len(r) + 1] = n
<1>1. Len(r) \in Nat
  BY LenProperties
<1>2. /\ Append(r, n) \in Seq(Nat) /\ Append(r, n) # <<>>
      /\ Len(Append(r, n)) = Len(r) + 1
      /\ \A i \in 1..Len(r) : Append(r, n)[i] = r[i]
      /\ Append(r, n)[Len(r) + 1] = n
  BY AppendProperties
<1>3. QED
  BY <1>1, <1>2

LEMMA SplitLast == \A m \in Nat : \A i \in 1..(m + 1) : i \in 1..m \/ i = m + 1
  OBVIOUS

LEMMA TaskRows ==
  ASSUME TypeOK
  PROVE  /\ task \in Seq(AllKeys) /\ Len(task) \in Nat /\ TaskIds = 1..Len(task)
         /\ \A i \in TaskIds : i \in Nat /\ i # NoTask /\ task[i] \in AllKeys
<1>1. task \in Seq(AllKeys) /\ TaskIds = 1..Len(task)
  BY DEF TypeOK, TaskIds
<1>2. Len(task) \in Nat
  BY <1>1, LenProperties
<1>3. QED
  BY <1>1, <1>2, ElementOfSeq DEF NoTask

\* What a lookup finds is the task of the key.
LEMMA LookupFinds ==
  ASSUME TypeOK, NEW k
  PROVE  Lookup(k) \in Nat /\ (Lookup(k) # NoTask => IsTask(Lookup(k), k))
<1>1. CASE \E i \in TaskIds : task[i] = k
  <2> DEFINE found == CHOOSE i \in TaskIds : task[i] = k
  <2>1. found \in TaskIds /\ task[found] = k
    BY <1>1
  <2>2. Lookup(k) = found
    BY <1>1 DEF Lookup
  <2> HIDE DEF found
  <2>3. QED
    BY <2>1, <2>2, TaskRows DEF IsTask
<1>2. CASE ~\E i \in TaskIds : task[i] = k
  BY <1>2 DEF Lookup, NoTask
<1>3. QED
  BY <1>1, <1>2

LEMMA NothingOpen ==
  /\ NoRequest \in Request /\ ~NoRequest.open
  /\ NoTick \in Tick /\ NoTick.phase = "idle" /\ NoTick.claimed = <<>> /\ DOMAIN NoTick.claimed = {}
<1>1. NoRequest \in Request /\ ~NoRequest.open
  BY DEF NoRequest, Request, NoTask
<1>2. <<>> \in Seq(Schedules) /\ [s \in Schedules |-> NoTask] \in [Schedules -> Nat]
  BY EmptySeq DEF NoTask
<1>3. DOMAIN NoTick.claimed = {} /\ NoTick.claimed = <<>> /\ NoTick.phase = "idle"
  BY DEF NoTick
<1>4. QED
  BY <1>1, <1>2, <1>3 DEF NoTick, Tick

LEMMA ClaimedSchedules ==
  ASSUME TypeOK, NEW w \in Workers
  PROVE  Claimed(w) \subseteq Schedules
<1>1. tick[w].claimed \in Seq(Schedules)
  BY DEF TypeOK, Tick
<1>2. QED
  BY <1>1, LenProperties, ElementOfSeq DEF Claimed

LEMMA InitInv == Init => IInv
<1> SUFFICES ASSUME Init PROVE IInv
  OBVIOUS
<1>1. task = <<>> /\ Len(task) = 0 /\ task \in Seq(AllKeys) /\ TaskIds = {}
  BY EmptySeq DEF Init, TaskIds
<1>2. TypeOK
  <2>1. request \in [Clients -> Request] /\ tick \in [Workers -> Tick]
    BY NothingOpen DEF Init
  <2>2. schedule \in [Schedules -> Schedule]
    BY TaskSubmitAssumption DEF Init, Schedule, NoTask
  <2>3. \A s \in Schedules : schedule[s].last_task_id \in TaskIds \cup {NoTask}
    BY DEF Init
  <2>4. runs \in [Schedules -> Seq(Nat)]
    BY EmptySeq DEF Init
  <2>5. QED
    BY <1>1, <2>1, <2>2, <2>3, <2>4 DEF Init, TypeOK
<1>3. UniqueKeys /\ AnswersTrue
  BY <1>1 DEF UniqueKeys, AnswersTrue, Init
<1>4. \A c \in Clients : RequestTrue(c)
  BY NothingOpen DEF Init, RequestTrue
<1>5. \A w \in Workers : Claimed(w) = {}
  BY NothingOpen DEF Init, Claimed
<1>6. (\A w \in Workers : TickTrue(w)) /\ OneHolder
  BY <1>5 DEF TickTrue, OneHolder
<1>7. \A s \in Schedules : RunsTrue(s)
  <2>1. \A s \in Schedules : runs[s] = <<>> /\ DOMAIN runs[s] = {}
    BY DEF Init
  <2>2. QED
    BY <2>1 DEF RunsTrue
<1>8. QED
  BY <1>2, <1>3, <1>4, <1>6, <1>7 DEF IInv

-----------------------------------------------------------------------------
(* The steps of requests.                                                  *)

\* A request opens or is dropped.
LEMMA RequestStep ==
  ASSUME IInv, NEW c \in Clients, NEW x \in Request,
         request' = [request EXCEPT ![c] = x],
         x.open => x.key \in AskedKeys /\ (x.seen # NoTask => IsTask(x.seen, x.key)),
         UNCHANGED <<task, answered, schedule, tick, runs, now>>, mishaps' \in Nat
  PROVE  IInv'
<1> USE DEF IInv
<1>1. TaskIds' = TaskIds /\ (\A i, k : IsTask(i, k)' <=> IsTask(i, k))
  BY DEF TaskIds, IsTask
<1>2. TypeOK'
  BY <1>1 DEF TypeOK
<1>3. UniqueKeys' /\ AnswersTrue'
  BY <1>1 DEF UniqueKeys, AnswersTrue
<1>4. \A d \in Clients : RequestTrue(d)'
  BY <1>1 DEF RequestTrue, TypeOK
<1>5. (\A w \in Workers : TickTrue(w)') /\ OneHolder'
  <2>1. \A w \in Workers : Claimed(w)' = Claimed(w)
    BY DEF Claimed
  <2>2. \A s : RunKey(s)' = RunKey(s)
    BY DEF RunKey
  <2>3. \A w \in Workers : TickTrue(w)'
    BY <1>1, <2>1, <2>2 DEF TickTrue
  <2>4. OneHolder'
    BY <2>1 DEF OneHolder
  <2>5. QED
    BY <2>3, <2>4
<1>6. \A s \in Schedules : RunsTrue(s)'
  BY <1>1 DEF RunsTrue
<1>7. QED
  BY <1>2, <1>3, <1>4, <1>5, <1>6

LEMMA SubmitInv ==
  ASSUME IInv, NEW c \in Clients, NEW k \in AskedKeys, Submit(c, k) PROVE IInv'
<1> DEFINE x == [open |-> TRUE, key |-> k, seen |-> Lookup(k)]
<1>1. Lookup(k) \in Nat /\ (Lookup(k) # NoTask => IsTask(Lookup(k), k))
  BY LookupFinds DEF IInv
<1>2. x \in Request /\ x.open /\ x.key = k /\ x.seen = Lookup(k)
  BY <1>1 DEF Request
<1>3. request' = [request EXCEPT ![c] = x] /\ mishaps' \in Nat
  BY DEF Submit, IInv, TypeOK
<1> HIDE DEF x
<1>4. QED
  BY <1>1, <1>2, <1>3, RequestStep DEF Submit

LEMMA RequestEndsInv ==
  ASSUME IInv, NEW c \in Clients, Conflict(c) \/ RequestFails(c) PROVE IInv'
<1>1. request' = [request EXCEPT ![c] = NoRequest] /\ mishaps' \in Nat
  BY DEF Conflict, RequestFails, IInv, TypeOK
<1>2. QED
  BY <1>1, NothingOpen, RequestStep DEF Conflict, RequestFails

\* Tasks that are inserted leave those that are there.
LEMMA TasksGrow ==
  ASSUME TypeOK, Len(task') \in Nat, Len(task) <= Len(task'),
         \A i \in TaskIds : task'[i] = task[i]
  PROVE  /\ TaskIds \subseteq TaskIds'
         /\ \A i, k : IsTask(i, k) => IsTask(i, k)'
<1>1. TaskIds \subseteq TaskIds'
  BY TaskRows DEF TaskIds
<1>2. QED
  BY <1>1 DEF IsTask

LEMMA AnswerInv == ASSUME IInv, NEW c \in Clients, Answer(c) PROVE IInv'
<1> USE DEF IInv
<1> DEFINE r == request[c]
<1> DEFINE id == IF r.seen = NoTask THEN Len(task) + 1 ELSE r.seen
<1>1. /\ r.key \in AskedKeys /\ r.key \in AllKeys
      /\ r.seen # NoTask => IsTask(r.seen, r.key)
      /\ Len(task) \in Nat
  BY TaskRows DEF Answer, RequestTrue, AllKeys
<1>2. /\ task' \in Seq(AllKeys) /\ Len(task') \in Nat /\ Len(task) <= Len(task')
      /\ \A i \in TaskIds : task'[i] = task[i]
      /\ id \in 1..Len(task') /\ task'[id] = r.key
      /\ \A i \in 1..Len(task') : i \in TaskIds \/ (r.seen = NoTask /\ i = id)
  <2>1. CASE r.seen = NoTask
    <3>1. task' = Append(task, r.key)
      BY <2>1 DEF Answer
    <3>2. /\ task' \in Seq(AllKeys) /\ Len(task') = Len(task) + 1
          /\ \A i \in 1..Len(task) : task'[i] = task[i]
          /\ task'[Len(task) + 1] = r.key
      BY <1>1, <3>1, TaskRows, AppendProperties
    <3>3. QED
      BY <1>1, <2>1, <3>2 DEF TaskIds
  <2>2. CASE r.seen # NoTask
    <3>1. task' = task
      BY <2>2 DEF Answer
    <3>2. QED
      BY <1>1, <2>2, <3>1, TaskRows DEF IsTask
  <2>3. QED
    BY <2>1, <2>2
<1>3. TaskIds \subseteq TaskIds' /\ \A i, k : IsTask(i, k) => IsTask(i, k)'
  BY <1>2, TasksGrow
<1>4. answered' = answered \cup {[key |-> r.key, id |-> id]}
  BY DEF Answer
<1>5. r.seen = NoTask => \A i \in TaskIds : task[i] # r.key
  BY DEF Answer, Insertable
<1>6. TaskIds' = 1..Len(task')
  BY DEF TaskIds
<1> HIDE DEF id
<1>7. TypeOK'
  <2>1. answered' \subseteq [key : AskedKeys, id : TaskIds']
    BY <1>1, <1>2, <1>3, <1>4, <1>6 DEF TypeOK
  <2>2. request' \in [Clients -> Request]
    BY NothingOpen DEF Answer, TypeOK
  <2>3. \A s \in Schedules : schedule'[s].last_task_id \in TaskIds' \cup {NoTask}
    BY <1>3 DEF Answer, TypeOK
  <2>4. QED
    BY <1>2, <2>1, <2>2, <2>3 DEF Answer, TypeOK
<1>8. UniqueKeys'
  <2> SUFFICES ASSUME NEW i \in TaskIds', NEW j \in TaskIds', task'[i] = task'[j]
               PROVE  i = j
    BY DEF UniqueKeys
  <2>1. CASE i \in TaskIds /\ j \in TaskIds
    BY <2>1, <1>2 DEF UniqueKeys
  <2>2. CASE i \notin TaskIds \/ j \notin TaskIds
    BY <2>2, <1>2, <1>5, <1>6
  <2>3. QED
    BY <2>1, <2>2
<1>9. AnswersTrue'
  <2>1. \A a \in answered' : a \in answered \/ (a.id = id /\ a.key = r.key)
    BY <1>4
  <2>2. id \in TaskIds' /\ task'[id] = r.key
    BY <1>2, <1>6
  <2>3. \A a \in answered : IsTask(a.id, a.key)'
    BY <1>3 DEF AnswersTrue
  <2>4. QED
    BY <2>1, <2>2, <2>3 DEF AnswersTrue, IsTask
<1>10. \A d \in Clients : RequestTrue(d)'
  BY <1>3, NothingOpen DEF RequestTrue, Answer, TypeOK
<1>11. (\A w \in Workers : TickTrue(w)') /\ OneHolder'
  <2>1. tick' = tick /\ schedule' = schedule
    BY DEF Answer
  <2>2. \A w \in Workers : Claimed(w)' = Claimed(w)
    BY <2>1 DEF Claimed
  <2>3. \A s : RunKey(s)' = RunKey(s)
    BY <2>1 DEF RunKey
  <2>4. \A w \in Workers : TickTrue(w)'
    BY <1>3, <2>1, <2>2, <2>3 DEF TickTrue
  <2>5. OneHolder'
    BY <2>2 DEF OneHolder
  <2>6. QED
    BY <2>4, <2>5
<1>12. \A s \in Schedules : RunsTrue(s)'
  BY <1>3 DEF RunsTrue, Answer
<1>13. QED
  BY <1>7, <1>8, <1>9, <1>10, <1>11, <1>12

-----------------------------------------------------------------------------
(* The steps of ticks.                                                     *)

\* What a tick holds whose record is x.
Holds(x) == {x.claimed[i] : i \in DOMAIN x.claimed}

\* A tick goes on or is dropped, and changes no row.
LEMMA TickStep ==
  ASSUME IInv, NEW w \in Workers, NEW x \in Tick,
         tick' = [tick EXCEPT ![w] = x],
         UNCHANGED <<task, request, answered, schedule, runs>>,
         now' \in Nat, mishaps' \in Nat,
         x.phase # "claimed" => Holds(x) = {},
         \A s \in Holds(x) :
            /\ schedule[s].next_run_at <= x.now
            /\ x.seen[s] # NoTask => IsTask(x.seen[s], RunKey(s)),
         \A v \in Workers \ {w} : Claimed(v) \cap Holds(x) = {}
  PROVE  IInv'
<1> USE DEF IInv
<1>1. /\ TaskIds' = TaskIds /\ (\A i, k : IsTask(i, k)' <=> IsTask(i, k))
      /\ \A s : RunKey(s)' = RunKey(s)
  BY DEF TaskIds, IsTask, RunKey
<1>2. TypeOK'
  BY <1>1 DEF TypeOK
<1>3. UniqueKeys' /\ AnswersTrue'
  BY <1>1 DEF UniqueKeys, AnswersTrue
<1>4. \A d \in Clients : RequestTrue(d)'
  BY <1>1 DEF RequestTrue
<1>5. tick'[w] = x /\ \A v \in Workers \ {w} : tick'[v] = tick[v]
  BY DEF TypeOK
<1>6. Claimed(w)' = Holds(x) /\ \A v \in Workers \ {w} : Claimed(v)' = Claimed(v)
  BY <1>5 DEF Claimed, Holds
<1>7. TickTrue(w)'
  BY <1>1, <1>5, <1>6 DEF TickTrue
<1>8. \A v \in Workers \ {w} : TickTrue(v)'
  BY <1>1, <1>5, <1>6 DEF TickTrue
<1>9. OneHolder'
  <2> SUFFICES ASSUME NEW u \in Workers, NEW v \in Workers, u # v
               PROVE  Claimed(u)' \cap Claimed(v)' = {}
    BY DEF OneHolder
  <2>1. CASE u = w
    BY <2>1, <1>6
  <2>2. CASE v = w
    BY <2>2, <1>6
  <2>3. CASE u # w /\ v # w
    BY <2>3, <1>6 DEF OneHolder
  <2>4. QED
    BY <2>1, <2>2, <2>3
<1>10. \A s \in Schedules : RunsTrue(s)'
  BY <1>1 DEF RunsTrue
<1>11. QED
  BY <1>2, <1>3, <1>4, <1>7, <1>8, <1>9, <1>10

LEMMA TickDropInv ==
  ASSUME IInv, NEW w \in Workers, TickConflict(w) \/ TickFails(w) PROVE IInv'
<1>1. tick' = [tick EXCEPT ![w] = NoTick] /\ now' \in Nat /\ mishaps' \in Nat
  BY DEF TickConflict, TickFails, IInv, TypeOK
<1>2. Holds(NoTick) = {}
  BY NothingOpen DEF Holds
<1>3. QED
  BY <1>1, <1>2, NothingOpen, TickStep DEF TickConflict, TickFails

LEMMA TickStartInv == ASSUME IInv, NEW w \in Workers, TickStart(w) PROVE IInv'
<1> DEFINE x == [tick[w] EXCEPT !.phase = "started", !.now = now]
<1>1. tick[w] \in Tick /\ now \in Nat /\ mishaps \in Nat
  BY DEF IInv, TypeOK
<1>2. x \in Tick /\ x.claimed = tick[w].claimed
  BY <1>1 DEF Tick
<1>3. Claimed(w) = {}
  BY DEF TickStart, IInv, TickTrue
<1>4. Holds(x) = {}
  BY <1>2, <1>3 DEF Holds, Claimed
<1>5. tick' = [tick EXCEPT ![w] = x]
  BY DEF TickStart, IInv, TypeOK
<1> HIDE DEF x
<1>6. now' \in Nat /\ mishaps' \in Nat
  BY <1>1 DEF TickStart
<1>7. QED
  BY <1>2, <1>4, <1>5, <1>6, TickStep DEF TickStart

\* What the query of a tick returns.
LEMMA DueRowsFound ==
  ASSUME TypeOK, NEW at \in Nat, NEW q \in DueRows(at)
  PROVE  /\ q \in Seq(Schedules)
         /\ \A i \in DOMAIN q :
               q[i] \in Schedules \ Locked /\ schedule[q[i]].next_run_at <= at
<1> DEFINE due == Due(at)
<1> DEFINE n == IF Cardinality(due) < MaxDue THEN Cardinality(due) ELSE MaxDue
<1>1. due \subseteq Schedules /\ IsFiniteSet(due)
  BY TaskSubmitAssumption, FS_Subset DEF Due
<1>2. Cardinality(due) \in Nat
  BY <1>1, FS_CardinalityType
<1>3. n \in Nat
  BY <1>2, TaskSubmitAssumption
<1>4. q \in [1..n -> due]
  BY DEF DueRows
<1> HIDE DEF n
<1>5. \A i \in DOMAIN q : q[i] \in due
  BY <1>4
<1>6. q \in Seq(Schedules)
  BY <1>1, <1>3, <1>4
<1>7. QED
  BY <1>5, <1>6 DEF Due

LEMMA TickClaimInv == ASSUME IInv, NEW w \in Workers, TickClaim(w) PROVE IInv'
<1>1. /\ tick[w] \in Tick /\ tick[w].now \in Nat /\ now' \in Nat /\ mishaps' \in Nat
      /\ UNCHANGED <<task, request, answered, schedule, runs>>
  BY DEF TickClaim, IInv, TypeOK, Tick
<1>2. PICK q \in DueRows(tick[w].now) :
         tick' = [tick EXCEPT ![w] =
                    IF q = <<>> THEN NoTick
                    ELSE [tick[w] EXCEPT !.phase = "claimed", !.claimed = q,
                                    !.seen = [s \in Schedules |-> Lookup(RunKey(s))]]]
  BY DEF TickClaim, IInv, TypeOK
<1>3. CASE q = <<>>
  <2>1. tick' = [tick EXCEPT ![w] = NoTick] /\ Holds(NoTick) = {}
    BY <1>2, <1>3, NothingOpen DEF Holds
  <2>2. QED
    BY <1>1, <2>1, NothingOpen, TickStep
<1>4. CASE q # <<>>
  <2> DEFINE found == [s \in Schedules |-> Lookup(RunKey(s))]
  <2> DEFINE x == [tick[w] EXCEPT !.phase = "claimed", !.claimed = q, !.seen = found]
  <2>1. /\ q \in Seq(Schedules)
        /\ \A i \in DOMAIN q :
              q[i] \in Schedules \ Locked /\ schedule[q[i]].next_run_at <= tick[w].now
    BY <1>1, DueRowsFound DEF IInv
  <2>2. \A s \in Schedules :
           /\ found[s] \in Nat
           /\ found[s] # NoTask => IsTask(found[s], RunKey(s))
    BY LookupFinds DEF IInv
  <2>3. found \in [Schedules -> Nat]
    BY <2>2
  <2> HIDE DEF found
  <2>4. /\ x \in Tick /\ x.claimed = q /\ x.seen = found /\ x.now = tick[w].now
        /\ x.phase = "claimed"
    BY <1>1, <2>1, <2>3 DEF Tick
  <2>5. tick' = [tick EXCEPT ![w] = x]
    BY <1>2, <1>4 DEF found
  <2> HIDE DEF x
  <2>6. \A s \in Holds(x) :
           /\ s \in Schedules \ Locked
           /\ schedule[s].next_run_at <= x.now
           /\ x.seen[s] # NoTask => IsTask(x.seen[s], RunKey(s))
    BY <2>1, <2>2, <2>4 DEF Holds
  <2>7. \A v \in Workers \ {w} : Claimed(v) \cap Holds(x) = {}
    BY <2>6 DEF Locked
  <2>8. QED
    BY <1>1, <2>4, <2>5, <2>6, <2>7, TickStep
<1>5. QED
  BY <1>3, <1>4

\* Time passes, or nothing happens.
LEMMA TimeInv == ASSUME IInv, Clock \/ UNCHANGED vars PROVE IInv'
<1> USE DEF IInv
<1>1. UNCHANGED <<task, request, answered, schedule, tick, runs>>
      /\ now' \in Nat /\ mishaps' \in Nat
  BY DEF Clock, vars, TypeOK
<1>2. TaskIds' = TaskIds /\ (\A i, k : IsTask(i, k)' <=> IsTask(i, k))
  BY <1>1 DEF TaskIds, IsTask
<1>3. TypeOK'
  BY <1>1, <1>2 DEF TypeOK
<1>4. UniqueKeys' /\ AnswersTrue'
  BY <1>1, <1>2 DEF UniqueKeys, AnswersTrue
<1>5. \A c \in Clients : RequestTrue(c)'
  BY <1>1, <1>2 DEF RequestTrue
<1>6. /\ \A w \in Workers : Claimed(w)' = Claimed(w)
      /\ \A s : RunKey(s)' = RunKey(s)
  BY <1>1 DEF Claimed, RunKey
<1>7. (\A w \in Workers : TickTrue(w)') /\ OneHolder'
  BY <1>1, <1>2, <1>6 DEF TickTrue, OneHolder
<1>8. \A s \in Schedules : RunsTrue(s)'
  BY <1>1, <1>2 DEF RunsTrue
<1>9. QED
  BY <1>3, <1>4, <1>5, <1>7, <1>8

\* mark_schedule_dispatched leaves a later time, in whole intervals.
LEMMA AdvancesPast ==
  ASSUME TypeOK, NEW s \in Schedules, NEW at \in Nat, schedule[s].next_run_at <= at
  PROVE  /\ Advanced(s, at) \in Nat
         /\ schedule[s].next_run_at < Advanced(s, at)
<1> DEFINE due == schedule[s].next_run_at
<1> DEFINE k == (at - due) \div Interval[s]
<1>1. due \in Nat /\ Interval[s] \in Nat \ {0} /\ at - due \in Nat
  BY TaskSubmitAssumption DEF TypeOK, Schedule
<1>2. k \in Nat
  BY <1>1
<1>3. Advanced(s, at) = due + Interval[s] * (k + 1)
  BY DEF Advanced
<1> HIDE DEF k, due
<1>4. \A a \in Nat \ {0}, b \in Nat : a * (b + 1) \in Nat \ {0}
  <2>1. \A a \in Nat \ {0}, b \in Nat : a * (b + 1) = a * b + a /\ a * b \in Nat
    OBVIOUS
  <2>2. QED
    BY <2>1
<1>5. Interval[s] * (k + 1) \in Nat \ {0}
  BY <1>1, <1>2, <1>4
<1>6. Advanced(s, at) \in Nat /\ due < Advanced(s, at)
  BY <1>1, <1>3, <1>5
<1>7. QED
  BY <1>6 DEF due

\* The tasks that a tick inserts.
LEMMA Inserts ==
  ASSUME TypeOK, NEW w \in Workers, NEW q \in InsertOrders(w),
         task' = task \o [i \in DOMAIN q |-> RunKey(q[i])]
  PROVE  /\ Len(task) \in Nat /\ DOMAIN q = 1..Cardinality(Fresh(w))
         /\ Cardinality(Fresh(w)) \in Nat
         /\ \A i \in DOMAIN q : q[i] \in Fresh(w)
         /\ \A i, j \in DOMAIN q : q[i] = q[j] => i = j
         /\ \A s \in Fresh(w) : \E i \in DOMAIN q : q[i] = s
         /\ task' \in Seq(AllKeys)
         /\ Len(task') = Len(task) + Cardinality(Fresh(w))
         /\ \A i \in TaskIds : task'[i] = task[i]
         /\ \A i \in DOMAIN q : task'[Len(task) + i] = RunKey(q[i])
<1> DEFINE n == Cardinality(Fresh(w))
<1> DEFINE new == [i \in DOMAIN q |-> RunKey(q[i])]
<1>1. Fresh(w) \subseteq Schedules
  BY ClaimedSchedules DEF Fresh
<1>2. n \in Nat
  <2>1. IsFiniteSet(Fresh(w))
    BY <1>1, TaskSubmitAssumption, FS_Subset
  <2>2. QED
    BY <2>1, FS_CardinalityType
<1>3. q \in Bijection(1..n, Fresh(w))
  BY DEF InsertOrders
<1> HIDE DEF n
<1>4. /\ q \in [1..n -> Fresh(w)] /\ DOMAIN q = 1..n
      /\ \A i, j \in 1..n : q[i] = q[j] => i = j
      /\ \A s \in Fresh(w) : \E i \in 1..n : q[i] = s
  <2>1. q \in [1..n -> Fresh(w)]
    BY <1>3, Fun_BijectionProperties
  <2>2. \A i, j \in 1..n : q[i] = q[j] => i = j
    BY <1>3, Fun_BijectionProperties
  <2>3. \A s \in Fresh(w) : \E i \in 1..n : q[i] = s
    BY <1>3 DEF Bijection, Surjection
  <2>4. QED
    BY <2>1, <2>2, <2>3
<1>5. \A i \in 1..n : RunKey(q[i]) \in AllKeys
  BY <1>1, <1>4 DEF RunKey, AllKeys, TypeOK, Schedule
<1>6. new \in [1..n -> AllKeys] /\ \A i \in 1..n : new[i] = RunKey(q[i])
  BY <1>4, <1>5
<1> HIDE DEF new
<1>7. new \in Seq(AllKeys) /\ Len(new) = n
  BY <1>2, <1>6
<1>8. task \in Seq(AllKeys) /\ Len(task) \in Nat /\ TaskIds = 1..Len(task)
  BY TaskRows
<1>9. task' = task \o new
  BY DEF new
<1>10. /\ task' \in Seq(AllKeys)
       /\ Len(task') = Len(task) + n
       /\ \A i \in 1..(Len(task) + n) :
             task'[i] = IF i <= Len(task) THEN task[i] ELSE new[i - Len(task)]
  <2>1. /\ task \o new \in Seq(AllKeys)
        /\ Len(task \o new) = Len(task) + Len(new)
        /\ \A i \in 1..(Len(task) + Len(new)) :
              (task \o new)[i] = IF i <= Len(task) THEN task[i] ELSE new[i - Len(task)]
    BY <1>7, <1>8, ConcatProperties
  <2>2. QED
    BY <1>7, <1>9, <2>1
<1>11. \A i \in TaskIds : task'[i] = task[i]
  BY <1>2, <1>8, <1>10
<1>12. \A i \in 1..n : task'[Len(task) + i] = RunKey(q[i])
  BY <1>2, <1>6, <1>8, <1>10
<1>13. QED
  BY <1>2, <1>4, <1>8, <1>10, <1>11, <1>12 DEF n

LEMMA TickCommitInv == ASSUME IInv, NEW w \in Workers, TickCommit(w) PROVE IInv'
<1> USE DEF IInv
<1> DEFINE n == Cardinality(Fresh(w))
<1>1. PICK q \in InsertOrders(w) :
         /\ task' = task \o [i \in DOMAIN q |-> RunKey(q[i])]
         /\ schedule' = [s \in Schedules |->
              IF s \in Claimed(w)
              THEN [next_run_at |-> Advanced(s, tick[w].now), last_task_id |-> Created(w, s, q)]
              ELSE schedule[s]]
  BY DEF TickCommit
<1>2. /\ runs' = [s \in Schedules |->
           IF s \in Claimed(w) THEN Append(runs[s], schedule[s].next_run_at) ELSE runs[s]]
      /\ tick' = [tick EXCEPT ![w] = NoTick]
      /\ UNCHANGED <<request, answered, now, mishaps>>
      /\ \A s \in Fresh(w) : Insertable(RunKey(s))
  BY DEF TickCommit
<1>3. /\ Len(task) \in Nat /\ DOMAIN q = 1..n /\ n \in Nat
      /\ \A i \in 1..n : q[i] \in Fresh(w)
      /\ \A i, j \in 1..n : q[i] = q[j] => i = j
      /\ \A s \in Fresh(w) : \E i \in 1..n : q[i] = s
      /\ task' \in Seq(AllKeys)
      /\ Len(task') = Len(task) + n
      /\ \A i \in TaskIds : task'[i] = task[i]
      /\ \A i \in 1..n : task'[Len(task) + i] = RunKey(q[i])
  <2>1. TypeOK
    OBVIOUS
  <2>2. /\ Len(task) \in Nat /\ DOMAIN q = 1..n /\ n \in Nat
        /\ \A i \in DOMAIN q : q[i] \in Fresh(w)
        /\ \A i, j \in DOMAIN q : q[i] = q[j] => i = j
        /\ \A s \in Fresh(w) : \E i \in DOMAIN q : q[i] = s
        /\ task' \in Seq(AllKeys)
        /\ Len(task') = Len(task) + n
        /\ \A i \in TaskIds : task'[i] = task[i]
        /\ \A i \in DOMAIN q : task'[Len(task) + i] = RunKey(q[i])
    BY <1>1, <2>1, Inserts
  <2> HIDE DEF n, IInv
  <2>3. QED
    BY <2>2
<1> HIDE DEF n
<1>4. TaskIds \subseteq TaskIds' /\ \A i, k : IsTask(i, k) => IsTask(i, k)'
  BY <1>3, TasksGrow
<1>5. /\ TaskIds = 1..Len(task) /\ TaskIds' = 1..(Len(task) + n)
      /\ \A i \in TaskIds' : i \in TaskIds \/ \E j \in 1..n : i = Len(task) + j
  <2>1. TaskIds = 1..Len(task) /\ TaskIds' = 1..(Len(task) + n)
    BY <1>3 DEF TaskIds
  <2>2. ASSUME NEW i \in TaskIds', i \notin TaskIds PROVE \E j \in 1..n : i = Len(task) + j
    <3>1. i - Len(task) \in 1..n /\ i = Len(task) + (i - Len(task))
      BY <1>3, <2>1, <2>2
    <3>2. QED
      BY <3>1
  <2>3. QED
    BY <2>1, <2>2
<1>6. Claimed(w) \subseteq Schedules
  BY ClaimedSchedules
<1>7. ASSUME NEW s \in Claimed(w)
      PROVE  \E i \in Nat : Created(w, s, q) = i /\ i \in TaskIds' /\ task'[i] = RunKey(s)
  <2>1. CASE tick[w].seen[s] # NoTask
    <3>1. IsTask(tick[w].seen[s], RunKey(s)) /\ Created(w, s, q) = tick[w].seen[s]
      BY <2>1, <1>7 DEF TickTrue, Created
    <3>2. QED
      BY <3>1, <1>3, <1>4, <1>5 DEF IsTask
  <2>2. CASE tick[w].seen[s] = NoTask
    <3> DEFINE j == CHOOSE i \in DOMAIN q : q[i] = s
    <3>1. s \in Fresh(w)
      BY <2>2, <1>7 DEF Fresh
    <3>2. j \in 1..n /\ q[j] = s
      BY <3>1, <1>3
    <3>3. Created(w, s, q) = Len(task) + j
      BY <2>2 DEF Created
    <3> HIDE DEF j
    <3>4. Len(task) + j \in TaskIds' /\ Len(task) + j \in Nat
      BY <1>3, <1>5, <3>2
    <3>5. task'[Len(task) + j] = RunKey(s)
      BY <1>3, <3>2
    <3>6. QED
      BY <3>3, <3>4, <3>5
  <2>3. QED
    BY <2>1, <2>2
<1>8. \A s \in Claimed(w) :
         /\ Advanced(s, tick[w].now) \in Nat
         /\ schedule[s].next_run_at < Advanced(s, tick[w].now)
  <2>1. tick[w].now \in Nat
    BY DEF TypeOK, Tick
  <2>2. QED
    BY <1>6, <2>1, AdvancesPast DEF TickTrue
<1>9. ASSUME NEW s \in Claimed(w)
      PROVE  /\ schedule'[s].next_run_at = Advanced(s, tick[w].now)
             /\ schedule'[s].last_task_id = Created(w, s, q)
             /\ schedule'[s] \in Schedule
             /\ runs'[s] = Append(runs[s], schedule[s].next_run_at)
  <2>1. Created(w, s, q) \in Nat /\ s \in Schedules
    BY <1>6, <1>7
  <2>2. schedule'[s] = [next_run_at |-> Advanced(s, tick[w].now), last_task_id |-> Created(w, s, q)]
    BY <1>1, <2>1
  <2>3. runs'[s] = Append(runs[s], schedule[s].next_run_at)
    BY <1>2, <2>1
  <2>4. Advanced(s, tick[w].now) \in Nat
    BY <1>8
  <2> HIDE DEF IInv
  <2>5. schedule'[s] \in Schedule
    BY <2>1, <2>2, <2>4 DEF Schedule
  <2>6. QED
    BY <2>2, <2>3, <2>5
<1>10. \A s \in Schedules \ Claimed(w) : schedule'[s] = schedule[s] /\ runs'[s] = runs[s]
  BY <1>1, <1>2
<1>11. \A s \in Schedules : runs[s] \in Seq(Nat) /\ schedule[s].next_run_at \in Nat
  BY DEF TypeOK, Schedule
<1>12. ASSUME NEW s \in Claimed(w)
       PROVE  /\ runs'[s] \in Seq(Nat) /\ runs'[s] # <<>>
              /\ Len(runs'[s]) = Len(runs[s]) + 1 /\ Len(runs[s]) \in Nat
              /\ \A i \in 1..Len(runs[s]) : runs'[s][i] = runs[s][i]
              /\ runs'[s][Len(runs[s]) + 1] = schedule[s].next_run_at
  <2>1. /\ runs[s] \in Seq(Nat) /\ schedule[s].next_run_at \in Nat
        /\ runs'[s] = Append(runs[s], schedule[s].next_run_at)
    BY <1>6, <1>9, <1>11
  <2>2. QED
    BY <2>1, AppendRun
<1>13. TypeOK'
  <2>1. \A s \in Schedules : schedule'[s] \in Schedule
    BY <1>9, <1>10 DEF TypeOK
  <2>2. schedule' \in [Schedules -> Schedule]
    BY <1>1, <2>1
  <2>3. \A s \in Schedules : schedule'[s].last_task_id \in TaskIds' \cup {NoTask}
    BY <1>4, <1>7, <1>9, <1>10 DEF TypeOK
  <2>4. runs' \in [Schedules -> Seq(Nat)]
    BY <1>2, <1>10, <1>11, <1>12
  <2>5. answered' \subseteq [key : AskedKeys, id : TaskIds']
    BY <1>2, <1>4 DEF TypeOK
  <2>6. tick' \in [Workers -> Tick]
    BY <1>2, NothingOpen DEF TypeOK
  <2>7. QED
    BY <1>2, <1>3, <2>2, <2>3, <2>4, <2>5, <2>6 DEF TypeOK
<1>14. UniqueKeys'
  <2> SUFFICES ASSUME NEW i \in TaskIds', NEW j \in TaskIds', task'[i] = task'[j]
               PROVE  i = j
    BY DEF UniqueKeys
  <2>1. CASE i \in TaskIds /\ j \in TaskIds
    BY <2>1, <1>3 DEF UniqueKeys
  <2>2. ASSUME NEW a \in TaskIds, NEW b \in 1..n PROVE task'[a] # task'[Len(task) + b]
    <3>1. q[b] \in Fresh(w) /\ task'[Len(task) + b] = RunKey(q[b])
      BY <1>3
    <3>2. task[a] # RunKey(q[b])
      BY <3>1, <1>2 DEF Insertable
    <3>3. QED
      BY <3>1, <3>2, <1>3
  <2>3. CASE i \notin TaskIds /\ j \in TaskIds
    BY <2>2, <2>3, <1>5
  <2>4. CASE i \in TaskIds /\ j \notin TaskIds
    BY <2>2, <2>4, <1>5
  <2>5. CASE i \notin TaskIds /\ j \notin TaskIds
    <3>1. PICK a, b \in 1..n : i = Len(task) + a /\ j = Len(task) + b
      BY <2>5, <1>5
    <3>2. RunKey(q[a]) = RunKey(q[b])
      BY <3>1, <1>3
    <3>3. q[a] = q[b]
      BY <3>2 DEF RunKey
    <3>4. QED
      BY <3>1, <3>3, <1>3
  <2>6. QED
    BY <2>1, <2>3, <2>4, <2>5
<1>15. AnswersTrue' /\ \A c \in Clients : RequestTrue(c)'
  BY <1>2, <1>4 DEF AnswersTrue, RequestTrue
<1>16. /\ Claimed(w)' = {}
       /\ tick'[w] = NoTick
       /\ \A v \in Workers \ {w} : tick'[v] = tick[v] /\ Claimed(v)' = Claimed(v)
  <2>1. tick'[w] = NoTick /\ \A v \in Workers \ {w} : tick'[v] = tick[v]
    BY <1>2 DEF TypeOK
  <2>2. QED
    BY <2>1, NothingOpen DEF Claimed
<1>17. \A v \in Workers : TickTrue(v)'
  <2>1. TickTrue(w)'
    BY <1>16 DEF TickTrue
  <2>2. ASSUME NEW v \in Workers \ {w} PROVE TickTrue(v)'
    <3>1. \A s \in Claimed(v) : schedule'[s] = schedule[s] /\ RunKey(s)' = RunKey(s)
      <4>1. Claimed(v) \subseteq Schedules \ Claimed(w)
        BY ClaimedSchedules DEF OneHolder
      <4>2. QED
        BY <4>1, <1>10 DEF RunKey
    <3>2. TickTrue(v)
      OBVIOUS
    <3>3. QED
      BY <3>1, <3>2, <1>4, <1>16 DEF TickTrue
  <2>3. QED
    BY <2>1, <2>2
<1>18. OneHolder'
  BY <1>16 DEF OneHolder
<1>19. ASSUME NEW s \in Schedules PROVE RunsTrue(s)'
  <2>1. RunsTrue(s)
    OBVIOUS
  <2>2. CASE s \notin Claimed(w)
    BY <2>1, <2>2, <1>4, <1>10 DEF RunsTrue
  <2>3. CASE s \in Claimed(w)
    <3>1. /\ DOMAIN runs[s] = 1..Len(runs[s])
          /\ DOMAIN runs'[s] = 1..(Len(runs[s]) + 1)
          /\ \A i \in 1..Len(runs[s]) : runs[s][i] \in Nat
      BY <2>3, <1>11, <1>12, LenProperties, ElementOfSeq
    <3>2. IsTask(schedule[s].last_task_id, <<s, runs[s][Len(runs[s])]>>)'
      <4>1. PICK i \in Nat : Created(w, s, q) = i /\ i \in TaskIds' /\ task'[i] = RunKey(s)
        BY <2>3, <1>7
      <4>2. schedule'[s].last_task_id = i /\ RunKey(s) = <<s, schedule[s].next_run_at>>
        BY <2>3, <4>1, <1>9 DEF RunKey
      <4>3. runs'[s][Len(runs'[s])] = schedule[s].next_run_at
        BY <2>3, <1>12
      <4>4. QED
        BY <4>1, <4>2, <4>3 DEF IsTask
    <3>3. \A i \in 1..Len(runs[s]) : runs[s][i] < schedule[s].next_run_at
      BY <2>1, <3>1 DEF RunsTrue
    <3>4. \A i \in DOMAIN runs'[s] : runs'[s][i] < schedule'[s].next_run_at
      <4>1. schedule[s].next_run_at < schedule'[s].next_run_at /\ schedule'[s].next_run_at \in Nat
        BY <2>3, <1>8, <1>9
      <4>0. Len(runs[s]) \in Nat
        BY <2>3, <1>12
      <4>2. \A i \in 1..(Len(runs[s]) + 1) : i \in 1..Len(runs[s]) \/ i = Len(runs[s]) + 1
        BY <4>0, SplitLast
      <4>3. ASSUME NEW i \in 1..Len(runs[s])
            PROVE  runs'[s][i] < schedule'[s].next_run_at
        <5>1. runs'[s][i] = runs[s][i] /\ runs[s][i] < schedule[s].next_run_at
          BY <2>3, <3>3, <1>12
        <5>2. runs[s][i] \in Nat /\ schedule[s].next_run_at \in Nat
          BY <3>1, <1>11
        <5>3. QED
          BY <5>1, <5>2, <4>1
      <4>4. runs'[s][Len(runs[s]) + 1] < schedule'[s].next_run_at
        BY <2>3, <4>1, <1>12
      <4>5. QED
        BY <3>1, <4>2, <4>3, <4>4
    <3>5. \A i, j \in DOMAIN runs'[s] : i < j => runs'[s][i] < runs'[s][j]
      <4>1. ASSUME NEW i \in 1..(Len(runs[s]) + 1), NEW j \in 1..(Len(runs[s]) + 1), i < j
            PROVE  runs'[s][i] < runs'[s][j]
        <5>1. i \in 1..Len(runs[s]) /\ runs'[s][i] = runs[s][i]
          BY <2>3, <4>1, <1>12
        <5>2. CASE j = Len(runs[s]) + 1
          BY <2>3, <3>3, <5>1, <5>2, <1>12
        <5>3. CASE j \in 1..Len(runs[s])
          <6>1. runs[s][i] < runs[s][j] /\ runs'[s][j] = runs[s][j]
            BY <2>1, <2>3, <3>1, <4>1, <5>1, <5>3, <1>12 DEF RunsTrue
          <6>2. QED
            BY <5>1, <6>1
        <5>4. QED
          BY <2>3, <5>2, <5>3, <1>12
      <4>2. QED
        BY <3>1, <4>1
    <3>6. QED
      BY <3>2, <3>4, <3>5 DEF RunsTrue
  <2>4. QED
    BY <2>2, <2>3
<1>20. QED
  BY <1>13, <1>14, <1>15, <1>17, <1>18, <1>19

LEMMA StepInv == IInv /\ [Next]_vars => IInv'
  BY SubmitInv, AnswerInv, RequestEndsInv, TickStartInv, TickClaimInv, TickCommitInv,
     TickDropInv, TimeInv DEF Next

THEOREM Invariance == Spec => []IInv
<1>1. QED
  BY InitInv, StepInv, PTL DEF Spec

-----------------------------------------------------------------------------
(* The theorems.                                                           *)

\* Types of the rows, the open transactions and the answers.
THEOREM TypeCorrect == Spec => []TypeOK
<1>1. IInv => TypeOK
  BY DEF IInv
<1>2. QED
  BY <1>1, Invariance, PTL

\* However lookups and inserts cross, clients and scheduler share the one task of
\* a key (create_task, the unique constraint).
THEOREM OneTaskForAll == Spec => []OneTaskPerKey
<1>1. IInv => OneTaskPerKey
  BY DEF IInv, UniqueKeys, AnswersTrue, RunsTrue, IsTask, OneTaskPerKey
<1>2. QED
  BY <1>1, Invariance, PTL

\* The runs of a schedule are dispatched once each and in order, however the
\* ticks of the workers cross (claim_due_schedules, mark_schedule_dispatched).
THEOREM RunsOrdered == Spec => []RunsInOrder
<1>1. IInv => RunsInOrder
  BY DEF IInv, RunsTrue, RunsInOrder
<1>2. QED
  BY <1>1, Invariance, PTL

=============================================================================
