----------------------- MODULE CombinedRunner_proofs -----------------------
(* The shutdown of the combined runtime, for any number of signals.        *)
EXTENDS CombinedRunner, SequenceTheorems, TLAPS

\* The calls that have come past the sending to c.
PastSend(l, c) ==
    \/ l \in {<<"wait">>, <<"kill", Api>>, <<"kill", Worker>>}
    \/ c = Api /\ l = <<"send", Worker>>

\* c has ended, or is bound to.
Done(c) == Ended(c) \/ c \in killed

Starting == main \in {"start_api", "start_worker"}
Leaving == main \in {"leave", "exited"}

\* Each call that is under way was made by a signal, or by the end of a child.
CallsCounted ==
    /\ Len(stack) <= signals + (IF Leaving THEN 1 ELSE 0)
    /\ stopping => signals > 0 \/ Leaving
    /\ code = "zero" => signals > 0

\* A call that sends has set stopping.
CallsStop ==
    \A i \in 1..Len(stack) : stack[i] \in {<<"check">>, <<"set">>} \/ stopping

\* A call that has come past the sending to a child has told it, if it lives.
CallsTold ==
    \A i \in 1..Len(stack), c \in Children :
        PastSend(stack[i], c) /\ Alive(c) => c \in told

\* Both children are started before the monitor loop; a signal before is early.
StartedFirst ==
    /\ Starting => child[Worker] = "none"
    /\ main = "start_worker" => child[Api] # "none"
    /\ ~Starting => \A c \in Children : child[c] # "none"
    /\ Starting /\ ~early => stack = <<>> /\ ~stopping

\* The parent leaves only behind a call of stop_children.
LeavesStopping ==
    /\ Leaving => stopping \/ stack # <<>>
    /\ main = "exited" => stack = <<>>

\* Where stopping is set, some call has still to finish, or both are done.
SomeCallFinishes ==
    ~early =>
        /\ stopping /\ (\A i \in 1..Len(stack) : stack[i] = <<"check">>) =>
              \A c \in Children : Done(c)
        /\ \A i \in 1..Len(stack) : stack[i] = <<"kill", Worker>> => Done(Api)

IInv ==
    /\ TypeOK
    /\ killed \subseteq told
    /\ CallsCounted
    /\ CallsStop
    /\ CallsTold
    /\ StartedFirst
    /\ LeavesStopping
    /\ SomeCallFinishes

-----------------------------------------------------------------------------
(* Lemmas.                                                                 *)

\* The calls can be told apart, and which of them are past the sending.
LEMMA CallsDiffer ==
  /\ <<"set">> # <<"check">> /\ <<"wait">> # <<"check">> /\ <<"wait">> # <<"set">>
  /\ \A c \in Children : <<"send", c>> # <<"check">> /\ <<"kill", c>> # <<"check">>
  /\ \A c \in Children : <<"send", c>> # <<"set">> /\ <<"kill", c>> # <<"set">>
  /\ \A c \in Children : <<"send", c>> # <<"kill", Worker>>
  /\ <<"set">> # <<"kill", Worker>> /\ <<"wait">> # <<"kill", Worker>>
  /\ <<"check">> # <<"kill", Worker>> /\ <<"kill", Api>> # <<"kill", Worker>>
  /\ \A c \in Children :
        ~PastSend(<<"check">>, c) /\ ~PastSend(<<"set">>, c) /\ ~PastSend(<<"send", Api>>, c)
  /\ ~PastSend(<<"send", Worker>>, Worker) /\ PastSend(<<"send", Worker>>, Api)
  /\ \A c \in Children : PastSend(<<"wait">>, c) /\ \A d \in Children : PastSend(<<"kill", d>>, c)
<1>1. \A x, y, z : <<x>> # <<y, z>>
  OBVIOUS
<1>2. QED
  BY <1>1 DEF PastSend, Children, Api, Worker

\* What is left of the stack below its top.
LEMMA BelowTop ==
  ASSUME stack \in Seq(Call), stack # <<>>
  PROVE  /\ Len(stack) \in Nat \ {0}
         /\ Front(stack) \in Seq(Call)
         /\ Len(Front(stack)) = Len(stack) - 1
         /\ \A i \in 1..(Len(stack) - 1) : Front(stack)[i] = stack[i]
<1>1. Len(stack) \in Nat \ {0}
  BY EmptySeq
<1>2. \A i \in 1..(Len(stack) - 1) : stack[i] \in Call
  BY <1>1, ElementOfSeq
<1> DEFINE n == Len(stack) - 1
<1>3. n \in Nat
  BY <1>1
<1> HIDE DEF n
<1>4. \A i \in 1..n : stack[i] \in Call
  BY <1>2 DEF n
<1>5. /\ SubSeq(stack, 1, n) \in Seq(Call)
      /\ Len(SubSeq(stack, 1, n)) = IF 1 <= n THEN n - 1 + 1 ELSE 0
      /\ \A i \in 1..(n - 1 + 1) : SubSeq(stack, 1, n)[i] = stack[1 + i - 1]
  BY <1>3, <1>4, SubSeqProperties
<1>6. n - 1 + 1 = n /\ \A i \in 1..n : 1 + i - 1 = i
  BY <1>3
<1>7. /\ Len(SubSeq(stack, 1, n)) = n
      /\ \A i \in 1..n : SubSeq(stack, 1, n)[i] = stack[i]
  BY <1>3, <1>5, <1>6
<1>8. Front(stack) = SubSeq(stack, 1, n)
  BY DEF Front, n
<1>9. QED
  BY <1>1, <1>5, <1>7, <1>8 DEF n

\* A call that goes on changes the top of the stack.
LEMMA GotoTop ==
  ASSUME stack \in Seq(Call), stack # <<>>, NEW l \in Call, Goto(l)
  PROVE  /\ stack' \in Seq(Call)
         /\ stack' # <<>>
         /\ Len(stack') = Len(stack)
         /\ Len(stack) \in Nat \ {0}
         /\ \A i \in 1..(Len(stack) - 1) : stack'[i] = stack[i]
         /\ stack'[Len(stack)] = l
<1>1. /\ Append(Front(stack), l) \in Seq(Call)
      /\ Append(Front(stack), l) # <<>>
      /\ Len(Append(Front(stack), l)) = Len(Front(stack)) + 1
      /\ \A i \in 1..Len(Front(stack)) : Append(Front(stack), l)[i] = Front(stack)[i]
      /\ Append(Front(stack), l)[Len(Front(stack)) + 1] = l
  BY BelowTop, AppendProperties
<1>2. QED
  BY <1>1, BelowTop DEF Goto

\* A call that is over leaves the stack.
LEMMA ReturnTop ==
  ASSUME stack \in Seq(Call), stack # <<>>, Return
  PROVE  /\ stack' \in Seq(Call)
         /\ Len(stack) \in Nat \ {0}
         /\ Len(stack') = Len(stack) - 1
         /\ \A i \in 1..(Len(stack) - 1) : stack'[i] = stack[i]
  BY BelowTop DEF Return

\* The calls are calls.
LEMMA CallsAreCalls ==
  /\ <<"check">> \in Call /\ <<"set">> \in Call /\ <<"wait">> \in Call
  /\ \A c \in Children : <<"send", c>> \in Call /\ <<"kill", c>> \in Call
  /\ Children = {Api, Worker} /\ Api # Worker
  BY DEF Call, Children, Api, Worker

LEMMA InitInv == Init => IInv
<1> SUFFICES ASSUME Init PROVE IInv
  OBVIOUS
<1>1. stack = <<>> /\ stack \in Seq(Call) /\ Len(stack) = 0
  BY EmptySeq DEF Init
<1>2. TypeOK
  <2>1. Len(stack) <= MaxSignals + 1 /\ signals \in 0..MaxSignals
    BY <1>1, CombinedRunnerAssumption DEF Init
  <2>2. child \in [Children -> Process]
    BY DEF Init, Process
  <2>3. QED
    BY <1>1, <2>1, <2>2 DEF Init, TypeOK, Main
<1>3. CallsCounted /\ CallsStop /\ CallsTold
  BY <1>1 DEF Init, CallsCounted, CallsStop, CallsTold, Leaving
<1>4. StartedFirst /\ LeavesStopping /\ SomeCallFinishes
  BY <1>1, CallsAreCalls
  DEF Init, StartedFirst, LeavesStopping, SomeCallFinishes, Starting, Leaving
<1>5. QED
  BY <1>2, <1>3, <1>4 DEF Init, IInv

-----------------------------------------------------------------------------
(* The steps.                                                              *)

\* A call goes on: the rest of the state changes only where the top allows.
LEMMA GoesOn ==
  ASSUME IInv, stack # <<>>, NEW l \in Call, Goto(l),
         UNCHANGED <<child, main, code, signals, early>>,
         killed \subseteq killed', killed' \subseteq told',
         told \subseteq told', told' \subseteq Children,
         stopping' \in BOOLEAN, stopping => stopping',
         l # <<"check">>, l = <<"set">> \/ stopping',
         \A c \in Children : PastSend(l, c) /\ Alive(c) => c \in told',
         ~early /\ l = <<"kill", Worker>> => Done(Api)'
  PROVE  IInv'
<1> USE DEF IInv
<1>1. /\ stack' \in Seq(Call)
      /\ stack' # <<>>
      /\ Len(stack') = Len(stack)
      /\ Len(stack) \in Nat \ {0}
      /\ \A i \in 1..(Len(stack) - 1) : stack'[i] = stack[i]
      /\ stack'[Len(stack)] = l
  BY GotoTop DEF TypeOK
<1>2. TypeOK'
  BY <1>1 DEF TypeOK
<1>3. stack # <<>> => signals > 0 \/ Leaving
  BY <1>1 DEF CallsCounted, TypeOK
<1>4. CallsCounted' /\ (killed \subseteq told)'
  BY <1>1, <1>3 DEF CallsCounted, Leaving
<1>5. CallsTold'
  <2> SUFFICES ASSUME NEW i \in 1..Len(stack), NEW c \in Children,
                      PastSend(stack'[i], c), Alive(c)
               PROVE  c \in told'
    BY <1>1 DEF CallsTold, Alive
  <2>1. CASE i = Len(stack)
    BY <2>1, <1>1
  <2>2. CASE i # Len(stack)
    BY <2>2, <1>1 DEF CallsTold
  <2>3. QED
    BY <2>1, <2>2
<1>6. StartedFirst' /\ LeavesStopping' /\ CallsStop'
  BY <1>1 DEF StartedFirst, LeavesStopping, CallsStop, Starting, Leaving
<1>7. SomeCallFinishes'
  <2>1. ~(\A i \in 1..Len(stack') : stack'[i] = <<"check">>)
    <3>1. Len(stack) \in 1..Len(stack')
      BY <1>1
    <3>2. stack'[Len(stack)] # <<"check">>
      BY <1>1
    <3>3. QED
      BY <3>1, <3>2
  <2>2. ASSUME ~early, NEW i \in 1..Len(stack), stack'[i] = <<"kill", Worker>>
        PROVE  Done(Api)'
    <3>1. CASE i = Len(stack)
      BY <2>2, <3>1, <1>1
    <3>2. CASE i # Len(stack)
      BY <2>2, <3>2, <1>1 DEF SomeCallFinishes, Done, Ended
    <3>3. QED
      BY <3>1, <3>2
  <2>3. QED
    BY <2>1, <2>2, <1>1 DEF SomeCallFinishes, Done, Ended
<1>8. QED
  BY <1>2, <1>4, <1>5, <1>6, <1>7

\* A call is over: it has checked only, or both children are done.
LEMMA GoesBack ==
  ASSUME IInv, stack # <<>>, Return, stopping,
         UNCHANGED <<child, told, stopping, main, code, signals, early>>,
         killed \subseteq killed', killed' \subseteq told,
         ~early => \/ stack[Len(stack)] = <<"check">>
                   \/ \A c \in Children : Done(c)'
  PROVE  IInv'
<1> USE DEF IInv
<1>1. /\ stack' \in Seq(Call)
      /\ Len(stack) \in Nat \ {0}
      /\ Len(stack') = Len(stack) - 1
      /\ \A i \in 1..(Len(stack) - 1) : stack'[i] = stack[i]
  BY ReturnTop DEF TypeOK
<1>2. TypeOK'
  BY <1>1, CombinedRunnerAssumption DEF TypeOK
<1>3. CallsCounted' /\ (killed \subseteq told)'
  BY <1>1 DEF CallsCounted, Leaving, TypeOK
<1>4. CallsStop' /\ CallsTold'
  BY <1>1 DEF CallsStop, CallsTold, Alive
<1>5. StartedFirst' /\ LeavesStopping'
  BY <1>1 DEF StartedFirst, LeavesStopping, Starting, Leaving
<1>6. SomeCallFinishes'
  <2>1. CASE ~early /\ stack[Len(stack)] = <<"check">>
    <3>1. ASSUME \A i \in 1..Len(stack') : stack'[i] = <<"check">>
          PROVE  \A i \in 1..Len(stack) : stack[i] = <<"check">>
      BY <3>1, <2>1, <1>1
    <3>2. \A c \in Children : Done(c) => Done(c)'
      BY DEF Done, Ended
    <3>3. ASSUME NEW i \in 1..Len(stack'), stack'[i] = <<"kill", Worker>>
          PROVE  Done(Api)'
      BY <3>2, <3>3, <2>1, <1>1, CallsAreCalls DEF SomeCallFinishes
    <3>4. QED
      BY <3>1, <3>2, <3>3, <2>1 DEF SomeCallFinishes
  <2>2. CASE ~early /\ \A c \in Children : Done(c)'
    BY <2>2, <1>1, CallsAreCalls DEF SomeCallFinishes
  <2>3. CASE early
    BY <2>3 DEF SomeCallFinishes
  <2>4. QED
    BY <2>1, <2>2, <2>3
<1>7. QED
  BY <1>2, <1>3, <1>4, <1>5, <1>6

LEMMA StartInv == ASSUME IInv, NEW c \in Children, Start(c) PROVE IInv'
<1> USE DEF Start, MainAt, IInv
<1>1. TypeOK'
  BY DEF TypeOK, Process, Main
<1>2. stack = <<>> /\ Len(stack) = 0 /\ Starting /\ ~(Leaving')
  BY EmptySeq DEF Starting, Leaving
<1>3. CallsCounted' /\ (killed \subseteq told)' /\ LeavesStopping'
  BY <1>2 DEF CallsCounted, LeavesStopping, Leaving, Starting
<1>4. CallsStop' /\ CallsTold'
  BY <1>2 DEF CallsStop, CallsTold
<1>5. StartedFirst'
  <2>1. CASE c = Api
    BY <2>1, <1>2, CallsAreCalls DEF StartedFirst, Starting, TypeOK
  <2>2. CASE c = Worker
    BY <2>2, <1>2, CallsAreCalls DEF StartedFirst, Starting, TypeOK
  <2>3. QED
    BY <2>1, <2>2, CallsAreCalls
<1>6. ~early => ~stopping
  BY <1>2 DEF StartedFirst
<1>7. SomeCallFinishes'
  BY <1>2, <1>6 DEF SomeCallFinishes
<1>8. QED
  BY <1>1, <1>3, <1>4, <1>5, <1>7

\* The end of a child is found, and the parent exits: only main changes.
LEMMA MainInv == ASSUME IInv, FindExit \/ Exit PROVE IInv'
<1> USE DEF FindExit, Exit, MainAt, IInv
<1>1. TypeOK'
  BY DEF TypeOK, Main
<1>2. CallsCounted' /\ (killed \subseteq told)' /\ LeavesStopping'
  BY DEF CallsCounted, LeavesStopping, Leaving
<1>3. CallsStop' /\ CallsTold' /\ SomeCallFinishes'
  BY DEF CallsStop, CallsTold, SomeCallFinishes, Alive, Done, Ended
<1>4. StartedFirst'
  BY DEF StartedFirst, Starting
<1>5. QED
  BY <1>1, <1>2, <1>3, <1>4

LEMMA HandleExitInv == ASSUME IInv, HandleExit PROVE IInv'
<1> USE DEF HandleExit, MainAt, IInv
<1>1. /\ stack' \in Seq(Call) /\ stack' # <<>> /\ Len(stack') = 1
      /\ stack'[1] = <<"check">>
  BY CallsAreCalls
<1>2. TypeOK'
  BY <1>1, CombinedRunnerAssumption DEF TypeOK, Main, ReturnCode
<1>3. signals \in Nat /\ (stopping => signals > 0)
  BY CombinedRunnerAssumption DEF CallsCounted, Leaving, TypeOK
<1>4. CallsCounted' /\ (killed \subseteq told)'
  BY <1>1, <1>3 DEF CallsCounted, Leaving, ReturnCode
<1>5. CallsStop' /\ CallsTold'
  BY <1>1, CallsDiffer DEF CallsStop, CallsTold
<1>6. StartedFirst' /\ LeavesStopping'
  BY <1>1 DEF StartedFirst, LeavesStopping, Starting, Leaving
<1>7. ~early /\ stopping => \A c \in Children : Done(c)
  BY EmptySeq DEF SomeCallFinishes
<1>8. SomeCallFinishes'
  BY <1>1, <1>7, CallsDiffer DEF SomeCallFinishes, Done, Ended
<1>9. QED
  BY <1>2, <1>4, <1>5, <1>6, <1>8

\* The top of the stack, as a place in it.
LEMMA TopPlace ==
  ASSUME stack \in Seq(Call), NEW l, At(l)
  PROVE  /\ stack # <<>>
         /\ Len(stack) \in 1..Len(stack)
         /\ stack[Len(stack)] = l
  BY EmptySeq DEF At, Last

LEMMA CheckInv == ASSUME IInv, Check PROVE IInv'
<1>1. stack # <<>> /\ stack[Len(stack)] = <<"check">>
  BY TopPlace DEF Check, IInv, TypeOK
<1>2. CASE stopping
  <2>1. killed \subseteq told
    BY DEF IInv
  <2>2. QED
    BY <1>1, <1>2, <2>1, GoesBack DEF Check
<1>3. CASE ~stopping
  BY <1>1, <1>3, GoesOn, CallsAreCalls, CallsDiffer DEF Check, IInv, TypeOK
<1>4. QED
  BY <1>2, <1>3

LEMMA SetInv == ASSUME IInv, Set PROVE IInv'
<1>1. stack # <<>>
  BY DEF Set, At
<1>2. QED
  BY <1>1, GoesOn, CallsAreCalls, CallsDiffer DEF Set, IInv, TypeOK

LEMMA SendInv == ASSUME IInv, NEW c \in Children, Send(c) PROVE IInv'
<1>1. /\ stack # <<>> /\ Len(stack) \in 1..Len(stack)
      /\ stack[Len(stack)] = <<"send", c>>
  BY TopPlace DEF Send, IInv, TypeOK
<1>2. /\ told \subseteq told' /\ told' \subseteq Children
      /\ Alive(c) => c \in told'
      /\ killed \subseteq killed' /\ killed' \subseteq told'
  BY DEF Send, Reached, IInv, TypeOK
<1>3. stopping
  BY <1>1, CallsDiffer DEF IInv, CallsStop
<1>4. CASE c = Api
  <2>1. Goto(<<"send", Worker>>)
    BY <1>4 DEF Send
  <2>2. \A d \in Children : PastSend(<<"send", Worker>>, d) /\ Alive(d) => d \in told'
    BY <1>2, <1>4, CallsAreCalls, CallsDiffer
  <2>3. QED
    BY <1>1, <1>2, <1>3, <2>1, <2>2, GoesOn, CallsAreCalls, CallsDiffer DEF Send, IInv, TypeOK
<1>5. CASE c = Worker
  <2>1. Goto(<<"wait">>)
    BY <1>5, CallsAreCalls DEF Send
  <2>2. Alive(Api) => Api \in told'
    BY <1>1, <1>2, <1>5, CallsAreCalls, CallsDiffer DEF IInv, CallsTold
  <2>3. \A d \in Children : Alive(d) => d \in told'
    BY <1>2, <1>5, <2>2, CallsAreCalls
  <2>4. QED
    BY <1>1, <1>2, <1>3, <2>1, <2>3, GoesOn, CallsAreCalls, CallsDiffer DEF Send, IInv, TypeOK
<1>6. QED
  BY <1>4, <1>5, CallsAreCalls

\* Where no signal came early, both children were started before any call.
LEMMA CallsComeLate ==
  ASSUME IInv, stack # <<>>, ~early, NEW c \in Children
  PROVE  Alive(c) \/ Ended(c)
  BY DEF IInv, StartedFirst, TypeOK, Process, Alive, Ended

LEMMA AllEndedInv == ASSUME IInv, AllEnded PROVE IInv'
<1>1. stack # <<>> /\ stack[Len(stack)] = <<"wait">> /\ Len(stack) \in 1..Len(stack)
  BY TopPlace DEF AllEnded, IInv, TypeOK
<1>2. ~early => \A c \in Children : Done(c)'
  BY <1>1, CallsComeLate DEF AllEnded, Done, Ended
<1>3. killed \subseteq killed' /\ killed' \subseteq told
  BY DEF AllEnded, IInv
<1>4. stopping
  BY <1>1, CallsDiffer DEF IInv, CallsStop
<1>5. QED
  BY <1>1, <1>2, <1>3, <1>4, GoesBack DEF AllEnded

LEMMA DeadlineInv == ASSUME IInv, Deadline PROVE IInv'
<1>1. /\ stack # <<>> /\ Len(stack) \in 1..Len(stack)
      /\ stack[Len(stack)] = <<"wait">>
  BY TopPlace DEF Deadline, IInv, TypeOK
<1>2. stopping /\ \A c \in Children : Alive(c) => c \in told
  BY <1>1, CallsDiffer DEF IInv, CallsStop, CallsTold
<1>3. QED
  BY <1>1, <1>2, GoesOn, CallsAreCalls, CallsDiffer DEF Deadline, IInv, TypeOK

LEMMA KillInv == ASSUME IInv, NEW c \in Children, Kill(c) PROVE IInv'
<1>1. /\ stack # <<>> /\ Len(stack) \in 1..Len(stack)
      /\ stack[Len(stack)] = <<"kill", c>>
  BY TopPlace DEF Kill, IInv, TypeOK
<1>2. stopping /\ \A d \in Children : Alive(d) => d \in told
  BY <1>1, CallsDiffer DEF IInv, CallsStop, CallsTold
<1>3. killed \subseteq killed' /\ killed' \subseteq told
  BY <1>2 DEF Kill, Overstays, IInv
<1>4. ~early => Done(c)'
  BY <1>1, CallsComeLate DEF Kill, Overstays, Done, Ended, Alive
<1>5. CASE c = Api
  <2>1. Goto(<<"kill", Worker>>)
    BY <1>5 DEF Kill
  <2>2. \A d \in Children : PastSend(<<"kill", Worker>>, d) /\ Alive(d) => d \in told'
    BY <1>2 DEF Kill
  <2>3. killed' \subseteq told' /\ told' = told /\ told \subseteq Children
    BY <1>3 DEF Kill, IInv, TypeOK
  <2>4. QED
    BY <1>1, <1>2, <1>3, <1>4, <1>5, <2>1, <2>2, <2>3, GoesOn, CallsAreCalls, CallsDiffer
    DEF Kill, IInv, TypeOK
<1>6. CASE c = Worker
  <2>1. ~early => Done(Api)
    BY <1>1, <1>6 DEF IInv, SomeCallFinishes
  <2>2. ~early => \A d \in Children : Done(d)'
    BY <1>3, <1>4, <1>6, <2>1, CallsAreCalls DEF Done, Ended, Kill
  <2>3. Return
    BY <1>6, CallsAreCalls DEF Kill
  <2>4. QED
    BY <1>1, <1>2, <1>3, <2>2, <2>3, GoesBack DEF Kill
<1>7. QED
  BY <1>5, <1>6, CallsAreCalls

LEMMA SignalInv == ASSUME IInv, Signal PROVE IInv'
<1> USE DEF Signal, IInv
<1>1. /\ stack' \in Seq(Call) /\ stack' # <<>>
      /\ Len(stack) \in Nat
      /\ Len(stack') = Len(stack) + 1
      /\ \A i \in 1..Len(stack) : stack'[i] = stack[i]
      /\ stack'[Len(stack) + 1] = <<"check">>
  <2>1. stack \in Seq(Call) /\ <<"check">> \in Call
    BY CallsAreCalls DEF TypeOK
  <2>2. Len(stack) \in Nat
    BY <2>1, LenProperties
  <2>3. QED
    BY <2>1, <2>2, AppendProperties
<1>2. /\ signals' \in 0..MaxSignals /\ signals' = signals + 1
      /\ signals \in Nat /\ early' \in BOOLEAN
  BY CombinedRunnerAssumption DEF TypeOK
<1>3. CallsCounted' /\ (killed \subseteq told)'
  BY <1>1, <1>2 DEF CallsCounted, Leaving
<1>4. Len(stack') <= MaxSignals + 1
  BY <1>1, <1>2, <1>3, CombinedRunnerAssumption DEF CallsCounted
<1>5. TypeOK'
  BY <1>1, <1>2, <1>4 DEF TypeOK
<1>6. CallsStop' /\ CallsTold'
  BY <1>1, CallsDiffer DEF CallsStop, CallsTold, Alive
<1>7. StartedFirst' /\ LeavesStopping'
  <2>1. Starting => early'
    BY CallsAreCalls DEF StartedFirst
  <2>2. StartedFirst'
    BY <2>1 DEF StartedFirst, Starting
  <2>3. LeavesStopping'
    BY <1>1 DEF LeavesStopping, Leaving, Running
  <2>4. QED
    BY <2>2, <2>3
<1>8. SomeCallFinishes'
  <2>1. \A c \in Children : Done(c)' <=> Done(c)
    BY DEF Done, Ended
  <2>2. ASSUME ~early, NEW i \in 1..Len(stack'), stack'[i] = <<"kill", Worker>>
        PROVE  Done(Api)
    <3>1. i # Len(stack) + 1
      BY <1>1, <2>2, CallsDiffer
    <3>2. i \in 1..Len(stack) /\ stack[i] = <<"kill", Worker>>
      BY <1>1, <2>2, <3>1
    <3>3. QED
      BY <2>2, <3>2 DEF SomeCallFinishes
  <2>3. ASSUME ~early, stopping, \A i \in 1..Len(stack') : stack'[i] = <<"check">>
        PROVE  \A c \in Children : Done(c)
    <3>1. \A i \in 1..Len(stack) : stack[i] = <<"check">>
      BY <1>1, <2>3
    <3>2. QED
      BY <2>3, <3>1 DEF SomeCallFinishes
  <2>4. QED
    BY <2>1, <2>2, <2>3, CallsAreCalls DEF SomeCallFinishes
<1>9. QED
  BY <1>3, <1>5, <1>6, <1>7, <1>8

LEMMA EndsInv ==
  ASSUME IInv, NEW c \in Children, NEW end \in {"zero", "nonzero"}, Ends(c, end)
  PROVE  IInv'
<1> USE DEF Ends, IInv
<1>1. TypeOK'
  BY DEF TypeOK, Process
<1>2. \A d \in Children :
         /\ Alive(d)' => Alive(d)
         /\ Done(d) => Done(d)'
         /\ child'[d] = "none" <=> child[d] = "none"
  BY DEF TypeOK, Alive, Done, Ended
<1>3. CallsCounted' /\ (killed \subseteq told)' /\ LeavesStopping' /\ CallsStop'
  BY DEF CallsCounted, LeavesStopping, CallsStop, Leaving
<1>4. CallsTold'
  BY <1>2 DEF CallsTold
<1>5. StartedFirst'
  BY <1>2, CallsAreCalls DEF StartedFirst, Starting
<1>6. SomeCallFinishes'
  BY <1>2, CallsAreCalls DEF SomeCallFinishes
<1>7. QED
  BY <1>1, <1>3, <1>4, <1>5, <1>6

LEMMA StutterInv == ASSUME IInv, UNCHANGED vars PROVE IInv'
  BY DEF vars, IInv, TypeOK, CallsCounted, CallsStop, CallsTold, StartedFirst,
         LeavesStopping, SomeCallFinishes, Alive, Done, Ended, Starting, Leaving

LEMMA StepInv == IInv /\ [Next]_vars => IInv'
<1> SUFFICES ASSUME IInv, [Next]_vars PROVE IInv'
  OBVIOUS
<1>1. CASE \E c \in Children : Start(c)
  BY <1>1, StartInv
<1>2. CASE FindExit \/ Exit
  BY <1>2, MainInv
<1>3. CASE HandleExit
  BY <1>3, HandleExitInv
<1>4. CASE Calls
  BY <1>4, CheckInv, SetInv, SendInv, KillInv, AllEndedInv, DeadlineInv DEF Calls
<1>5. CASE Signal
  BY <1>5, SignalInv
<1>6. CASE \E c \in Children, end \in {"zero", "nonzero"} : Ends(c, end)
  BY <1>6, EndsInv
<1>7. CASE UNCHANGED vars
  BY <1>7, StutterInv
<1>8. QED
  BY <1>1, <1>2, <1>3, <1>4, <1>5, <1>6, <1>7 DEF Next, Parent

THEOREM Invariance == Spec => []IInv
<1>1. QED
  BY InitInv, StepInv, PTL DEF Spec

-----------------------------------------------------------------------------
(* The theorems.                                                           *)

\* Types of the state, and no more calls of stop_children at once than signals
\* and one.
THEOREM TypeCorrect == Spec => []TypeOK
<1>1. IInv => TypeOK
  BY DEF IInv
<1>2. QED
  BY <1>1, Invariance, PTL

\* The parent leaves no child alive that it has not killed (stop_children,
\* run_forever).
THEOREM LeavesNoOrphan == Spec => []NoOrphan
<1>1. ASSUME IInv, main = "exited", ~early
      PROVE  \A c \in Children : Done(c)
  <2>1. stack = <<>> /\ stopping
    BY <1>1 DEF IInv, LeavesStopping, Leaving
  <2>2. Len(stack) = 0
    BY <2>1
  <2>3. QED
    BY <1>1, <2>1, <2>2 DEF IInv, SomeCallFinishes
<1>2. IInv => NoOrphan
  BY <1>1 DEF NoOrphan, Done
<1>3. QED
  BY <1>2, Invariance, PTL

\* The parent tells before it kills, and reports success only where it was asked
\* to stop (stop_children, _handle_child_exit).
THEOREM ShutsDownInOrder == Spec => []OrderlyShutdown
<1>1. IInv => OrderlyShutdown
  BY DEF IInv, CallsCounted, OrderlyShutdown, KilledWereTold, SuccessWasAskedFor
<1>2. QED
  BY <1>1, Invariance, PTL

=============================================================================
