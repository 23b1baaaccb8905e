--------------------------- MODULE CombinedRunner ---------------------------
(***************************************************************************)
(* The combined runtime: a parent that starts the API and the worker as    *)
(* child processes, forwards shutdown signals to them, and goes down when  *)
(* one of them has gone (CombinedRunner).                                  *)
(*                                                                         *)
(* The signal handler runs on top of whatever the parent is doing, another *)
(* handler included.  Both it and the monitor loop call stop_children, so  *)
(* the calls of that method that are under way form a stack, of which only *)
(* the top one advances.                                                   *)
(***************************************************************************)
EXTENDS Naturals, Sequences, SequencesExt

CONSTANT MaxSignals    \* bound on the shutdown signals

ASSUME CombinedRunnerAssumption == MaxSignals \in Nat

Api == 1
Worker == 2
Children == {Api, Worker}

VARIABLES
    child,        \* what the operating system knows of each child process
    told,         \* the children that a signal has been forwarded to
    killed,       \* the children that have been sent SIGKILL
    stopping,     \* self._stopping
    main,         \* where run_forever stands, below the calls on the stack
    stack,        \* the calls of stop_children under way: where each stands
    code,         \* the exit code that the parent will have
    signals,      \* how many signals the parent has received
    early         \* did one come before both children were started?

vars == <<child, told, killed, stopping, main, stack, code, signals, early>>

-----------------------------------------------------------------------------
(* The state.                                                              *)

\* A child ends with a return code that is zero or not.
Process == {"none", "alive", "zero", "nonzero"}
Alive(c) == child[c] = "alive"
Ended(c) == child[c] \in {"zero", "nonzero"}

Main == {"start_api", "start_worker", "monitor", "exit_of_child", "leave", "exited"}

\* <<"send", c>>: about to forward the signal to c; <<"kill", c>>: to kill it.
Call == {<<"check">>, <<"set">>, <<"wait">>} \cup {"send", "kill"} \X Children

Init ==
    /\ child = [c \in Children |-> "none"]
    /\ told = {}
    /\ killed = {}
    /\ stopping = FALSE
    /\ main = "start_api"
    /\ stack = <<>>
    /\ code = "none"
    /\ signals = 0
    /\ early = FALSE

Running == main # "exited"

-----------------------------------------------------------------------------
(* run_forever.                                                            *)

MainAt(l) == main = l /\ stack = <<>>

Start(c) ==
    /\ MainAt(IF c = Api THEN "start_api" ELSE "start_worker")
    /\ child' = [child EXCEPT ![c] = "alive"]
    /\ main' = IF c = Api THEN "start_worker" ELSE "monitor"
    /\ UNCHANGED <<told, killed, stopping, stack, code, signals, early>>

\* _monitor_children: an ended child is found.
FindExit ==
    /\ MainAt("monitor")
    /\ \E c \in Children : Ended(c)
    /\ main' = "exit_of_child"
    /\ UNCHANGED <<child, told, killed, stopping, stack, code, signals, early>>

\* Mutant: a child that ends with 0 takes the parent with it as 0.
ReturnCodeAsIs == IF \E c \in Children : child[c] = "nonzero" THEN "nonzero" ELSE "zero"

\* exited_code or 1
ReturnCode == "nonzero"

\* _handle_child_exit: the end was asked for, or was not; stop_children is
\* called either way.
HandleExit ==
    /\ MainAt("exit_of_child")
    /\ code' = IF stopping THEN "zero" ELSE ReturnCode
    /\ stack' = << <<"check">> >>
    /\ main' = "leave"
    /\ UNCHANGED <<child, told, killed, stopping, signals, early>>

\* SystemExit
Exit ==
    /\ MainAt("leave")
    /\ main' = "exited"
    /\ UNCHANGED <<child, told, killed, stopping, stack, code, signals, early>>

-----------------------------------------------------------------------------
(* stop_children: one call, the topmost.                                   *)

At(l) == stack # <<>> /\ Last(stack) = l

Goto(l) == stack' = Append(Front(stack), l)
Return == stack' = Front(stack)

Check ==
    /\ At(<<"check">>)
    /\ IF stopping THEN Return ELSE Goto(<<"set">>)
    /\ UNCHANGED <<child, told, killed, stopping, main, code, signals, early>>

Set ==
    /\ At(<<"set">>)
    /\ stopping' = TRUE
    /\ Goto(<<"send", Api>>)
    /\ UNCHANGED <<child, told, killed, main, code, signals, early>>

\* Mutant: only the API is told.
ToldApiOnly(c) == c = Api /\ Alive(c)

\* A process that was not started, or has ended, is passed over.
Reached(c) == Alive(c)

Send(c) ==
    /\ At(<<"send", c>>)
    /\ told' = IF Reached(c) THEN told \cup {c} ELSE told
    /\ Goto(IF c = Api THEN <<"send", Worker>> ELSE <<"wait">>)
    /\ UNCHANGED <<child, killed, stopping, main, code, signals, early>>

\* None is alive any more, in time.
AllEnded ==
    /\ At(<<"wait">>)
    /\ \A c \in Children : ~Alive(c)
    /\ Return
    /\ UNCHANGED <<child, told, killed, stopping, main, code, signals, early>>

\* Mutant: the wait has no deadline.
NeverOverdue == FALSE

\* The deadline may pass at any time.
Overdue == TRUE

Deadline ==
    /\ At(<<"wait">>)
    /\ Overdue
    /\ Goto(<<"kill", Api>>)
    /\ UNCHANGED <<child, told, killed, stopping, main, code, signals, early>>

\* Mutant: only the API is killed.
KilledApiOnly(c) == c = Api /\ Alive(c)

Overstays(c) == Alive(c)

Kill(c) ==
    /\ At(<<"kill", c>>)
    /\ killed' = IF Overstays(c) THEN killed \cup {c} ELSE killed
    /\ IF c = Api THEN Goto(<<"kill", Worker>>) ELSE Return
    /\ UNCHANGED <<child, told, stopping, main, code, signals, early>>

-----------------------------------------------------------------------------
(* What comes from outside.                                                *)

\* A shutdown signal: the handler calls stop_children.
Signal ==
    /\ Running
    /\ signals < MaxSignals
    /\ signals' = signals + 1
    /\ early' = (early \/ \E c \in Children : child[c] = "none")
    /\ stack' = Append(stack, <<"check">>)
    /\ UNCHANGED <<child, told, killed, stopping, main, code>>

\* A child ends: of its own accord, because it was told, or because it was
\* killed, and then with a nonzero code.
Ends(c, end) ==
    /\ Alive(c)
    /\ end = "zero" => c \notin killed
    /\ child' = [child EXCEPT ![c] = end]
    /\ UNCHANGED <<told, killed, stopping, main, stack, code, signals, early>>

-----------------------------------------------------------------------------

Calls ==
    \/ Check
    \/ Set
    \/ \E c \in Children : Send(c) \/ Kill(c)
    \/ AllEnded
    \/ Deadline

Parent ==
    \/ \E c \in Children : Start(c)
    \/ FindExit
    \/ HandleExit
    \/ Exit
    \/ Calls

Next ==
    \/ Parent
    \/ Signal
    \/ \E c \in Children, end \in {"zero", "nonzero"} : Ends(c, end)

Spec == Init /\ [][Next]_vars

\* The parent goes on, and SIGKILL ends a process.  Nothing else is promised: a
\* child may run for ever and ignore what it is told.
FairSpec ==
    /\ Spec
    /\ WF_vars(Parent)
    /\ \A c \in Children : WF_vars(c \in killed /\ Ends(c, "nonzero"))

-----------------------------------------------------------------------------
(* Properties.                                                             *)

TypeOK ==
    /\ child \in [Children -> Process]
    /\ told \subseteq Children
    /\ killed \subseteq Children
    /\ stopping \in BOOLEAN
    /\ main \in Main
    /\ stack \in Seq(Call)
    /\ Len(stack) <= MaxSignals + 1
    /\ code \in {"none", "zero", "nonzero"}
    /\ signals \in 0..MaxSignals
    /\ early \in BOOLEAN

\* When the parent has exited, no child lives on that it has not killed, however
\* signals and exits of children cross; unless a signal came before both were
\* started (stop_children).
NoOrphan ==
    main = "exited" /\ ~early => \A c \in Children : Ended(c) \/ c \in killed

\* The parent reports success only if it was asked to stop: a child that ends by
\* itself, with whatever code, makes it fail, so that the pod is restarted
\* (_handle_child_exit).
SuccessWasAskedFor == main = "exited" /\ code = "zero" => signals > 0

\* No child is killed that was not told to stop before (stop_children).
KilledWereTold == killed \subseteq told

\* The parent goes down in order: it tells before it kills, and reports success
\* only where it was asked to stop.
OrderlyShutdown == KilledWereTold /\ SuccessWasAskedFor

\* Once a child has ended or a signal has come, the whole runtime goes down,
\* though a child may ignore what it is told; unless a signal came before both
\* children were started (run_forever, stop_children).
GoesDownTogether ==
    (signals > 0 \/ \E c \in Children : Ended(c)) ~>
        (early \/ (main = "exited" /\ \A c \in Children : Ended(c)))

=============================================================================
