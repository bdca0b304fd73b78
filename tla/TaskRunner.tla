----------------------------- MODULE TaskRunner -----------------------------
(***************************************************************************)
(* Tasks and their runner (talk/base/task.cc, taskparent.cc,               *)
(* taskrunner.cc), as XmppPump runs them: WakeTasks posts a message to the *)
(* pump's thread, which calls RunTasks.                                    *)
(*                                                                         *)
(* RunTasks goes over tasks_ and steps what is not blocked; "at" is where  *)
(* it is.  While Process of a task runs, and between two messages of the   *)
(* thread, tasks are created, woken, failed, aborted and given timeouts,   *)
(* MaxCalls times in all.  Task 0 is the runner.                           *)
(*                                                                         *)
(* Callers keep the contracts: they name tasks that are not done, and      *)
(* Start follows the constructor.  Left out: the subclass' states (START   *)
(* stands for all of them), child_error_, OnTimeoutChange, which does      *)
(* nothing in this program, and the _DEBUG checks.                         *)
(***************************************************************************)
EXTENDS Integers, Sequences, FiniteSets, SequencesExt

CONSTANTS
  Tasks,      \* 1..n
  MaxCalls,
  MaxTicks,   \* how long time runs
  Wrap,       \* values of the clock, 2^32 in the code
  Timeouts    \* timeout_seconds_ that tasks set

ASSUME TaskAssumption ==
  /\ Tasks \subseteq Nat \ {0} /\ IsFiniteSet(Tasks)
  /\ MaxCalls \in Nat /\ MaxTicks \in Nat /\ Wrap \in Nat \ {0, 1}
  /\ Timeouts \subseteq 0..(Wrap - 1)

VARIABLES
  task,       \* task[t]: the members of Task
  children,   \* children[p]: children_ of TaskParent
  tasks,      \* tasks_
  next_timeout_task,
  at,         \* RunTasks: [pc, i, did_run]
  posted,     \* the message of WakeTasks is in the queue
  now,        \* CurrentTime
  ticks,
  calls

vars == <<task, children, tasks, next_timeout_task, at, posted, now, ticks, calls>>
clock == <<now, ticks>>

Runner == 0
None == 0
Parents == Tasks \cup {Runner}
NotRunning == [pc |-> "idle", i |-> 0, did_run |-> FALSE]
NewTask(p) ==
  [exists |-> "live", parent |-> p, state |-> "INIT", blocked |-> FALSE, done |-> FALSE,
   aborted |-> FALSE, busy |-> FALSE, error |-> FALSE, timeout_time |-> 0,
   timeout_seconds |-> 0, suspended |-> FALSE, age |-> 0]   \* age: since ResetTimeout
Unborn == [NewTask(Runner) EXCEPT !.exists = "not yet"]

Live(t) == task[t].exists = "live"

Init ==
  /\ task = [t \in Tasks |-> Unborn]
  /\ children = [p \in Parents |-> {}]
  /\ tasks = <<>>
  /\ next_timeout_task = None
  /\ at = NotRunning
  /\ posted = FALSE
  /\ now \in 0..(Wrap - 1)
  /\ ticks = 0 /\ calls = 0

-----------------------------------------------------------------------------
(* Timeouts.  tk is task after the assignments made so far.                 *)

(* RecalcNextTimeout: the last of the tasks with the closest timeout.       *)
RecalcNextTimeout(tk, ts, exclude) ==
  LET able == {i \in DOMAIN ts : /\ ts[i] # exclude /\ ~tk[ts[i]].done
                                 /\ tk[ts[i]].timeout_time > 0}
      closest == {i \in able : \A j \in able : tk[ts[i]].timeout_time <= tk[ts[j]].timeout_time}
  IN  IF able = {} THEN None ELSE ts[CHOOSE i \in closest : \A j \in closest : j <= i]

UpdateTaskTimeout(tk, t) ==
  LET n == next_timeout_task IN
  IF tk[t].timeout_time # 0
    THEN IF n = None \/ tk[t].timeout_time <= tk[n].timeout_time THEN t ELSE n
    ELSE IF n = t THEN RecalcNextTimeout(tk, tasks, t) ELSE n

(* The clock has Wrap values; Task subtracts Wrap - 1.                      *)
TimeAfter(s) == IF now + s > Wrap - 1 THEN now + s - (Wrap - 1) ELSE now + s

ResetTimeout(k) ==
  [k EXCEPT !.timeout_time = IF /\ k.timeout_seconds # 0 /\ ~k.suspended
                                /\ k.state \notin {"INIT", "DONE", "ERROR"}
                             THEN TimeAfter(k.timeout_seconds) ELSE 0,
            !.age = 0]

TimedOut(k) == k.timeout_seconds # 0 /\ k.timeout_time # 0 /\ now >= k.timeout_time

(* Tick is the time that goes by.                                           *)
Tick ==
  /\ ticks < MaxTicks
  /\ ticks' = ticks + 1
  /\ now' = (now + 1) % Wrap
  /\ task' = [t \in Tasks |-> IF task[t].timeout_time # 0 THEN [task[t] EXCEPT !.age = @ + 1]
                                                        ELSE task[t]]
  /\ UNCHANGED <<children, tasks, next_timeout_task, at, posted, calls>>

-----------------------------------------------------------------------------
(* Abort and Stop.                                                          *)

(* Abort reaches the children of every task that it stops, and theirs; one  *)
(* that is busy is only marked.  The tasks reached are the smallest set     *)
(* that holds ts and is closed in this sense.                               *)
Closed(tk, ts, S) == ts \subseteq S /\ \A u \in S : tk[u].busy \/ tk[u].done \/ children[u] \subseteq S

Aborted(tk, ts) ==
  {t \in Tasks : ~tk[t].done /\ \A S \in SUBSET Tasks : Closed(tk, ts, S) => t \in S}

AbortAll(tk, ts) ==
  [t \in Tasks |->
     IF t \notin Aborted(tk, ts) THEN tk[t]
     ELSE IF tk[t].busy THEN [tk[t] EXCEPT !.aborted = TRUE]
     ELSE [tk[t] EXCEPT !.aborted = TRUE, !.done = TRUE, !.blocked = TRUE, !.error = TRUE]]

(* OnChildStopped of the tasks that are done in tk and were not before.     *)
Unlink(tk) ==
  [p \in Parents |-> {t \in children[p] : ~(tk[t].done /\ ~task[t].done)}]

(* Mutant: Stop does not abort the children.                                *)
StopAlone(tk, t) == task' = tk /\ children' = Unlink(tk)

(* A task that becomes done aborts its children and leaves its parent.      *)
Stop(tk, t) ==
  LET after == AbortAll(tk, children[t])
  IN  task' = after /\ children' = Unlink(after)

-----------------------------------------------------------------------------
(* What tasks and the other handlers of the thread call.  Process of the    *)
(* state INIT only returns START.                                           *)
Current == tasks[at.i]
InProcess == at.pc = "process" /\ task[Current].state # "INIT"
Calls ==
  /\ at.pc = "idle" \/ InProcess
  /\ calls < MaxCalls /\ calls' = calls + 1
Usable(t) == Live(t) /\ ~task[t].done

(* The constructor and Start.                                               *)
Start(t, p) ==
  /\ Calls
  /\ task[t] = Unborn /\ \A u \in Tasks : u < t => task[u] # Unborn
  /\ p # Runner => Usable(p)
  /\ task' = [task EXCEPT ![t] = NewTask(p)]
  /\ children' = [children EXCEPT ![p] = @ \cup {t}]
  /\ tasks' = Append(tasks, t)
  /\ posted' = TRUE
  /\ UNCHANGED <<next_timeout_task, at, clock>>

Wake(t) ==
  /\ Calls /\ Usable(t)
  /\ task' = [task EXCEPT ![t].blocked = FALSE]
  /\ posted' = (posted \/ task[t].blocked)
  /\ UNCHANGED <<children, tasks, next_timeout_task, at, clock>>

Error(t) ==
  /\ Calls /\ Usable(t) /\ ~task[t].error
  /\ task' = [task EXCEPT ![t].error = TRUE, ![t].blocked = FALSE]
  /\ posted' = (posted \/ task[t].blocked)
  /\ UNCHANGED <<children, tasks, next_timeout_task, at, clock>>

(* Mutant: Abort without WakeTasks.                                         *)
AbortNoWake(t) ==
  /\ Calls /\ Usable(t)
  /\ LET after == AbortAll(task, {t})
     IN  task' = after /\ children' = Unlink(after)
  /\ UNCHANGED <<tasks, next_timeout_task, at, posted, clock>>

Abort(t) ==
  /\ Calls /\ Usable(t)
  /\ LET after == AbortAll(task, {t})
     IN  task' = after /\ children' = Unlink(after)
  /\ posted' = (posted \/ ~task[t].busy)
  /\ UNCHANGED <<tasks, next_timeout_task, at, clock>>

(* set_timeout_seconds, SuspendTimeout and ResumeTimeout.                   *)
SetTimeout(t, s, suspend) ==
  /\ Calls /\ Usable(t)
  /\ LET k == ResetTimeout([task[t] EXCEPT !.timeout_seconds = s, !.suspended = suspend])
         tk == [task EXCEPT ![t] = k]
     IN  task' = tk /\ next_timeout_task' = UpdateTaskTimeout(tk, t)
  /\ UNCHANGED <<children, tasks, at, posted, clock>>

(* PollTasks wakes the next task that times out, once.                      *)
PollTasks ==
  /\ at.pc = "idle" /\ calls < MaxCalls /\ calls' = calls + 1
  /\ LET n == next_timeout_task IN
       /\ n # None /\ TimedOut(task[n])
       /\ task' = IF task[n].done THEN task ELSE [task EXCEPT ![n].blocked = FALSE]
  /\ posted' = TRUE
  /\ UNCHANGED <<children, tasks, next_timeout_task, at, clock>>

-----------------------------------------------------------------------------
(* RunTasks.                                                                *)
OnMessage ==
  /\ at.pc = "idle" /\ posted
  /\ posted' = FALSE
  /\ at' = [pc |-> "scan", i |-> 1, did_run |-> FALSE]
  /\ UNCHANGED <<task, children, tasks, next_timeout_task, clock, calls>>

Scanning == at.pc = "scan" /\ at.i <= Len(tasks)
Steps == Scanning /\ ~task[Current].blocked

Skip ==
  /\ Scanning /\ task[Current].blocked
  /\ at' = [at EXCEPT !.i = @ + 1]
  /\ UNCHANGED <<task, children, tasks, next_timeout_task, posted, clock, calls>>

(* Step of a task on which Error was called.                                *)
StepError ==
  /\ Steps /\ task[Current].error
  /\ Stop([task EXCEPT ![Current].done = TRUE, ![Current].state = "ERROR",
                       ![Current].blocked = TRUE], Current)
  /\ at' = [at EXCEPT !.did_run = TRUE]
  /\ UNCHANGED <<tasks, next_timeout_task, posted, clock, calls>>

(* Step calls Process, which clears a timeout that has come.                *)
StepProcess ==
  /\ Steps /\ ~task[Current].error
  /\ LET t == Current
         late == TimedOut(task[t])
         tk == [task EXCEPT ![t].busy = TRUE, ![t].timeout_time = IF late THEN 0 ELSE @]
     IN  /\ task' = tk
         /\ next_timeout_task' = IF late THEN UpdateTaskTimeout(tk, t) ELSE next_timeout_task
         /\ at' = [at EXCEPT !.pc = "process", !.did_run = TRUE]
  /\ UNCHANGED <<children, tasks, posted, clock, calls>>

(* Process returns: an abort meanwhile is carried out now,                  *)
StepAborted ==
  /\ at.pc = "process" /\ task[Current].aborted
  /\ Stop([task EXCEPT ![Current].busy = FALSE, ![Current].done = TRUE,
                       ![Current].blocked = TRUE, ![Current].error = TRUE], Current)
  /\ at' = [at EXCEPT !.pc = "scan"]
  /\ UNCHANGED <<tasks, next_timeout_task, posted, clock, calls>>

Returned(state) ==
  LET k == [task[Current] EXCEPT !.busy = FALSE, !.blocked = (state = "BLOCKED")] IN
  IF state = "BLOCKED" THEN k ELSE ResetTimeout([k EXCEPT !.state = state])

(* or the task is blocked or in a new state,                                *)
StepReturns(state) ==
  /\ at.pc = "process" /\ ~task[Current].aborted
  /\ InProcess \/ state = "START"
  /\ LET tk == [task EXCEPT ![Current] = Returned(state)]
     IN  /\ task' = tk
         /\ next_timeout_task' = IF state = "BLOCKED" THEN next_timeout_task
                                 ELSE UpdateTaskTimeout(tk, Current)
  /\ at' = [at EXCEPT !.pc = "scan"]
  /\ UNCHANGED <<children, tasks, posted, clock, calls>>

Finished(state) ==
  [Returned(state) EXCEPT !.done = TRUE, !.blocked = TRUE, !.error = @ \/ state = "ERROR"]

(* or done, with or without an error.                                       *)
StepDone(state) ==
  /\ InProcess /\ ~task[Current].aborted
  /\ LET tk == [task EXCEPT ![Current] = Finished(state)]
     IN  /\ Stop(tk, Current)
         /\ next_timeout_task' = UpdateTaskTimeout([task EXCEPT ![Current] = Returned(state)], Current)
  /\ at' = [at EXCEPT !.pc = "scan"]
  /\ UNCHANGED <<tasks, posted, clock, calls>>

Again ==
  /\ at.pc = "scan" /\ at.i > Len(tasks) /\ at.did_run
  /\ at' = [pc |-> "scan", i |-> 1, did_run |-> FALSE]
  /\ UNCHANGED <<task, children, tasks, next_timeout_task, posted, clock, calls>>

(* left is tasks_ without the tasks of gone, in the order they have there   *)
(* (std::remove and erase).                                                 *)
Removed(gone, left) ==
  /\ ToSet(left) = ToSet(tasks) \ gone
  /\ \A i, j \in DOMAIN left : i < j =>
       \E k, l \in DOMAIN tasks : k < l /\ tasks[k] = left[i] /\ tasks[l] = left[j]

(* Mutant: RunTasks deletes the tasks and does not look at the timeout.     *)
DeleteTasksKeepNext ==
  LET gone == {t \in ToSet(tasks) : task[t].done}
  IN  \E left \in SeqOf(Tasks, Len(tasks)) :
        /\ Removed(gone, left)
        /\ task' = [t \in Tasks |-> IF t \in gone THEN [task[t] EXCEPT !.exists = "deleted"]
                                                  ELSE task[t]]
        /\ tasks' = left
        /\ UNCHANGED next_timeout_task

(* The tasks that are done are deleted.                                     *)
DeleteTasks ==
  LET gone == {t \in ToSet(tasks) : task[t].done}
  IN  \E left \in SeqOf(Tasks, Len(tasks)) :
        /\ Removed(gone, left)
        /\ task' = [t \in Tasks |-> IF t \in gone THEN [task[t] EXCEPT !.exists = "deleted"]
                                                  ELSE task[t]]
        /\ tasks' = left
        /\ next_timeout_task' = IF next_timeout_task \in gone
                                THEN RecalcNextTimeout(task, left, None) ELSE next_timeout_task

RunEnds ==
  /\ at.pc = "scan" /\ at.i > Len(tasks) /\ ~at.did_run
  /\ DeleteTasks
  /\ at' = NotRunning
  /\ UNCHANGED <<children, posted, clock, calls>>

-----------------------------------------------------------------------------
Next ==
  \/ Tick \/ PollTasks \/ OnMessage \/ Skip \/ StepError \/ StepProcess \/ StepAborted
  \/ \E s \in {"BLOCKED", "START"} : StepReturns(s)
  \/ \E s \in {"DONE", "ERROR"} : StepDone(s)
  \/ Again \/ RunEnds
  \/ \E t \in Tasks, p \in Parents : Start(t, p)
  \/ \E t \in Tasks : Wake(t) \/ Error(t) \/ Abort(t)
  \/ \E t \in Tasks, s \in Timeouts, b \in BOOLEAN : SetTimeout(t, s, b)

Spec == Init /\ [][Next]_vars

-----------------------------------------------------------------------------
(* Properties.                                                              *)

(* No pointer to a deleted task is left: not in tasks_, in children_, as    *)
(* the next task to time out, nor as the parent of a task that is not done  *)
(* and will tell it when it stops.                                          *)
NoDangling ==
  /\ \A t \in ToSet(tasks) : Live(t)
  /\ \A p \in Parents : \A t \in children[p] : Live(t)
  /\ next_timeout_task # None => Live(next_timeout_task)
  /\ \A t \in Tasks : Usable(t) => task[t].parent = Runner \/ Live(task[t].parent)

(* A task that can go on, or is done and waits to be deleted, is seen by a  *)
(* RunTasks that is running or posted.  (Error and Wake of a task inside    *)
(* its own Process are undone when that returns STATE_BLOCKED: such a task  *)
(* is blocked again, and this says nothing of it.)                          *)
NoLostWake ==
  at.pc = "idle" /\ ~posted => \A t \in ToSet(tasks) : task[t].blocked /\ ~task[t].done

(* Whatever ends a task ends its children (task.h: "the task engine will    *)
(* make sure all those children are aborted and get deleted"): a child is   *)
(* done as soon as its parent is, unless it is the task that is busy and    *)
(* ended its parent itself.                                                 *)
ChildrenEnd ==
  \A t \in Tasks : Usable(t) /\ task[t].parent # Runner /\ task[task[t].parent].done
                   => task[t].busy /\ task[t].aborted

(* The members of Task.                                                     *)
Task == [exists : {"not yet", "live", "deleted"}, parent : Parents,
         state : {"INIT", "START", "DONE", "ERROR"}, blocked : BOOLEAN, done : BOOLEAN,
         aborted : BOOLEAN, busy : BOOLEAN, error : BOOLEAN, timeout_time : Nat,
         timeout_seconds : Nat, suspended : BOOLEAN, age : Nat]

(* Every variable has the values the code can give it.                      *)
TypeOK ==
  /\ task \in [Tasks -> Task]
  /\ children \in [Parents -> SUBSET Tasks]
  /\ tasks \in Seq(Tasks)
  /\ next_timeout_task \in Parents
  /\ at \in [pc : {"idle", "scan", "process"}, i : Nat, did_run : BOOLEAN]
  /\ posted \in BOOLEAN
  /\ now \in 0..(Wrap - 1)

(* Why NoDangling and ChildrenEnd hold: tasks_ is what is not deleted,      *)
(* children_ is what is not done, each under its parent, a task that is     *)
(* done is blocked, and only the task that Process runs for is busy.        *)
TreeInv ==
  /\ \A t \in Tasks : Live(t) <=> t \in ToSet(tasks)
  /\ \A t \in Tasks : task[t].exists = "not yet" => task[t] = Unborn
  /\ \A t \in Tasks : \A p \in Parents : t \in children[p] <=> Usable(t) /\ task[t].parent = p
  /\ next_timeout_task # None => Live(next_timeout_task)
  /\ \A t \in Tasks : Usable(t) => task[t].parent = Runner \/ Live(task[t].parent)
  /\ \A t \in Tasks : task[t].done => task[t].blocked
  /\ \A t \in Tasks : task[t].busy => at.pc = "process" /\ t = Current
  /\ at.pc = "process" => at.i \in 1..Len(tasks) /\ at.did_run /\ task[Current].busy
                          /\ ~task[Current].done
  /\ ChildrenEnd

(* Why NoLostWake holds: what a pass over tasks_ that ran nothing has seen  *)
(* is blocked, as nothing can wake a task without running one.              *)
ScanInv ==
  /\ NoLostWake
  /\ at.pc = "scan" => at.i >= 1
  /\ at.pc = "scan" /\ ~at.did_run =>
       \A j \in 1..Len(tasks) : j < at.i => task[tasks[j]].blocked

(* A task times out only when it was in its state for timeout_seconds_.     *)
NoEarlyTimeout ==
  \A t \in Tasks : Usable(t) /\ TimedOut(task[t]) => task[t].age >= task[t].timeout_seconds
=============================================================================
