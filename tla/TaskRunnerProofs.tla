-------------------------- MODULE TaskRunnerProofs --------------------------
(***************************************************************************)
(* Proofs about TaskRunner.tla, for every set of tasks and every clock: no *)
(* pointer to a deleted task is left, no wake-up is lost, and the end of a *)
(* task is the end of its children.                                        *)
(***************************************************************************)
EXTENDS TaskRunner, TLAPS, WellFoundedInduction

-----------------------------------------------------------------------------
(* RecalcNextTimeout.                                                       *)

(* A set of naturals has a smallest element.                                *)
LEMMA MinNat ==
  ASSUME NEW S \in SUBSET Nat, S # {}
  PROVE  \E x \in S : \A y \in S : x <= y
<1>1. PICK x \in S : \A y \in S : ~(<<y, x>> \in OpToRel(<, Nat))
  BY WFMin, NatLessThanWellFounded
<1>2. \A y \in S : ~(y < x)
  BY <1>1 DEF OpToRel
<1>. QED
  BY <1>2

(* A set of positions has a last one.                                       *)
LEMMA MaxIndex ==
  ASSUME NEW n \in Nat, NEW S \in SUBSET (1..n), S # {}
  PROVE  \E x \in S : \A y \in S : y <= x
<1>. DEFINE T == {n - x : x \in S}
<1>1. T \in SUBSET Nat /\ T # {}
  <2>1. \A x \in S : n - x \in Nat
    OBVIOUS
  <2>2. PICK x \in S : TRUE
    OBVIOUS
  <2>3. n - x \in T
    BY <2>2
  <2>. QED
    BY <2>1, <2>3
<1>2. PICK m \in T : \A y \in T : m <= y
  BY <1>1, MinNat
<1>3. PICK x \in S : m = n - x
  OBVIOUS
<1>4. \A y \in S : n - x <= n - y
  BY <1>2, <1>3
<1>. QED
  BY <1>4

(* The next task to time out is one of tasks_, if there is one at all: the  *)
(* closest timeout exists, and so does the last task that has it.           *)
LEMMA RecalcIn ==
  ASSUME NEW tk \in [Tasks -> Task], NEW ts \in Seq(Tasks), NEW x
  PROVE  RecalcNextTimeout(tk, ts, x) \in ToSet(ts) \cup {None}
<1>. DEFINE able == {i \in DOMAIN ts : /\ ts[i] # x /\ ~tk[ts[i]].done
                                       /\ tk[ts[i]].timeout_time > 0}
            time(i) == tk[ts[i]].timeout_time
            closest == {i \in able : \A j \in able : time(i) <= time(j)}
<1>0. \A i \in DOMAIN ts : ts[i] \in Tasks /\ time(i) \in Nat
  <2>1. \A i \in DOMAIN ts : ts[i] \in Tasks
    OBVIOUS
  <2>2. \A t \in Tasks : tk[t].timeout_time \in Nat
    <3>1. \A k \in Task : k.timeout_time \in Nat
      BY DEF Task
    <3>. QED
      BY <3>1
  <2>. QED
    BY <2>1, <2>2
<1>1. CASE able = {}
  BY <1>1 DEF RecalcNextTimeout
<1>2. CASE able # {}
  <2>. DEFINE times == {time(i) : i \in able}
  <2>1. times \in SUBSET Nat /\ times # {}
    BY <1>0, <1>2
  <2>2. PICK m \in times : \A y \in times : m <= y
    BY <2>1, MinNat
  <2>3. PICK i \in able : time(i) = m
    BY <2>2
  <2>4. i \in closest
    BY <2>2, <2>3
  <2>5. closest \in SUBSET (1..Len(ts)) /\ Len(ts) \in Nat
    OBVIOUS
  <2>6. \E k \in closest : \A j \in closest : j <= k
    BY <2>4, <2>5, MaxIndex
  <2>7. (CHOOSE k \in closest : \A j \in closest : j <= k) \in DOMAIN ts
    BY <2>6
  <2>8. RecalcNextTimeout(tk, ts, x) = ts[CHOOSE k \in closest : \A j \in closest : j <= k]
    BY <1>2 DEF RecalcNextTimeout
  <2>. QED
    BY <2>7, <2>8 DEF ToSet
<1>. QED
  BY <1>1, <1>2

-----------------------------------------------------------------------------
(* Types.                                                                   *)

(* The members of a task.                                                   *)
LEMMA TaskMembers ==
  ASSUME NEW k \in Task
  PROVE  /\ k.exists \in {"not yet", "live", "deleted"} /\ k.parent \in Parents
         /\ k.state \in {"INIT", "START", "DONE", "ERROR"}
         /\ k.blocked \in BOOLEAN /\ k.done \in BOOLEAN /\ k.aborted \in BOOLEAN
         /\ k.busy \in BOOLEAN /\ k.error \in BOOLEAN /\ k.suspended \in BOOLEAN
         /\ k.timeout_time \in Nat /\ k.timeout_seconds \in Nat /\ k.age \in Nat
BY DEF Task

(* A new task and one that is not created yet.                              *)
LEMMA NewTaskType ==
  /\ \A p \in Parents : NewTask(p) \in Task
  /\ Unborn \in Task /\ Unborn.exists = "not yet" /\ ~Unborn.done /\ ~Unborn.busy
  /\ Unborn.timeout_time = 0
BY DEF NewTask, Unborn, Task, Parents

(* A timeout is a time of the clock.                                        *)
LEMMA TimeAfterType ==
  ASSUME TypeOK, NEW s \in Nat PROVE TimeAfter(s) \in Nat
BY TaskAssumption DEF TypeOK, TimeAfter

(* ResetTimeout sets the timeout and the age only.                          *)
LEMMA ResetType ==
  ASSUME TypeOK, NEW k \in Task
  PROVE  /\ ResetTimeout(k) \in Task
         /\ ResetTimeout(k).exists = k.exists /\ ResetTimeout(k).parent = k.parent
         /\ ResetTimeout(k).blocked = k.blocked /\ ResetTimeout(k).done = k.done
         /\ ResetTimeout(k).busy = k.busy /\ ResetTimeout(k).aborted = k.aborted
<1>. DEFINE x == IF k.timeout_seconds # 0 /\ ~k.suspended /\ k.state \notin {"INIT", "DONE", "ERROR"}
                 THEN TimeAfter(k.timeout_seconds) ELSE 0
<1>1. x \in Nat
  BY TimeAfterType, TaskMembers
<1>2. ResetTimeout(k) = [k EXCEPT !.timeout_time = x, !.age = 0]
  BY DEF ResetTimeout
<1>. HIDE DEF x
<1>3. [k EXCEPT !.timeout_time = x, !.age = 0] \in Task
  BY <1>1 DEF Task
<1>4. /\ ResetTimeout(k).exists = k.exists /\ ResetTimeout(k).parent = k.parent
      /\ ResetTimeout(k).blocked = k.blocked /\ ResetTimeout(k).done = k.done
      /\ ResetTimeout(k).busy = k.busy /\ ResetTimeout(k).aborted = k.aborted
  BY <1>2 DEF Task
<1>. QED
  BY <1>2, <1>3, <1>4

(* The next task to time out stays one of the runner's tasks.               *)
LEMMA UpdateIn ==
  ASSUME TypeOK, NEW tk \in [Tasks -> Task], NEW t
  PROVE  UpdateTaskTimeout(tk, t) \in {t, next_timeout_task, None} \cup ToSet(tasks)
BY RecalcIn DEF TypeOK, UpdateTaskTimeout

(* The task that Process runs for.                                          *)
LEMMA CurrentType ==
  ASSUME TypeOK, at.i \in 1..Len(tasks)
  PROVE  Current \in Tasks /\ Current \in ToSet(tasks)
BY DEF TypeOK, Current, ToSet

(* What AbortAll does to each task.                                         *)
LEMMA AbortFields ==
  ASSUME NEW tk \in [Tasks -> Task], NEW ts
  PROVE  /\ AbortAll(tk, ts) \in [Tasks -> Task]
         /\ \A t \in Tasks :
              LET k == AbortAll(tk, ts)[t]
                  hit == t \in Aborted(tk, ts) IN
              /\ k.exists = tk[t].exists /\ k.parent = tk[t].parent /\ k.busy = tk[t].busy
              /\ ~hit => k = tk[t]
              /\ hit => k.aborted
              /\ hit /\ tk[t].busy => k.done = tk[t].done /\ k.blocked = tk[t].blocked
              /\ hit /\ ~tk[t].busy => k.done /\ k.blocked
<1>. DEFINE A == Aborted(tk, ts)
<1>1. ASSUME NEW t \in Tasks
      PROVE  LET k == AbortAll(tk, ts)[t]
                 hit == t \in A IN
              /\ k \in Task
              /\ k.exists = tk[t].exists /\ k.parent = tk[t].parent /\ k.busy = tk[t].busy
              /\ ~hit => k = tk[t]
              /\ hit => k.aborted
              /\ hit /\ tk[t].busy => k.done = tk[t].done /\ k.blocked = tk[t].blocked
              /\ hit /\ ~tk[t].busy => k.done /\ k.blocked
  <2>1. tk[t] \in Task
    OBVIOUS
  <2>2. CASE t \notin A
    BY <2>1, <2>2 DEF AbortAll
  <2>3. CASE t \in A /\ tk[t].busy
    <3>1. AbortAll(tk, ts)[t] = [tk[t] EXCEPT !.aborted = TRUE]
      BY <2>3 DEF AbortAll
    <3>. QED
      <4>. DEFINE k == AbortAll(tk, ts)[t]
      <4>1. k \in Task
        BY <2>1, <3>1 DEF Task
      <4>2. /\ k.exists = tk[t].exists /\ k.parent = tk[t].parent /\ k.busy = tk[t].busy
            /\ k.aborted /\ k.done = tk[t].done /\ k.blocked = tk[t].blocked
        BY <2>1, <3>1 DEF Task
      <4>. QED
        BY <2>3, <4>1, <4>2, Zenon
  <2>4. CASE t \in A /\ ~tk[t].busy
    <3>1. AbortAll(tk, ts)[t] =
            [tk[t] EXCEPT !.aborted = TRUE, !.done = TRUE, !.blocked = TRUE, !.error = TRUE]
      BY <2>4 DEF AbortAll
    <3>. QED
      BY <2>1, <2>4, <3>1 DEF Task
  <2>. QED
    BY <2>2, <2>3, <2>4
<1>2. AbortAll(tk, ts) = [t \in Tasks |-> AbortAll(tk, ts)[t]]
  BY DEF AbortAll
<1>. QED
  BY <1>1, <1>2

(* Aborted holds ts and the children of every task that it stops, and only  *)
(* tasks that can be stopped.                                               *)
LEMMA AbortedClosed ==
  ASSUME NEW tk \in [Tasks -> Task], NEW ts \in SUBSET Tasks, TypeOK
  PROVE  /\ \A t \in ts : ~tk[t].done => t \in Aborted(tk, ts)
         /\ \A t \in Aborted(tk, ts) : \A c \in children[t] :
              ~tk[t].busy /\ ~tk[c].done => c \in Aborted(tk, ts)
         /\ Aborted(tk, ts) \subseteq Tasks
         /\ \A t \in Aborted(tk, ts) : ~tk[t].done
         /\ \A S \in SUBSET Tasks : Closed(tk, ts, S) => Aborted(tk, ts) \subseteq S
<1>1. \A t \in ts : ~tk[t].done => t \in Aborted(tk, ts)
  BY DEF Aborted, Closed
<1>2. ASSUME NEW t \in Aborted(tk, ts), NEW c \in children[t], ~tk[t].busy, ~tk[c].done
      PROVE  c \in Aborted(tk, ts)
  <2>1. t \in Tasks /\ ~tk[t].done /\ c \in Tasks
    BY <1>2 DEF Aborted, TypeOK, Parents
  <2>2. ASSUME NEW S \in SUBSET Tasks, Closed(tk, ts, S) PROVE c \in S
    <3>1. t \in S
      BY <1>2, <2>2 DEF Aborted
    <3>. QED
      BY <1>2, <2>1, <2>2, <3>1 DEF Closed
  <2>. QED
    BY <1>2, <2>1, <2>2 DEF Aborted
<1>. QED
  BY <1>1, <1>2 DEF Aborted

(* What Process returns: Returned changes no link of the task, and Finished *)
(* ends it.                                                                 *)
LEMMA ReturnedType ==
  ASSUME TypeOK, Current \in Tasks,
         NEW state \in {"BLOCKED", "START", "DONE", "ERROR"}
  PROVE  /\ Returned(state) \in Task
         /\ Returned(state).exists = task[Current].exists
         /\ Returned(state).parent = task[Current].parent
         /\ Returned(state).done = task[Current].done
         /\ Returned(state).aborted = task[Current].aborted
         /\ ~Returned(state).busy
<1>. DEFINE k == [task[Current] EXCEPT !.busy = FALSE, !.blocked = (state = "BLOCKED")]
<1>0. task[Current] \in Task /\ (state = "BLOCKED") \in BOOLEAN
  BY DEF TypeOK
<1>1. /\ k \in Task /\ k.exists = task[Current].exists /\ k.parent = task[Current].parent
      /\ k.done = task[Current].done /\ k.aborted = task[Current].aborted /\ ~k.busy
  BY <1>0 DEF Task
<1>. HIDE DEF k
<1>2. CASE state = "BLOCKED"
  BY <1>1, <1>2 DEF Returned, k
<1>3. CASE state # "BLOCKED"
  <2>1. Returned(state) = ResetTimeout([k EXCEPT !.state = state])
    BY <1>3 DEF Returned, k
  <2>2. /\ [k EXCEPT !.state = state] \in Task
        /\ [k EXCEPT !.state = state].exists = k.exists
        /\ [k EXCEPT !.state = state].parent = k.parent
        /\ [k EXCEPT !.state = state].done = k.done
        /\ [k EXCEPT !.state = state].aborted = k.aborted
        /\ [k EXCEPT !.state = state].busy = k.busy
    BY <1>1, <1>3 DEF Task
  <2>. QED
    <3>1. PICK j \in Task : j = [k EXCEPT !.state = state]
      BY <2>2
    <3>. HIDE DEF k
    <3>2. /\ ResetTimeout(j) \in Task
          /\ ResetTimeout(j).exists = j.exists /\ ResetTimeout(j).parent = j.parent
          /\ ResetTimeout(j).done = j.done /\ ResetTimeout(j).busy = j.busy
          /\ ResetTimeout(j).aborted = j.aborted
      BY ResetType
    <3>. QED
      BY <1>1, <2>1, <2>2, <3>1, <3>2, Zenon
<1>. QED
  BY <1>2, <1>3

(* A task that is finished is done, blocked and not busy.                   *)
LEMMA FinishedType ==
  ASSUME TypeOK, Current \in Tasks, NEW state \in {"DONE", "ERROR"}
  PROVE  /\ Finished(state) \in Task
         /\ Finished(state).exists = task[Current].exists
         /\ Finished(state).parent = task[Current].parent
         /\ Finished(state).aborted = task[Current].aborted
         /\ Finished(state).done /\ Finished(state).blocked /\ ~Finished(state).busy
<1>1. /\ Returned(state) \in Task
      /\ Returned(state).exists = task[Current].exists
      /\ Returned(state).parent = task[Current].parent
      /\ Returned(state).aborted = task[Current].aborted
      /\ ~Returned(state).busy
  BY ReturnedType
<1>2. (Returned(state).error \/ state = "ERROR") \in BOOLEAN
  BY Zenon
<1>3. Finished(state) = [Returned(state) EXCEPT !.done = TRUE, !.blocked = TRUE,
                           !.error = (Returned(state).error \/ state = "ERROR")]
  BY DEF Finished
<1>. QED
  BY <1>1, <1>2, <1>3 DEF Task

-----------------------------------------------------------------------------
(* The tree.                                                                *)

(* Initially there are no tasks.                                            *)
LEMMA TreeInit == Init => TypeOK /\ TreeInv /\ ScanInv
<1>. SUFFICES ASSUME Init PROVE TypeOK /\ TreeInv /\ ScanInv
  OBVIOUS
<1>1. TypeOK
  <2>1. posted \in BOOLEAN
    BY Zenon DEF Init
  <2>2. at \in [pc : {"idle", "scan", "process"}, i : Nat, did_run : BOOLEAN]
    BY DEF Init, NotRunning
  <2>3. task \in [Tasks -> Task]
    BY NewTaskType DEF Init
  <2>4. children \in [Parents -> SUBSET Tasks] /\ tasks \in Seq(Tasks)
    BY DEF Init
  <2>5. next_timeout_task \in Parents /\ now \in 0..(Wrap - 1)
    BY DEF Init, Parents, Runner, None
  <2>. QED
    BY <2>1, <2>2, <2>3, <2>4, <2>5 DEF TypeOK
<1>2. at.pc = "idle" /\ ToSet(tasks) = {}
  BY DEF Init, NotRunning, ToSet
<1>3. TreeInv
  BY <1>2, NewTaskType DEF Init, TreeInv, ChildrenEnd, Live, Usable
<1>4. ScanInv
  BY <1>2 DEF ScanInv, NoLostWake
<1>. QED
  BY <1>1, <1>3, <1>4

(* What a step does to the links of a task that it does not end.            *)
Linked(t) ==
  /\ task'[t] \in Task
  /\ task'[t].exists = task[t].exists /\ task'[t].parent = task[t].parent
  /\ task'[t].done = task[t].done /\ task'[t].aborted = task[t].aborted
  /\ task[t].done => task'[t].blocked
  /\ task[t].exists = "not yet" => task'[t] = task[t]

(* A step that ends no task and creates none keeps the tree; who is busy    *)
(* is for the step to show.                                                 *)
LEMMA TreeKept ==
  ASSUME TypeOK, TreeInv, UNCHANGED <<children, tasks>>, \A t \in Tasks : Linked(t),
         next_timeout_task' # None => next_timeout_task' \in ToSet(tasks),
         next_timeout_task' \in Parents,
         \A t \in Tasks : task'[t].busy => at'.pc = "process" /\ t = tasks[at'.i],
         at'.pc = "process" => at'.i \in 1..Len(tasks) /\ at'.did_run /\ task'[tasks[at'.i]].busy
                               /\ ~task[tasks[at'.i]].done,
         \A t \in Tasks : Usable(t) /\ task[t].busy /\ task[t].aborted => task'[t].busy
  PROVE  TreeInv'
<1>0. /\ \A t \in Tasks : Live(t) <=> t \in ToSet(tasks)
      /\ \A t \in Tasks : task[t].exists = "not yet" => task[t] = Unborn
      /\ \A t \in Tasks : \A p \in Parents : t \in children[p] <=> Usable(t) /\ task[t].parent = p
      /\ \A t \in Tasks : Usable(t) => task[t].parent = Runner \/ Live(task[t].parent)
      /\ ChildrenEnd
  BY DEF TreeInv
<1>1. \A t \in Tasks : (Live(t)' <=> Live(t)) /\ (Usable(t)' <=> Usable(t))
  BY DEF Linked, Live, Usable
<1>a. ASSUME NEW t \in Tasks, task[t].parent # Runner
      PROVE  task[t].parent \in Tasks
  BY <1>a, TaskMembers DEF TypeOK, Parents
<1>2. \A t \in Tasks : Live(t)' <=> t \in ToSet(tasks')
  BY <1>0, <1>1
<1>3. \A t \in Tasks : task'[t].exists = "not yet" => task'[t] = Unborn
  <2>. SUFFICES ASSUME NEW t \in Tasks, task'[t].exists = "not yet" PROVE task'[t] = Unborn
    OBVIOUS
  <2>1. task'[t].exists = task[t].exists /\ (task[t].exists = "not yet" => task'[t] = task[t])
    BY DEF Linked
  <2>. QED
    BY <1>0, <2>1
<1>4. \A t \in Tasks : \A p \in Parents : t \in children'[p] <=> Usable(t)' /\ task'[t].parent = p
  <2>. SUFFICES ASSUME NEW t \in Tasks, NEW p \in Parents
                PROVE  t \in children'[p] <=> Usable(t)' /\ task'[t].parent = p
    OBVIOUS
  <2>1. task'[t].parent = task[t].parent
    BY DEF Linked
  <2>2. t \in children'[p] <=> Usable(t) /\ task[t].parent = p
    BY <1>0
  <2>. QED
    BY <1>1, <2>1, <2>2
<1>5. next_timeout_task' # None => Live(next_timeout_task)'
  <2>. SUFFICES ASSUME next_timeout_task' # None PROVE Live(next_timeout_task)'
    OBVIOUS
  <2>1. next_timeout_task' \in Tasks /\ next_timeout_task' \in ToSet(tasks)
    BY DEF Parents, None, Runner
  <2>2. task[next_timeout_task'].exists = "live"
    BY <1>0, <2>1 DEF Live
  <2>. QED
    BY <2>1, <2>2 DEF Linked, Live
<1>6. \A t \in Tasks : Usable(t)' => task'[t].parent = Runner \/ task'[task'[t].parent].exists = "live"
  <2>. SUFFICES ASSUME NEW t \in Tasks, Usable(t)', task[t].parent # Runner
                PROVE  task'[task'[t].parent].exists = "live"
    BY DEF Linked
  <2>1. task[t].parent \in Tasks /\ task'[t].parent = task[t].parent
    BY <1>a DEF Linked
  <2>2. task[task[t].parent].exists = "live"
    BY <1>0, <1>1 DEF Live
  <2>3. task'[task[t].parent].exists = task[task[t].parent].exists
    BY <2>1 DEF Linked
  <2>. QED
    BY <2>1, <2>2, <2>3
<1>7. \A t \in Tasks : task'[t].done => task'[t].blocked
  BY DEF Linked
<1>8. ChildrenEnd'
  <2>. SUFFICES ASSUME NEW t \in Tasks, Usable(t)', task'[t].parent # Runner,
                       task'[task'[t].parent].done
                PROVE  task'[t].busy /\ task'[t].aborted
    BY DEF ChildrenEnd
  <2>1. task[t].parent \in Tasks /\ task'[t].parent = task[t].parent
    BY <1>a DEF Linked
  <2>2. Usable(t) /\ task[task[t].parent].done
    BY <1>1, <2>1 DEF Linked
  <2>3. task[t].busy /\ task[t].aborted
    BY <1>0, <2>1, <2>2 DEF ChildrenEnd
  <2>. QED
    BY <2>2, <2>3 DEF Linked
<1>9. \A t \in Tasks : task'[t].busy => at'.pc = "process" /\ t = Current'
  BY DEF Current
<1>10. at'.pc = "process" => at'.i \in 1..Len(tasks') /\ at'.did_run /\ task'[Current'].busy
                             /\ ~task'[Current'].done
  <2>. SUFFICES ASSUME at'.pc = "process"
                PROVE  at'.i \in 1..Len(tasks') /\ at'.did_run /\ task'[Current'].busy
                       /\ ~task'[Current'].done
    OBVIOUS
  <2>1. tasks[at'.i] \in Tasks /\ Current' = tasks[at'.i]
    BY DEF Current, TypeOK
  <2>2. task'[tasks[at'.i]].done = task[tasks[at'.i]].done
    BY <2>1 DEF Linked
  <2>. QED
    BY <2>1, <2>2
<1>11. \A t \in Tasks : Usable(t)' => task'[t].parent = Runner \/ Live(task[t].parent)'
  BY <1>6 DEF Live
<1>. QED
  BY <1>2, <1>3, <1>4, <1>5, <1>7, <1>8, <1>9, <1>10, <1>11 DEF TreeInv

(* A step that ends the tasks of d and aborts at least their children, and  *)
(* creates none, keeps the tree: whatever ends has its children aborted.    *)
LEMMA AbortTree ==
  ASSUME TypeOK, TreeInv, NEW tk \in [Tasks -> Task], NEW d \in SUBSET Tasks,
         NEW ts \in SUBSET Tasks,
         \A t \in Tasks \ d : tk[t] = task[t],
         \A t \in d : /\ Usable(t) /\ tk[t].exists = "live" /\ tk[t].parent = task[t].parent
                      /\ tk[t].done /\ tk[t].blocked,
         \A t \in d : children[t] \subseteq ts,
         \A t \in ts : Usable(t),
         task' = AbortAll(tk, ts), children' = Unlink(AbortAll(tk, ts)), UNCHANGED tasks,
         next_timeout_task' \in Parents,
         next_timeout_task' # None => next_timeout_task' \in ToSet(tasks),
         \A t \in Tasks : tk[t].busy => at'.pc = "process" /\ t = tasks[at'.i],
         at'.pc = "process" => at'.i \in 1..Len(tasks) /\ at'.did_run /\ tk[tasks[at'.i]].busy
                               /\ ~tk[tasks[at'.i]].done
  PROVE  TreeInv' /\ task' \in [Tasks -> Task] /\ children' \in [Parents -> SUBSET Tasks]
<1>. DEFINE A == Aborted(tk, ts)
<1>0. /\ \A t \in Tasks : Live(t) <=> t \in ToSet(tasks)
      /\ \A t \in Tasks : task[t].exists = "not yet" => task[t] = Unborn
      /\ \A t \in Tasks : \A p \in Parents : t \in children[p] <=> Usable(t) /\ task[t].parent = p
      /\ \A t \in Tasks : Usable(t) => task[t].parent = Runner \/ Live(task[t].parent)
      /\ \A t \in Tasks : task[t].done => task[t].blocked
      /\ ChildrenEnd
  BY DEF TreeInv
<1>1. /\ \A t \in ts : ~tk[t].done => t \in A
      /\ \A t \in A : \A c \in children[t] : ~tk[t].busy /\ ~tk[c].done => c \in A
      /\ A \subseteq Tasks
      /\ \A t \in A : ~tk[t].done
      /\ \A S \in SUBSET Tasks : Closed(tk, ts, S) => A \subseteq S
  BY AbortedClosed
<1>2. /\ task' \in [Tasks -> Task]
      /\ \A t \in Tasks :
           /\ task'[t].exists = tk[t].exists /\ task'[t].parent = tk[t].parent
           /\ task'[t].busy = tk[t].busy
           /\ t \notin A => task'[t] = tk[t]
           /\ t \in A => task'[t].aborted
           /\ t \in A /\ tk[t].busy => task'[t].done = tk[t].done /\ task'[t].blocked = tk[t].blocked
           /\ t \in A /\ ~tk[t].busy => task'[t].done /\ task'[t].blocked
  BY AbortFields
<1>3. A \subseteq {t \in Tasks : Usable(t)}
  <2>1. ASSUME NEW u \in Tasks PROVE children[u] \subseteq {t \in Tasks : Usable(t)}
    BY <1>0 DEF TypeOK, Parents
  <2>2. Closed(tk, ts, {t \in Tasks : Usable(t)})
    BY <2>1 DEF Closed
  <2>. QED
    BY <1>1, <2>2
<1>. HIDE DEF A
<1>4. \A t \in Tasks : tk[t].exists = task[t].exists /\ tk[t].parent = task[t].parent
  BY DEF Usable, Live
<1>5. \A t \in Tasks : task'[t].exists = task[t].exists /\ task'[t].parent = task[t].parent
  BY <1>2, <1>4
<1>6. \A t \in Tasks : tk[t].done => task'[t].done
  BY <1>1, <1>2
<1>7. ASSUME NEW t \in Tasks, Usable(t)' PROVE Usable(t) /\ tk[t] = task[t] /\ ~tk[t].done
  BY <1>5, <1>6, <1>7 DEF Usable, Live
<1>a. ASSUME NEW t \in Tasks, task[t].parent # Runner
      PROVE  task[t].parent \in Tasks
  BY <1>a, TaskMembers DEF TypeOK, Parents
<1>8. \A t \in Tasks : Live(t)' <=> t \in ToSet(tasks')
  BY <1>0, <1>5 DEF Live
<1>9. \A t \in Tasks : task'[t].exists = "not yet" => task'[t] = Unborn
  <2>. SUFFICES ASSUME NEW t \in Tasks, task'[t].exists = "not yet" PROVE task'[t] = Unborn
    OBVIOUS
  <2>1. task[t].exists = "not yet"
    BY <1>5
  <2>2. t \notin A /\ t \notin d
    BY <1>3, <2>1 DEF Usable, Live
  <2>3. task'[t] = tk[t] /\ tk[t] = task[t]
    BY <1>2, <2>2
  <2>. QED
    BY <1>0, <2>1, <2>3
<1>10. /\ children' \in [Parents -> SUBSET Tasks]
       /\ \A p \in Parents : children'[p] = {t \in children[p] : ~(task'[t].done /\ ~task[t].done)}
  BY DEF Unlink, TypeOK
<1>11. \A t \in Tasks : \A p \in Parents : t \in children'[p] <=> Usable(t)' /\ task'[t].parent = p
  <2>. SUFFICES ASSUME NEW t \in Tasks, NEW p \in Parents
                PROVE  t \in children'[p] <=> Usable(t)' /\ task'[t].parent = p
    OBVIOUS
  <2>1. t \in children'[p] <=> Usable(t) /\ task[t].parent = p /\ ~(task'[t].done /\ ~task[t].done)
    <3>1. t \in children[p] <=> Usable(t) /\ task[t].parent = p
      BY <1>0
    <3>2. t \in children'[p] <=> t \in children[p] /\ ~(task'[t].done /\ ~task[t].done)
      BY <1>10
    <3>. QED
      BY <3>1, <3>2
  <2>2. Usable(t)' => Usable(t)
    BY <1>7
  <2>3. Usable(t) /\ ~(task'[t].done /\ ~task[t].done) <=> Usable(t)'
    BY <1>5, <2>2 DEF Usable, Live
  <2>. QED
    BY <1>5, <2>1, <2>3
<1>12. next_timeout_task' # None => Live(next_timeout_task)'
  <2>. SUFFICES ASSUME next_timeout_task' # None PROVE Live(next_timeout_task)'
    OBVIOUS
  <2>1. next_timeout_task' \in Tasks /\ next_timeout_task' \in ToSet(tasks)
    BY DEF Parents, None, Runner
  <2>2. task[next_timeout_task'].exists = "live"
    BY <1>0, <2>1 DEF Live
  <2>. QED
    BY <1>5, <2>1, <2>2 DEF Live
<1>13. \A t \in Tasks : Usable(t)' => task'[t].parent = Runner \/ Live(task[t].parent)'
  <2>. SUFFICES ASSUME NEW t \in Tasks, Usable(t)', task[t].parent # Runner
                PROVE  task'[task'[t].parent].exists = "live"
    BY <1>5 DEF Live
  <2>1. task[t].parent \in Tasks /\ task'[t].parent = task[t].parent
    BY <1>5, <1>a
  <2>2. task[task[t].parent].exists = "live"
    BY <1>0, <1>7 DEF Live
  <2>. QED
    BY <1>5, <2>1, <2>2
<1>14. \A t \in Tasks : task'[t].done => task'[t].blocked
  <2>. SUFFICES ASSUME NEW t \in Tasks, task'[t].done PROVE task'[t].blocked
    OBVIOUS
  <2>1. tk[t].done => tk[t].blocked
    BY <1>0
  <2>. QED
    BY <1>2, <2>1
<1>15. ChildrenEnd'
  <2>. SUFFICES ASSUME NEW t \in Tasks, Usable(t)', task'[t].parent # Runner,
                       task'[task'[t].parent].done
                PROVE  task'[t].busy /\ task'[t].aborted
    BY DEF ChildrenEnd
  <2>. DEFINE p == task[t].parent
  <2>1. p \in Tasks /\ task'[t].parent = p /\ Usable(t) /\ tk[t] = task[t] /\ ~tk[t].done
    BY <1>5, <1>7, <1>a
  <2>2. t \in children[p]
    BY <1>0, <2>1 DEF Parents
  <2>. HIDE DEF p
  <2>3. CASE task[p].done
    <3>1. task[t].busy /\ task[t].aborted
      BY <1>0, <2>1, <2>3 DEF ChildrenEnd, p, Usable, Runner
    <3>. QED
      BY <1>2, <2>1, <3>1
  <2>4. CASE p \in d
    <3>1. t \in A
      BY <1>1, <2>1, <2>2, <2>4
    <3>. QED
      BY <1>2, <2>1, <3>1 DEF Usable
  <2>5. CASE ~task[p].done /\ p \notin d
    <3>1. p \in A /\ ~tk[p].busy
      BY <1>2, <2>1, <2>5
    <3>2. t \in A
      BY <1>1, <2>1, <2>2, <3>1
    <3>. QED
      BY <1>2, <2>1, <3>2 DEF Usable
  <2>. QED
    BY <2>3, <2>4, <2>5
<1>16. \A t \in Tasks : task'[t].busy => at'.pc = "process" /\ t = Current'
  BY <1>2 DEF Current
<1>17. at'.pc = "process" => at'.i \in 1..Len(tasks') /\ at'.did_run /\ task'[Current'].busy
                             /\ ~task'[Current'].done
  <2>. SUFFICES ASSUME at'.pc = "process"
                PROVE  at'.i \in 1..Len(tasks') /\ at'.did_run /\ task'[Current'].busy
                       /\ ~task'[Current'].done
    OBVIOUS
  <2>1. tasks[at'.i] \in Tasks /\ Current' = tasks[at'.i]
    BY DEF Current, TypeOK
  <2>2. tk[tasks[at'.i]].busy /\ ~tk[tasks[at'.i]].done
    OBVIOUS
  <2>. QED
    BY <1>2, <2>1, <2>2
<1>. QED
  BY <1>2, <1>8, <1>9, <1>10, <1>11, <1>12, <1>13, <1>14, <1>15, <1>16, <1>17 DEF TreeInv

(* The next task to time out is in tasks_, and UpdateTaskTimeout for a task *)
(* of the runner keeps it there.                                            *)
LEMMA NextIn ==
  ASSUME TypeOK, TreeInv
  PROVE  /\ next_timeout_task # None => next_timeout_task \in ToSet(tasks)
         /\ ToSet(tasks) \subseteq Tasks
         /\ \A tk \in [Tasks -> Task] : \A t \in ToSet(tasks) :
              /\ UpdateTaskTimeout(tk, t) \in Parents
              /\ UpdateTaskTimeout(tk, t) # None => UpdateTaskTimeout(tk, t) \in ToSet(tasks)
<1>1. next_timeout_task # None => next_timeout_task \in ToSet(tasks)
  BY DEF TypeOK, TreeInv, Parents, None, Runner
<1>2. ToSet(tasks) \subseteq Tasks
  BY DEF ToSet, TypeOK
<1>3. ASSUME NEW tk \in [Tasks -> Task], NEW t \in ToSet(tasks)
      PROVE  /\ UpdateTaskTimeout(tk, t) \in Parents
             /\ UpdateTaskTimeout(tk, t) # None => UpdateTaskTimeout(tk, t) \in ToSet(tasks)
  <2>1. UpdateTaskTimeout(tk, t) \in {t, next_timeout_task, None} \cup ToSet(tasks)
    BY UpdateIn
  <2>. QED
    BY <1>1, <1>2, <2>1 DEF Parents, None, Runner
<1>. QED
  BY <1>1, <1>2, <1>3

(* A task of the runner that is not done is usable, and nobody is busy      *)
(* outside Process.                                                         *)
LEMMA TreeFacts ==
  ASSUME TypeOK, TreeInv
  PROVE  /\ \A t \in ToSet(tasks) : Live(t) /\ (~task[t].blocked => Usable(t))
         /\ at.pc # "process" => \A t \in Tasks : ~task[t].busy
         /\ at.pc = "process" => /\ at.i \in 1..Len(tasks) /\ Current \in Tasks /\ Usable(Current)
                                 /\ Current \in ToSet(tasks) /\ task[Current].busy
                                 /\ at.did_run /\ \A t \in Tasks : task[t].busy => t = Current
         /\ \A t \in Tasks : children[t] \subseteq {u \in Tasks : Usable(u)}
<1>1. ToSet(tasks) \subseteq Tasks
  BY NextIn
<1>2. \A t \in ToSet(tasks) : Live(t) /\ (~task[t].blocked => Usable(t))
  BY <1>1 DEF TreeInv, Usable
<1>3. at.pc # "process" => \A t \in Tasks : ~task[t].busy
  BY DEF TreeInv
<1>4. ASSUME at.pc = "process"
      PROVE  /\ at.i \in 1..Len(tasks) /\ Current \in Tasks /\ Usable(Current)
             /\ Current \in ToSet(tasks) /\ task[Current].busy
             /\ at.did_run /\ \A t \in Tasks : task[t].busy => t = Current
  <2>1. /\ at.i \in 1..Len(tasks) /\ at.did_run /\ task[Current].busy /\ ~task[Current].done
        /\ \A t \in Tasks : task[t].busy => t = Current
    BY <1>4 DEF TreeInv
  <2>2. Current \in Tasks /\ Current \in ToSet(tasks)
    BY <2>1, CurrentType
  <2>. QED
    BY <1>2, <2>1, <2>2 DEF Usable
<1>5. \A t \in Tasks : children[t] \subseteq {u \in Tasks : Usable(u)}
  BY DEF TreeInv, TypeOK, Parents
<1>. QED
  BY <1>2, <1>3, <1>4, <1>5

(* Steps that leave the tasks alone.                                        *)
LEMMA TreeScan ==
  ASSUME TypeOK, TreeInv, ScanInv, OnMessage \/ Skip \/ Again
  PROVE  TypeOK' /\ TreeInv'
<1>1. UNCHANGED <<task, children, tasks, next_timeout_task, now>> /\ at.pc # "process"
  BY DEF OnMessage, Skip, Again, clock, Scanning
<1>2. /\ at' \in [pc : {"idle", "scan", "process"}, i : Nat, did_run : BOOLEAN]
      /\ at'.pc = "scan"
  <2>. DEFINE At == [pc : {"idle", "scan", "process"}, i : Nat, did_run : BOOLEAN]
  <2>1. CASE at' = [pc |-> "scan", i |-> 1, did_run |-> FALSE]
    BY <2>1
  <2>2. CASE Skip
    <3>1. at \in At /\ at.pc = "scan" /\ at' = [at EXCEPT !.i = @ + 1]
      BY <2>2 DEF Skip, Scanning, TypeOK
    <3>. QED
      BY <3>1
  <2>. QED
    BY <2>1, <2>2 DEF OnMessage, Again
<1>3. posted' \in BOOLEAN
  BY Zenon DEF OnMessage, Skip, Again, TypeOK
<1>4. TypeOK'
  BY <1>1, <1>2, <1>3 DEF TypeOK
<1>5. \A t \in Tasks : ~task[t].busy
  BY <1>1, TreeFacts
<1>6. /\ next_timeout_task' # None => next_timeout_task' \in ToSet(tasks)
      /\ next_timeout_task' \in Parents
  BY <1>1, NextIn DEF TypeOK
<1>7. \A t \in Tasks : Linked(t)
  BY <1>1 DEF TypeOK, TreeInv, Linked
<1>8. TreeInv'
  BY <1>1, <1>2, <1>5, <1>6, <1>7, TreeKept
<1>. QED
  BY <1>4, <1>8

(* Time goes by.                                                            *)
LEMMA TreeTick ==
  ASSUME TypeOK, TreeInv, Tick
  PROVE  TypeOK' /\ TreeInv' /\ \A t \in Tasks : task'[t].blocked = task[t].blocked
                                              /\ task'[t].done = task[t].done
<1>1. /\ UNCHANGED <<children, tasks, next_timeout_task, at, posted>>
      /\ now' = (now + 1) % Wrap
  BY DEF Tick
<1>2. now' \in 0..(Wrap - 1)
  BY <1>1, TaskAssumption DEF TypeOK
<1>3. ASSUME NEW t \in Tasks
      PROVE  /\ Linked(t) /\ task'[t].busy = task[t].busy /\ task'[t].blocked = task[t].blocked
             /\ task'[t].done = task[t].done
  <2>1. task[t] \in Task /\ task[t].age \in Nat
    BY TaskMembers DEF TypeOK
  <2>2. task[t].exists = "not yet" => task[t].timeout_time = 0
    <3>1. task[t].exists = "not yet" => task[t] = Unborn
      BY DEF TreeInv
    <3>. QED
      BY <3>1, NewTaskType
  <2>3. task[t].done => task[t].blocked
    BY DEF TreeInv
  <2>4. CASE task[t].timeout_time # 0
    <3>. DEFINE age == task[t].age + 1
    <3>0. age \in Nat
      BY <2>1
    <3>1. task'[t] = [task[t] EXCEPT !.age = age]
      BY <2>4 DEF Tick
    <3>. HIDE DEF age
    <3>2. task'[t] \in Task
      BY <2>1, <3>0, <3>1 DEF Task
    <3>3. /\ task'[t].exists = task[t].exists /\ task'[t].parent = task[t].parent
          /\ task'[t].done = task[t].done /\ task'[t].aborted = task[t].aborted
          /\ task'[t].busy = task[t].busy /\ task'[t].blocked = task[t].blocked
      BY <2>1, <3>1 DEF Task
    <3>. QED
      BY <2>2, <2>3, <2>4, <3>2, <3>3 DEF Linked
  <2>5. CASE task[t].timeout_time = 0
    <3>1. task'[t] = task[t]
      BY <2>5 DEF Tick
    <3>. QED
      BY <2>1, <2>3, <3>1 DEF Linked
  <2>. QED
    BY <2>4, <2>5
<1>4. task' \in [Tasks -> Task]
  BY <1>3 DEF Linked, Tick
<1>5. TypeOK'
  BY <1>1, <1>2, <1>4 DEF TypeOK
<1>6. /\ next_timeout_task' # None => next_timeout_task' \in ToSet(tasks)
      /\ next_timeout_task' \in Parents
  BY <1>1, NextIn DEF TypeOK
<1>7. /\ \A t \in Tasks : task'[t].busy => at'.pc = "process" /\ t = tasks[at'.i]
      /\ at'.pc = "process" => at'.i \in 1..Len(tasks) /\ at'.did_run /\ task'[tasks[at'.i]].busy
                               /\ ~task[tasks[at'.i]].done
  BY <1>1, <1>3, TreeFacts DEF Current, Usable
<1>8. TreeInv'
  BY <1>1, <1>3, <1>6, <1>7, TreeKept
<1>. QED
  BY <1>3, <1>5, <1>8

(* A step that changes a living task and ends none.                         *)
LEMMA TreeOne ==
  ASSUME TypeOK, TreeInv, NEW t \in Tasks, Live(t), NEW k \in Task,
         task' = [task EXCEPT ![t] = k],
         k.exists = task[t].exists, k.parent = task[t].parent, k.done = task[t].done,
         k.aborted = task[t].aborted, task[t].done => k.blocked,
         UNCHANGED <<children, tasks, now>>, posted' \in BOOLEAN,
         next_timeout_task' \in Parents,
         next_timeout_task' # None => next_timeout_task' \in ToSet(tasks),
         at' \in [pc : {"idle", "scan", "process"}, i : Nat, did_run : BOOLEAN],
         \A u \in Tasks : task'[u].busy => at'.pc = "process" /\ u = tasks[at'.i],
         at'.pc = "process" => at'.i \in 1..Len(tasks) /\ at'.did_run /\ task'[tasks[at'.i]].busy
                               /\ ~task[tasks[at'.i]].done,
         task[t].busy /\ task[t].aborted => k.busy
  PROVE  TypeOK' /\ TreeInv'
<1>1. task'[t] = k /\ \A u \in Tasks : u # t => task'[u] = task[u]
  BY DEF TypeOK
<1>2. task' \in [Tasks -> Task]
  BY DEF TypeOK
<1>3. TypeOK'
  BY <1>2 DEF TypeOK
<1>4. ASSUME NEW u \in Tasks PROVE Linked(u)
  <2>1. CASE u = t
    <3>1. /\ k.exists = task[t].exists /\ k.parent = task[t].parent /\ k.done = task[t].done
          /\ k.aborted = task[t].aborted /\ (task[t].done => k.blocked)
      OBVIOUS
    <3>2. task[t].exists # "not yet"
      BY DEF Live
    <3>3. /\ task'[t].exists = task[t].exists /\ task'[t].parent = task[t].parent
          /\ task'[t].done = task[t].done /\ task'[t].aborted = task[t].aborted
          /\ task'[t] \in Task
      BY <1>1, <3>1
    <3>4. task[t].done => task'[t].blocked
      BY <1>1, <3>1
    <3>5. Linked(t)
      BY <3>2, <3>3, <3>4, Zenon DEF Linked
    <3>. QED
      BY <2>1, <3>5
  <2>2. CASE u # t
    <3>1. task'[u] = task[u] /\ task[u] \in Task
      BY <1>1, <2>2 DEF TypeOK
    <3>2. task[u].done => task[u].blocked
      BY DEF TreeInv
    <3>. QED
      BY <3>1, <3>2 DEF Linked
  <2>. QED
    BY <2>1, <2>2
<1>5. \A u \in Tasks : Usable(u) /\ task[u].busy /\ task[u].aborted => task'[u].busy
  BY <1>1
<1>6. TreeInv'
  BY <1>4, <1>5, TreeKept
<1>. QED
  BY <1>3, <1>6

(* The same where Process goes on.                                          *)
LEMMA TreeField ==
  ASSUME TypeOK, TreeInv, NEW t \in Tasks, Live(t), NEW k \in Task,
         task' = [task EXCEPT ![t] = k],
         k.exists = task[t].exists, k.parent = task[t].parent, k.done = task[t].done,
         k.aborted = task[t].aborted, task[t].done => k.blocked, k.busy = task[t].busy,
         UNCHANGED <<children, tasks, now, at>>, posted' \in BOOLEAN,
         next_timeout_task' \in Parents,
         next_timeout_task' # None => next_timeout_task' \in ToSet(tasks)
  PROVE  TypeOK' /\ TreeInv'
<1>1. task'[t] = k /\ \A u \in Tasks : u # t => task'[u] = task[u]
  BY DEF TypeOK
<1>2. \A u \in Tasks : task'[u].busy = task[u].busy
  BY <1>1
<1>3. \A u \in Tasks : task'[u].busy => at'.pc = "process" /\ u = tasks[at'.i]
  BY <1>2, TreeFacts DEF Current
<1>4. ASSUME at'.pc = "process"
      PROVE  at'.i \in 1..Len(tasks) /\ at'.did_run /\ task'[tasks[at'.i]].busy
             /\ ~task[tasks[at'.i]].done
  <2>1. Current \in Tasks /\ at.i \in 1..Len(tasks) /\ at.did_run /\ task[Current].busy
        /\ Usable(Current)
    BY <1>4, TreeFacts
  <2>2. Current = tasks[at'.i] /\ task'[Current].busy /\ ~task[Current].done
    BY <1>2, <2>1 DEF Current, Usable
  <2>. QED
    BY <2>1, <2>2
<1>5. at' \in [pc : {"idle", "scan", "process"}, i : Nat, did_run : BOOLEAN]
  BY DEF TypeOK
<1>. QED
  BY <1>3, <1>4, <1>5, TreeOne

(* A task that is woken.                                                    *)
LEMMA WokenType ==
  ASSUME NEW k \in Task
  PROVE  LET w == [k EXCEPT !.blocked = FALSE]
             e == [k EXCEPT !.error = TRUE, !.blocked = FALSE] IN
         /\ w \in Task /\ w.exists = k.exists /\ w.parent = k.parent /\ w.done = k.done
         /\ w.aborted = k.aborted /\ w.busy = k.busy /\ ~w.blocked
         /\ e \in Task /\ e.exists = k.exists /\ e.parent = k.parent /\ e.done = k.done
         /\ e.aborted = k.aborted /\ e.busy = k.busy /\ ~e.blocked
BY DEF Task

(* Wake and Error.                                                          *)
LEMMA TreeWake ==
  ASSUME TypeOK, TreeInv, NEW t \in Tasks, Wake(t) \/ Error(t)
  PROVE  TypeOK' /\ TreeInv'
<1>. DEFINE w == [task[t] EXCEPT !.blocked = FALSE]
            e == [task[t] EXCEPT !.error = TRUE, !.blocked = FALSE]
<1>0. task[t] \in Task
  BY DEF TypeOK
<1>1. /\ UNCHANGED <<children, tasks, next_timeout_task, at, now>> /\ Usable(t)
      /\ task' = [task EXCEPT ![t] = w] \/ task' = [task EXCEPT ![t] = e]
  BY DEF Wake, Error, clock
<1>2. posted' \in BOOLEAN
  BY Zenon DEF Wake, Error
<1>3. /\ next_timeout_task' # None => next_timeout_task' \in ToSet(tasks)
      /\ next_timeout_task' \in Parents
  BY <1>1, NextIn DEF TypeOK
<1>4. Live(t) /\ ~task[t].done
  BY <1>1 DEF Usable
<1>5. /\ w \in Task /\ w.exists = task[t].exists /\ w.parent = task[t].parent
      /\ w.done = task[t].done /\ w.aborted = task[t].aborted /\ w.busy = task[t].busy
      /\ e \in Task /\ e.exists = task[t].exists /\ e.parent = task[t].parent
      /\ e.done = task[t].done /\ e.aborted = task[t].aborted /\ e.busy = task[t].busy
  BY <1>0, WokenType
<1>. HIDE DEF w, e
<1>6. CASE task' = [task EXCEPT ![t] = w]
  BY <1>1, <1>2, <1>3, <1>4, <1>5, <1>6, TreeField
<1>7. CASE task' = [task EXCEPT ![t] = e]
  BY <1>1, <1>2, <1>3, <1>4, <1>5, <1>7, TreeField
<1>. QED
  BY <1>1, <1>6, <1>7

(* PollTasks wakes a task that is not done.                                 *)
LEMMA TreePoll ==
  ASSUME TypeOK, TreeInv, PollTasks
  PROVE  TypeOK' /\ TreeInv'
<1>. DEFINE n == next_timeout_task
            w == [task[n] EXCEPT !.blocked = FALSE]
<1>1. /\ UNCHANGED <<children, tasks, next_timeout_task, at, now>> /\ n # None
      /\ task' = IF task[n].done THEN task ELSE [task EXCEPT ![n] = w]
  BY DEF PollTasks, clock
<1>2. posted' \in BOOLEAN
  BY Zenon DEF PollTasks
<1>3. /\ next_timeout_task' # None => next_timeout_task' \in ToSet(tasks)
      /\ next_timeout_task' \in Parents
  BY <1>1, NextIn DEF TypeOK
<1>4. n \in Tasks /\ Live(n) /\ task[n] \in Task
  BY <1>1, NextIn, TreeFacts DEF TypeOK
<1>5. /\ w \in Task /\ w.exists = task[n].exists /\ w.parent = task[n].parent
      /\ w.done = task[n].done /\ w.aborted = task[n].aborted /\ w.busy = task[n].busy
  BY <1>4, WokenType
<1>6. task[n].done => task[n].blocked
  BY <1>4 DEF TreeInv
<1>. HIDE DEF n, w
<1>7. CASE task[n].done
  <2>1. task' = [task EXCEPT ![n] = task[n]]
    BY <1>1, <1>4, <1>7 DEF TypeOK
  <2>. QED
    BY <1>1, <1>2, <1>3, <1>4, <1>6, <2>1, TreeField
<1>8. CASE ~task[n].done
  BY <1>1, <1>2, <1>3, <1>4, <1>5, <1>8, TreeField
<1>. QED
  BY <1>7, <1>8

(* A task sets its timeout.                                                 *)
LEMMA TreeSetTimeout ==
  ASSUME TypeOK, TreeInv, NEW t \in Tasks, NEW sec \in Timeouts, NEW suspend \in BOOLEAN,
         SetTimeout(t, sec, suspend)
  PROVE  /\ TypeOK' /\ TreeInv'
         /\ \A u \in Tasks : task'[u].blocked = task[u].blocked /\ task'[u].done = task[u].done
<1>. DEFINE k0 == [task[t] EXCEPT !.timeout_seconds = sec, !.suspended = suspend]
            k == ResetTimeout(k0)
            tk == [task EXCEPT ![t] = k]
<1>1. /\ UNCHANGED <<children, tasks, at, now, posted>> /\ Usable(t)
      /\ task' = tk /\ next_timeout_task' = UpdateTaskTimeout(tk, t)
  BY DEF SetTimeout, clock
<1>2. task[t] \in Task /\ sec \in Nat
  BY TaskAssumption DEF TypeOK
<1>3. /\ k0 \in Task /\ k0.exists = task[t].exists /\ k0.parent = task[t].parent
      /\ k0.done = task[t].done /\ k0.aborted = task[t].aborted /\ k0.busy = task[t].busy
      /\ k0.blocked = task[t].blocked
  BY <1>2 DEF Task
<1>. HIDE DEF k0
<1>4. /\ k \in Task /\ k.exists = task[t].exists /\ k.parent = task[t].parent
      /\ k.done = task[t].done /\ k.aborted = task[t].aborted /\ k.busy = task[t].busy
      /\ k.blocked = task[t].blocked
  BY <1>3, ResetType
<1>. HIDE DEF k
<1>5. t \in ToSet(tasks) /\ Live(t) /\ ~task[t].done
  BY <1>1 DEF TreeInv, Usable
<1>6. tk \in [Tasks -> Task]
  BY <1>4 DEF TypeOK
<1>. HIDE DEF tk
<1>7. /\ next_timeout_task' # None => next_timeout_task' \in ToSet(tasks)
      /\ next_timeout_task' \in Parents
  BY <1>1, <1>5, <1>6, NextIn
<1>8. posted' \in BOOLEAN
  BY <1>1 DEF TypeOK
<1>9. TypeOK' /\ TreeInv'
  BY <1>1, <1>4, <1>5, <1>7, <1>8, TreeField DEF tk
<1>10. \A u \in Tasks : task'[u].blocked = task[u].blocked /\ task'[u].done = task[u].done
  BY <1>1, <1>4 DEF tk, TypeOK
<1>. QED
  BY <1>9, <1>10

(* Step calls Process.                                                      *)
LEMMA TreeProcess ==
  ASSUME TypeOK, TreeInv, ScanInv, StepProcess
  PROVE  TypeOK' /\ TreeInv' /\ at'.pc = "process"
<1>. DEFINE t == Current
            late == TimedOut(task[t])
            time == IF late THEN 0 ELSE task[t].timeout_time
            k == [task[t] EXCEPT !.busy = TRUE, !.timeout_time = time]
            tk == [task EXCEPT ![t] = k]
<1>1. /\ UNCHANGED <<children, tasks, posted, now>> /\ ~task[t].blocked
      /\ at.pc = "scan" /\ at.i <= Len(tasks)
      /\ at' = [at EXCEPT !.pc = "process", !.did_run = TRUE]
  BY DEF StepProcess, Steps, Scanning, clock
<1>3. at.i \in 1..Len(tasks)
  BY <1>1 DEF ScanInv, TypeOK
<1>4. t \in Tasks /\ t \in ToSet(tasks)
  BY <1>3, CurrentType
<1>5. Usable(t) /\ Live(t) /\ ~task[t].done
  BY <1>1, <1>4, TreeFacts DEF Usable
<1>6. task[t] \in Task /\ time \in Nat
  BY <1>4, TaskMembers DEF TypeOK
<1>. DEFINE new == [task EXCEPT ![t].busy = TRUE, ![t].timeout_time = IF late THEN 0 ELSE @]
<1>2. /\ task' = tk
      /\ next_timeout_task' = IF late THEN UpdateTaskTimeout(tk, t) ELSE next_timeout_task
  <2>1. /\ task' = new
        /\ next_timeout_task' = IF late THEN UpdateTaskTimeout(new, t) ELSE next_timeout_task
    BY DEF StepProcess
  <2>2. new[t] = k
    BY <1>4, <1>6 DEF TypeOK, Task
  <2>3. new = tk
    BY <1>4, <2>2 DEF TypeOK
  <2>. HIDE DEF new, tk, late, t
  <2>. QED
    BY <2>1, <2>3
<1>. HIDE DEF time, late
<1>7. /\ k \in Task /\ k.exists = task[t].exists /\ k.parent = task[t].parent
      /\ k.done = task[t].done /\ k.aborted = task[t].aborted /\ k.busy
  BY <1>6 DEF Task
<1>. HIDE DEF k
<1>8. tk \in [Tasks -> Task]
  BY <1>4, <1>7 DEF TypeOK
<1>. HIDE DEF tk
<1>9. /\ next_timeout_task' # None => next_timeout_task' \in ToSet(tasks)
      /\ next_timeout_task' \in Parents
  BY <1>2, <1>4, <1>8, NextIn DEF TypeOK
<1>10. /\ at' \in [pc : {"idle", "scan", "process"}, i : Nat, did_run : BOOLEAN]
       /\ at'.pc = "process" /\ at'.did_run /\ at'.i = at.i
  BY <1>1 DEF TypeOK
<1>11. t = tasks[at'.i]
  BY <1>10 DEF Current
<1>. HIDE DEF t
<1>12. \A u \in Tasks : task'[u].busy => u = t
  <2>1. \A u \in Tasks : ~task[u].busy
    BY <1>1, TreeFacts
  <2>. QED
    BY <1>2, <2>1 DEF tk, TypeOK
<1>13. task'[t].busy
  BY <1>2, <1>4, <1>7 DEF tk, TypeOK
<1>14. posted' \in BOOLEAN
  BY <1>1 DEF TypeOK
<1>15. TypeOK' /\ TreeInv'
  BY <1>1, <1>2, <1>3, <1>4, <1>5, <1>7, <1>9, <1>10, <1>11, <1>12, <1>13, <1>14, TreeOne DEF tk
<1>. QED
  BY <1>10, <1>15

(* Process returns, and the task is blocked or in a new state.              *)
LEMMA TreeReturns ==
  ASSUME TypeOK, TreeInv, NEW state \in {"BLOCKED", "START"}, StepReturns(state)
  PROVE  TypeOK' /\ TreeInv'
<1>. DEFINE t == Current
            k == Returned(state)
            tk == [task EXCEPT ![t] = k]
<1>1. /\ UNCHANGED <<children, tasks, posted, now>> /\ at.pc = "process" /\ ~task[t].aborted
      /\ at' = [at EXCEPT !.pc = "scan"] /\ task' = tk
      /\ next_timeout_task' = IF state = "BLOCKED" THEN next_timeout_task ELSE UpdateTaskTimeout(tk, t)
  BY DEF StepReturns, clock
<1>2. /\ t \in Tasks /\ t \in ToSet(tasks) /\ Usable(t) /\ task[t].busy
      /\ \A u \in Tasks : task[u].busy => u = t
  BY <1>1, TreeFacts
<1>3. /\ k \in Task /\ k.exists = task[t].exists /\ k.parent = task[t].parent
      /\ k.done = task[t].done /\ k.aborted = task[t].aborted /\ ~k.busy
  BY <1>2, ReturnedType
<1>. HIDE DEF k, t
<1>4. tk \in [Tasks -> Task]
  BY <1>2, <1>3 DEF TypeOK
<1>. HIDE DEF tk
<1>5. /\ next_timeout_task' # None => next_timeout_task' \in ToSet(tasks)
      /\ next_timeout_task' \in Parents
  BY <1>1, <1>2, <1>4, NextIn DEF TypeOK
<1>6. /\ at' \in [pc : {"idle", "scan", "process"}, i : Nat, did_run : BOOLEAN]
      /\ at'.pc = "scan"
  BY <1>1 DEF TypeOK
<1>7. \A u \in Tasks : ~task'[u].busy
  BY <1>1, <1>2, <1>3 DEF tk, TypeOK
<1>8. posted' \in BOOLEAN /\ Live(t) /\ ~task[t].done
  BY <1>1, <1>2 DEF TypeOK, Usable
<1>. QED
  BY <1>1, <1>2, <1>3, <1>5, <1>6, <1>7, <1>8, TreeOne DEF tk

(* A task that is not busy any more ends: Stop keeps the tree.              *)
LEMMA TreeStop ==
  ASSUME TypeOK, TreeInv, NEW t \in Tasks, Usable(t), NEW k \in Task,
         k.exists = task[t].exists, k.parent = task[t].parent, k.done, k.blocked, ~k.busy,
         \A u \in Tasks : task[u].busy => u = t,
         Stop([task EXCEPT ![t] = k], t),
         UNCHANGED <<tasks, now, posted>>,
         next_timeout_task' \in Parents,
         next_timeout_task' # None => next_timeout_task' \in ToSet(tasks),
         at' \in [pc : {"idle", "scan", "process"}, i : Nat, did_run : BOOLEAN],
         at'.pc = "scan"
  PROVE  TypeOK' /\ TreeInv'
<1>. DEFINE tk == [task EXCEPT ![t] = k]
            ts == children[t]
<1>1. tk \in [Tasks -> Task] /\ tk[t] = k /\ \A u \in Tasks : u # t => tk[u] = task[u]
  BY DEF TypeOK
<1>2. ts \in SUBSET Tasks /\ \A u \in ts : Usable(u)
  BY TreeFacts
<1>3. task' = AbortAll(tk, ts) /\ children' = Unlink(AbortAll(tk, ts))
  BY DEF Stop
<1>4. k.exists = "live"
  BY DEF Usable, Live
<1>. HIDE DEF tk, ts
<1>5. /\ \A u \in Tasks \ {t} : tk[u] = task[u]
      /\ \A u \in {t} : /\ Usable(u) /\ tk[u].exists = "live" /\ tk[u].parent = task[u].parent
                        /\ tk[u].done /\ tk[u].blocked
      /\ \A u \in {t} : children[u] \subseteq ts
      /\ \A u \in Tasks : ~tk[u].busy
      /\ {t} \in SUBSET Tasks
  BY <1>1, <1>4 DEF ts
<1>6. TreeInv' /\ task' \in [Tasks -> Task] /\ children' \in [Parents -> SUBSET Tasks]
  BY <1>1, <1>2, <1>3, <1>5, AbortTree
<1>7. TypeOK'
  BY <1>6 DEF TypeOK
<1>. QED
  BY <1>6, <1>7

(* Step of a task on which Error was called.                                *)
LEMMA TreeStepError ==
  ASSUME TypeOK, TreeInv, ScanInv, StepError
  PROVE  TypeOK' /\ TreeInv'
<1>. DEFINE t == Current
            k == [task[t] EXCEPT !.done = TRUE, !.state = "ERROR", !.blocked = TRUE]
<1>1. /\ UNCHANGED <<tasks, next_timeout_task, posted, now>> /\ ~task[t].blocked
      /\ at.pc = "scan" /\ at.i <= Len(tasks)
      /\ at' = [at EXCEPT !.did_run = TRUE]
  BY DEF StepError, Steps, Scanning, clock
<1>2. at.i \in 1..Len(tasks)
  BY <1>1 DEF ScanInv, TypeOK
<1>3. t \in Tasks /\ t \in ToSet(tasks)
  BY <1>2, CurrentType
<1>4. Usable(t) /\ \A u \in Tasks : ~task[u].busy
  BY <1>1, <1>3, TreeFacts
<1>5. task[t] \in Task
  BY <1>3 DEF TypeOK
<1>6. /\ k \in Task /\ k.exists = task[t].exists /\ k.parent = task[t].parent
      /\ k.done /\ k.blocked /\ k.busy = task[t].busy
  BY <1>5 DEF Task
<1>7. Stop([task EXCEPT ![t] = k], t)
  <2>. DEFINE new == [task EXCEPT ![t].done = TRUE, ![t].state = "ERROR", ![t].blocked = TRUE]
  <2>1. Stop(new, t)
    BY DEF StepError
  <2>2. new = [task EXCEPT ![t] = k]
    BY <1>3, <1>5 DEF TypeOK, Task
  <2>. HIDE DEF new, k, t
  <2>. QED
    BY <2>1, <2>2
<1>8. /\ next_timeout_task' # None => next_timeout_task' \in ToSet(tasks)
      /\ next_timeout_task' \in Parents
  BY <1>1, NextIn DEF TypeOK
<1>9. /\ at' \in [pc : {"idle", "scan", "process"}, i : Nat, did_run : BOOLEAN]
      /\ at'.pc = "scan"
  BY <1>1 DEF TypeOK
<1>. HIDE DEF k, t
<1>. QED
  BY <1>1, <1>3, <1>4, <1>6, <1>7, <1>8, <1>9, TreeStop

(* An abort that waited for Process to return.                              *)
LEMMA TreeStepAborted ==
  ASSUME TypeOK, TreeInv, StepAborted
  PROVE  TypeOK' /\ TreeInv'
<1>. DEFINE t == Current
            k == [task[t] EXCEPT !.busy = FALSE, !.done = TRUE, !.blocked = TRUE, !.error = TRUE]
<1>1. /\ UNCHANGED <<tasks, next_timeout_task, posted, now>> /\ at.pc = "process"
      /\ at' = [at EXCEPT !.pc = "scan"]
  BY DEF StepAborted, clock
<1>2. /\ t \in Tasks /\ t \in ToSet(tasks) /\ Usable(t)
      /\ \A u \in Tasks : task[u].busy => u = t
  BY <1>1, TreeFacts
<1>3. task[t] \in Task
  BY <1>2 DEF TypeOK
<1>4. /\ k \in Task /\ k.exists = task[t].exists /\ k.parent = task[t].parent
      /\ k.done /\ k.blocked /\ ~k.busy
  BY <1>3 DEF Task
<1>5. Stop([task EXCEPT ![t] = k], t)
  <2>. DEFINE new == [task EXCEPT ![t].busy = FALSE, ![t].done = TRUE, ![t].blocked = TRUE,
                                  ![t].error = TRUE]
  <2>1. Stop(new, t)
    BY DEF StepAborted
  <2>2. new = [task EXCEPT ![t] = k]
    BY <1>2, <1>3 DEF TypeOK, Task
  <2>. HIDE DEF new, k, t
  <2>. QED
    BY <2>1, <2>2
<1>6. /\ next_timeout_task' # None => next_timeout_task' \in ToSet(tasks)
      /\ next_timeout_task' \in Parents
  BY <1>1, NextIn DEF TypeOK
<1>7. /\ at' \in [pc : {"idle", "scan", "process"}, i : Nat, did_run : BOOLEAN]
      /\ at'.pc = "scan"
  BY <1>1 DEF TypeOK
<1>. HIDE DEF k, t
<1>. QED
  BY <1>1, <1>2, <1>4, <1>5, <1>6, <1>7, TreeStop

(* Process returns that the task is done.                                   *)
LEMMA TreeDone ==
  ASSUME TypeOK, TreeInv, NEW state \in {"DONE", "ERROR"}, StepDone(state)
  PROVE  TypeOK' /\ TreeInv'
<1>. DEFINE t == Current
            k == Finished(state)
            r == Returned(state)
<1>1. /\ UNCHANGED <<tasks, posted, now>> /\ at.pc = "process"
      /\ at' = [at EXCEPT !.pc = "scan"]
      /\ Stop([task EXCEPT ![t] = k], t)
      /\ next_timeout_task' = UpdateTaskTimeout([task EXCEPT ![t] = r], t)
  BY DEF StepDone, InProcess, clock
<1>2. /\ t \in Tasks /\ t \in ToSet(tasks) /\ Usable(t)
      /\ \A u \in Tasks : task[u].busy => u = t
  BY <1>1, TreeFacts
<1>3. /\ k \in Task /\ k.exists = task[t].exists /\ k.parent = task[t].parent
      /\ k.done /\ k.blocked /\ ~k.busy
  BY <1>2, FinishedType
<1>4. r \in Task
  BY <1>2, ReturnedType
<1>. HIDE DEF k, r, t
<1>5. [task EXCEPT ![t] = r] \in [Tasks -> Task]
  BY <1>4 DEF TypeOK
<1>6. /\ next_timeout_task' # None => next_timeout_task' \in ToSet(tasks)
      /\ next_timeout_task' \in Parents
  BY <1>1, <1>2, <1>5, NextIn
<1>7. /\ at' \in [pc : {"idle", "scan", "process"}, i : Nat, did_run : BOOLEAN]
      /\ at'.pc = "scan"
  BY <1>1 DEF TypeOK
<1>. QED
  BY <1>1, <1>2, <1>3, <1>6, <1>7, TreeStop

(* Abort of a task by its owner.                                            *)
LEMMA TreeAbort ==
  ASSUME TypeOK, TreeInv, NEW t \in Tasks, Abort(t)
  PROVE  TypeOK' /\ TreeInv'
<1>1. /\ UNCHANGED <<tasks, next_timeout_task, at, now>> /\ Usable(t)
      /\ task' = AbortAll(task, {t}) /\ children' = Unlink(AbortAll(task, {t}))
  BY DEF Abort, clock
<1>2. posted' \in BOOLEAN
  BY Zenon DEF Abort
<1>3. /\ next_timeout_task' # None => next_timeout_task' \in ToSet(tasks)
      /\ next_timeout_task' \in Parents
  BY <1>1, NextIn DEF TypeOK
<1>4. \A u \in Tasks : task[u].busy => at'.pc = "process" /\ u = tasks[at'.i]
  BY <1>1, TreeFacts DEF Current
<1>5. ASSUME at'.pc = "process"
      PROVE  at'.i \in 1..Len(tasks) /\ at'.did_run /\ task[tasks[at'.i]].busy
             /\ ~task[tasks[at'.i]].done
  BY <1>1, <1>5, TreeFacts DEF Current, Usable
<1>6. task \in [Tasks -> Task] /\ {t} \in SUBSET Tasks /\ {} \in SUBSET Tasks
  BY DEF TypeOK
<1>7. TreeInv' /\ task' \in [Tasks -> Task] /\ children' \in [Parents -> SUBSET Tasks]
  <2>. DEFINE d == {}
  <2>1. /\ d \in SUBSET Tasks
        /\ \A u \in Tasks \ d : task[u] = task[u]
        /\ \A u \in d : /\ Usable(u) /\ task[u].exists = "live" /\ task[u].parent = task[u].parent
                        /\ task[u].done /\ task[u].blocked
        /\ \A u \in d : children[u] \subseteq {t}
        /\ \A u \in {t} : Usable(u)
    BY <1>1
  <2>. HIDE DEF d
  <2>. QED
    BY <1>1, <1>3, <1>4, <1>5, <1>6, <2>1, AbortTree
<1>8. TypeOK'
  BY <1>1, <1>2, <1>3, <1>7 DEF TypeOK
<1>. QED
  BY <1>7, <1>8

(* The constructor and Start.                                               *)
LEMMA TreeStart ==
  ASSUME TypeOK, TreeInv, NEW t \in Tasks, NEW p \in Parents, Start(t, p)
  PROVE  TypeOK' /\ TreeInv'
<1>. DEFINE k == NewTask(p)
<1>0. /\ \A u \in Tasks : Live(u) <=> u \in ToSet(tasks)
      /\ \A u \in Tasks : task[u].exists = "not yet" => task[u] = Unborn
      /\ \A u \in Tasks : \A q \in Parents : u \in children[q] <=> Usable(u) /\ task[u].parent = q
      /\ \A u \in Tasks : Usable(u) => task[u].parent = Runner \/ Live(task[u].parent)
      /\ \A u \in Tasks : task[u].done => task[u].blocked
      /\ ChildrenEnd
  BY DEF TreeInv
<1>1. /\ UNCHANGED <<next_timeout_task, at, now>> /\ task[t] = Unborn
      /\ p # Runner => Usable(p)
      /\ task' = [task EXCEPT ![t] = k]
      /\ children' = [children EXCEPT ![p] = @ \cup {t}]
      /\ tasks' = Append(tasks, t) /\ posted' = TRUE
  BY DEF Start, clock
<1>2. /\ k \in Task /\ k.exists = "live" /\ k.parent = p /\ ~k.done /\ ~k.busy
  BY DEF NewTask, Task
<1>. HIDE DEF k
<1>3. /\ task'[t] = k /\ \A u \in Tasks : u # t => task'[u] = task[u]
      /\ task' \in [Tasks -> Task]
  BY <1>1, <1>2 DEF TypeOK
<1>4. /\ children' \in [Parents -> SUBSET Tasks] /\ children'[p] = children[p] \cup {t}
      /\ \A q \in Parents : q # p => children'[q] = children[q]
  BY <1>1 DEF TypeOK
<1>5. /\ tasks' \in Seq(Tasks) /\ ToSet(tasks') = ToSet(tasks) \cup {t}
      /\ Len(tasks') = Len(tasks) + 1 /\ Len(tasks) \in Nat
      /\ \A i \in 1..Len(tasks) : tasks'[i] = tasks[i]
  <2>1. /\ tasks' \in Seq(Tasks) /\ Len(tasks') = Len(tasks) + 1 /\ Len(tasks) \in Nat
        /\ \A i \in 1..Len(tasks) : tasks'[i] = tasks[i]
        /\ tasks'[Len(tasks) + 1] = t
    BY <1>1 DEF TypeOK
  <2>2. DOMAIN tasks' = 1..(Len(tasks) + 1) /\ DOMAIN tasks = 1..Len(tasks)
    BY <2>1 DEF TypeOK
  <2>3. ToSet(tasks') = {tasks'[i] : i \in 1..(Len(tasks) + 1)}
        /\ ToSet(tasks) = {tasks[i] : i \in 1..Len(tasks)}
    BY <2>2 DEF ToSet
  <2>4. ASSUME NEW x \in ToSet(tasks') PROVE x \in ToSet(tasks) \cup {t}
    <3>1. PICK i \in 1..(Len(tasks) + 1) : x = tasks'[i]
      BY <2>3
    <3>. QED
      BY <2>1, <2>3, <3>1
  <2>5. ASSUME NEW x \in ToSet(tasks) \cup {t} PROVE x \in ToSet(tasks')
    BY <2>1, <2>3
  <2>. QED
    BY <2>1, <2>4, <2>5
<1>6. ~Live(t) /\ ~Usable(t) /\ ~task[t].busy
  BY <1>1, NewTaskType DEF Live, Usable
<1>7. TypeOK'
  BY <1>1, <1>3, <1>4, <1>5 DEF TypeOK
<1>8. \A u \in Tasks : (Usable(u)' <=> Usable(u) \/ u = t) /\ (Live(u)' <=> Live(u) \/ u = t)
  BY <1>2, <1>3, <1>6 DEF Usable, Live
<1>9. \A u \in Tasks : Live(u)' <=> u \in ToSet(tasks')
  BY <1>0, <1>5, <1>8
<1>10. \A u \in Tasks : task'[u].exists = "not yet" => task'[u] = Unborn
  BY <1>0, <1>2, <1>3
<1>11. \A u \in Tasks : \A q \in Parents : u \in children'[q] <=> Usable(u)' /\ task'[u].parent = q
  <2>. SUFFICES ASSUME NEW u \in Tasks, NEW q \in Parents
                PROVE  u \in children'[q] <=> Usable(u)' /\ task'[u].parent = q
    OBVIOUS
  <2>1. u \in children[q] <=> Usable(u) /\ task[u].parent = q
    BY <1>0
  <2>2. u \in children'[q] <=> u \in children[q] \/ (u = t /\ q = p)
    BY <1>4
  <2>3. CASE u = t
    BY <1>2, <1>3, <1>6, <1>8, <2>1, <2>2, <2>3
  <2>4. CASE u # t
    BY <1>3, <1>8, <2>1, <2>2, <2>4
  <2>. QED
    BY <2>3, <2>4
<1>12. next_timeout_task' # None => Live(next_timeout_task)'
  <2>1. next_timeout_task # None => next_timeout_task \in Tasks /\ Live(next_timeout_task)
    BY NextIn, TreeFacts
  <2>. QED
    BY <1>1, <1>8, <2>1
<1>13. ASSUME NEW u \in Tasks, Usable(u)'
       PROVE  /\ task'[u].parent = Runner \/ task'[task'[u].parent].exists = "live"
              /\ task'[u].parent # Runner /\ task'[task'[u].parent].done
                   => task'[u].busy /\ task'[u].aborted
  <2>1. CASE u = t
    <3>1. task'[u].parent = p
      BY <1>2, <1>3, <2>1
    <3>2. CASE p = Runner
      BY <3>1, <3>2
    <3>3. CASE p # Runner
      <4>1. p \in Tasks /\ Usable(p) /\ p # t
        BY <1>1, <1>6, <3>3 DEF Parents
      <4>2. task'[p] = task[p]
        BY <1>3, <4>1
      <4>. QED
        BY <3>1, <4>1, <4>2 DEF Usable, Live
    <3>. QED
      BY <3>2, <3>3
  <2>2. CASE u # t
    <3>1. Usable(u) /\ task'[u] = task[u]
      BY <1>3, <1>8, <1>13, <2>2
    <3>2. CASE task[u].parent = Runner
      BY <3>1, <3>2
    <3>3. CASE task[u].parent # Runner
      <4>1. task[u].parent \in Tasks
        BY <3>3, TaskMembers DEF TypeOK, Parents
      <4>2. Live(task[u].parent)
        BY <1>0, <3>1, <3>3
      <4>3. task'[task[u].parent] = task[task[u].parent]
        BY <1>3, <1>6, <4>1, <4>2
      <4>4. task[task[u].parent].done => task[u].busy /\ task[u].aborted
        BY <1>0, <3>1, <3>3 DEF ChildrenEnd
      <4>. QED
        BY <3>1, <4>2, <4>3, <4>4 DEF Live
    <3>. QED
      BY <3>2, <3>3
  <2>. QED
    BY <2>1, <2>2
<1>14. \A u \in Tasks : Usable(u)' => task'[u].parent = Runner \/ Live(task[u].parent)'
  BY <1>13 DEF Live
<1>15. ChildrenEnd'
  BY <1>13 DEF ChildrenEnd
<1>16. \A u \in Tasks : task'[u].done => task'[u].blocked
  BY <1>0, <1>2, <1>3
<1>17. ASSUME at'.pc = "process"
       PROVE  /\ at'.i \in 1..Len(tasks') /\ at'.did_run /\ task'[Current'].busy
              /\ ~task'[Current'].done /\ Current' = Current
  <2>1. at.i \in 1..Len(tasks) /\ Current \in Tasks /\ Usable(Current) /\ task[Current].busy /\ at.did_run
    BY <1>1, <1>17, TreeFacts
  <2>2. Current' = Current /\ Current # t
    BY <1>1, <1>5, <1>6, <2>1 DEF Current
  <2>3. task'[Current] = task[Current]
    BY <1>3, <2>1, <2>2
  <2>. QED
    BY <1>1, <1>5, <2>1, <2>2, <2>3 DEF Usable
<1>18. \A u \in Tasks : task'[u].busy => at'.pc = "process" /\ u = Current'
  <2>1. \A u \in Tasks : task'[u].busy => task[u].busy
    BY <1>2, <1>3
  <2>2. \A u \in Tasks : task[u].busy => at.pc = "process" /\ u = Current
    BY DEF TreeInv
  <2>. QED
    BY <1>1, <1>17, <2>1, <2>2
<1>19. TreeInv'
  BY <1>9, <1>10, <1>11, <1>12, <1>14, <1>15, <1>16, <1>17, <1>18 DEF TreeInv
<1>. QED
  BY <1>7, <1>19

(* RunTasks deletes what is done: nobody usable has a parent that is done,  *)
(* as nobody is busy.                                                       *)
LEMMA TreeRunEnds ==
  ASSUME TypeOK, TreeInv, ScanInv, RunEnds
  PROVE  TypeOK' /\ TreeInv' /\ ScanInv'
<1>. DEFINE gone == {t \in ToSet(tasks) : task[t].done}
            n == next_timeout_task
<1>0. /\ \A t \in Tasks : Live(t) <=> t \in ToSet(tasks)
      /\ \A t \in Tasks : task[t].exists = "not yet" => task[t] = Unborn
      /\ \A t \in Tasks : \A p \in Parents : t \in children[p] <=> Usable(t) /\ task[t].parent = p
      /\ \A t \in Tasks : Usable(t) => task[t].parent = Runner \/ Live(task[t].parent)
      /\ \A t \in Tasks : task[t].done => task[t].blocked
      /\ ChildrenEnd
  BY DEF TreeInv
<1>1. /\ UNCHANGED <<children, posted, now>> /\ at.pc = "scan" /\ at.i > Len(tasks) /\ ~at.did_run
      /\ at' = NotRunning
  BY DEF RunEnds, clock
<1>2. PICK left \in SeqOf(Tasks, Len(tasks)) :
        /\ Removed(gone, left)
        /\ task' = [t \in Tasks |-> IF t \in gone THEN [task[t] EXCEPT !.exists = "deleted"]
                                                  ELSE task[t]]
        /\ tasks' = left
        /\ next_timeout_task' = IF n \in gone THEN RecalcNextTimeout(task, left, None) ELSE n
  BY DEF RunEnds, DeleteTasks
<1>3. left \in Seq(Tasks) /\ ToSet(left) = ToSet(tasks) \ gone
  BY <1>2 DEF SeqOf, Removed
<1>4. /\ \A t \in Tasks : ~task[t].busy
      /\ ToSet(tasks) \subseteq Tasks
  BY <1>1, TreeFacts, NextIn
<1>5. ASSUME NEW t \in Tasks
      PROVE  /\ task'[t] \in Task /\ task'[t].parent = task[t].parent /\ task'[t].done = task[t].done
             /\ task'[t].blocked = task[t].blocked /\ task'[t].busy = task[t].busy
             /\ t \in gone => task'[t].exists = "deleted" /\ task[t].done
             /\ t \notin gone => task'[t] = task[t]
  <2>1. task[t] \in Task
    BY DEF TypeOK
  <2>2. CASE t \in gone
    <3>1. task'[t] = [task[t] EXCEPT !.exists = "deleted"]
      BY <1>2, <2>2
    <3>. QED
      <4>1. task'[t] \in Task
        BY <2>1, <3>1 DEF Task
      <4>2. /\ task'[t].parent = task[t].parent /\ task'[t].done = task[t].done
            /\ task'[t].blocked = task[t].blocked /\ task'[t].busy = task[t].busy
            /\ task'[t].exists = "deleted"
        BY <2>1, <3>1 DEF Task
      <4>3. task[t].done
        BY <2>2
      <4>. QED
        BY <2>2, <4>1, <4>2, <4>3, Zenon
  <2>3. CASE t \notin gone
    <3>1. task'[t] = task[t]
      BY <1>2, <2>3
    <3>. QED
      BY <2>1, <2>3, <3>1
  <2>. QED
    BY <2>2, <2>3
<1>6. next_timeout_task' \in ToSet(left) \cup {None}
  <2>1. RecalcNextTimeout(task, left, None) \in ToSet(left) \cup {None}
    BY <1>3, RecalcIn DEF TypeOK
  <2>2. n \notin gone => n \in ToSet(left) \cup {None}
    BY <1>3, NextIn
  <2>. QED
    BY <1>2, <2>1, <2>2
<1>7. TypeOK'
  <2>1. task' \in [Tasks -> Task]
    BY <1>2, <1>5
  <2>2. at' \in [pc : {"idle", "scan", "process"}, i : Nat, did_run : BOOLEAN]
    BY <1>1 DEF NotRunning
  <2>3. next_timeout_task' \in Parents
    BY <1>3, <1>4, <1>6 DEF Parents, None, Runner
  <2>. QED
    BY <1>1, <1>2, <1>3, <2>1, <2>2, <2>3 DEF TypeOK
<1>8. \A t \in Tasks : (Live(t)' <=> Live(t) /\ t \notin gone) /\ (Usable(t)' <=> Usable(t))
  BY <1>5 DEF Live, Usable
<1>9. \A t \in Tasks : Live(t)' <=> t \in ToSet(tasks')
  BY <1>0, <1>2, <1>3, <1>8
<1>. HIDE DEF gone
<1>10. \A t \in Tasks : task'[t].exists = "not yet" => task'[t] = Unborn
  <2>. SUFFICES ASSUME NEW t \in Tasks, task'[t].exists = "not yet" PROVE task'[t] = Unborn
    OBVIOUS
  <2>1. t \notin gone
    BY <1>5
  <2>2. task'[t] = task[t]
    BY <1>5, <2>1
  <2>. QED
    BY <1>0, <2>2
<1>11. \A t \in Tasks : \A p \in Parents : t \in children'[p] <=> Usable(t)' /\ task'[t].parent = p
  <2>. SUFFICES ASSUME NEW t \in Tasks, NEW p \in Parents
                PROVE  t \in children'[p] <=> Usable(t)' /\ task'[t].parent = p
    OBVIOUS
  <2>1. t \in children[p] <=> Usable(t) /\ task[t].parent = p
    BY <1>0
  <2>. QED
    BY <1>1, <1>5, <1>8, <2>1
<1>12. next_timeout_task' # None => Live(next_timeout_task)'
  <2>. SUFFICES ASSUME next_timeout_task' # None PROVE Live(next_timeout_task)'
    OBVIOUS
  <2>1. next_timeout_task' \in ToSet(tasks') /\ next_timeout_task' \in Tasks
    BY <1>2, <1>3, <1>4, <1>6
  <2>2. task'[next_timeout_task'].exists = "live"
    BY <1>9, <2>1 DEF Live
  <2>. QED
    BY <2>2 DEF Live
<1>13. ASSUME NEW t \in Tasks, Usable(t)', task[t].parent # Runner
       PROVE  /\ task[t].parent \in Tasks /\ task'[t].parent = task[t].parent
              /\ task'[task[t].parent].exists = "live"
              /\ ~task'[task[t].parent].done
  <2>1. task[t].parent \in Tasks
    BY <1>13, TaskMembers DEF TypeOK, Parents
  <2>2. Usable(t) /\ Live(task[t].parent)
    BY <1>0, <1>8, <1>13
  <2>3. ~task[task[t].parent].done
    BY <1>0, <1>4, <1>13, <2>2 DEF ChildrenEnd
  <2>4. task[t].parent \notin gone
    BY <2>3 DEF gone
  <2>5. task'[task[t].parent] = task[task[t].parent]
    BY <1>5, <2>1, <2>4
  <2>. QED
    BY <1>5, <2>1, <2>2, <2>3, <2>5 DEF Live
<1>14. \A t \in Tasks : Usable(t)' => task'[t].parent = Runner \/ Live(task[t].parent)'
  <2>. SUFFICES ASSUME NEW t \in Tasks, Usable(t)', task'[t].parent # Runner
                PROVE  task'[task'[t].parent].exists = "live"
    BY DEF Live
  <2>1. task[t].parent # Runner
    BY <1>5
  <2>. QED
    BY <1>13, <2>1
<1>15. ChildrenEnd'
  <2>. SUFFICES ASSUME NEW t \in Tasks, Usable(t)', task'[t].parent # Runner,
                       task'[task'[t].parent].done
                PROVE  FALSE
    BY DEF ChildrenEnd
  <2>1. task[t].parent # Runner
    BY <1>5
  <2>. QED
    BY <1>13, <2>1
<1>16. \A t \in Tasks : task'[t].done => task'[t].blocked
  BY <1>0, <1>5
<1>17. at'.pc = "idle" /\ \A t \in Tasks : ~task'[t].busy
  BY <1>1, <1>4, <1>5 DEF NotRunning
<1>18. TreeInv'
  BY <1>9, <1>10, <1>11, <1>12, <1>14, <1>15, <1>16, <1>17 DEF TreeInv
<1>19. ASSUME NEW t \in ToSet(tasks') PROVE task'[t].blocked /\ ~task'[t].done
  <2>1. t \in ToSet(tasks) /\ t \notin gone /\ t \in Tasks
    BY <1>2, <1>3, <1>4
  <2>2. PICK j \in DOMAIN tasks : tasks[j] = t
    BY <2>1 DEF ToSet
  <2>3. j \in 1..Len(tasks) /\ j < at.i
    BY <1>1, <2>2 DEF TypeOK
  <2>4. task[t].blocked
    BY <1>1, <2>2, <2>3 DEF ScanInv
  <2>5. ~task[t].done
    BY <2>1 DEF gone
  <2>. QED
    BY <1>5, <2>1, <2>4, <2>5
<1>20. ScanInv'
  BY <1>17, <1>19 DEF ScanInv, NoLostWake
<1>. QED
  BY <1>7, <1>18, <1>20

-----------------------------------------------------------------------------
(* Wake-ups.                                                                *)

(* A step keeps ScanInv when it posts the message, or when RunTasks runs    *)
(* a task, or when it changes neither what is blocked nor where RunTasks is.*)
LEMMA ScanPosted ==
  ASSUME posted', at'.pc # "scan"
  PROVE  ScanInv'
BY DEF ScanInv, NoLostWake

(* A pass that ran a task.                                                  *)
LEMMA ScanRan ==
  ASSUME at'.pc # "idle", at'.did_run, at'.i >= 1
  PROVE  ScanInv'
BY DEF ScanInv, NoLostWake

(* Steps outside the scan that do not touch what is blocked.                *)
LEMMA ScanKept ==
  ASSUME TypeOK, ScanInv, UNCHANGED <<tasks, at, posted>>,
         \A t \in Tasks : task'[t].blocked = task[t].blocked /\ task'[t].done = task[t].done
  PROVE  ScanInv'
<1>1. \A i \in DOMAIN tasks : tasks[i] \in Tasks
  BY DEF TypeOK
<1>2. ToSet(tasks) \subseteq Tasks
  BY <1>1 DEF ToSet
<1>3. NoLostWake'
  BY <1>2 DEF ScanInv, NoLostWake
<1>4. at'.pc = "scan" /\ ~at'.did_run =>
        \A j \in 1..Len(tasks') : j < at'.i => task'[tasks'[j]].blocked
  BY <1>1 DEF ScanInv, TypeOK
<1>. QED
  BY <1>3, <1>4 DEF ScanInv

(* RunTasks goes on.                                                        *)
LEMMA ScanScan ==
  ASSUME TypeOK, ScanInv, OnMessage \/ Skip \/ Again
  PROVE  ScanInv'
<1>1. CASE OnMessage \/ Again
  <2>1. at' = [pc |-> "scan", i |-> 1, did_run |-> FALSE]
    BY <1>1 DEF OnMessage, Again
  <2>2. at'.pc = "scan" /\ at'.i = 1
    BY <2>1
  <2>3. \A j \in 1..Len(tasks') : ~(j < 1)
    BY <1>1 DEF OnMessage, Again, TypeOK
  <2>. QED
    BY <2>2, <2>3 DEF ScanInv, NoLostWake
<1>2. CASE Skip
  <2>1. /\ at.pc = "scan" /\ at.i <= Len(tasks) /\ task[Current].blocked
        /\ at' = [at EXCEPT !.i = @ + 1] /\ UNCHANGED <<task, tasks>>
    BY <1>2 DEF Skip, Scanning
  <2>2. at'.pc = "scan" /\ at'.i = at.i + 1 /\ at'.did_run = at.did_run /\ at.i \in Nat /\ at.i >= 1
    BY <2>1 DEF TypeOK, ScanInv
  <2>3. ASSUME ~at'.did_run, NEW j \in 1..Len(tasks'), j < at'.i PROVE task'[tasks'[j]].blocked
    <3>1. j < at.i \/ j = at.i
      BY <2>2, <2>3
    <3>2. CASE j = at.i
      BY <2>1, <3>2 DEF Current
    <3>3. CASE j < at.i
      BY <2>1, <2>2, <2>3, <3>3 DEF ScanInv
    <3>. QED
      BY <3>1, <3>2, <3>3
  <2>. QED
    BY <2>2, <2>3 DEF ScanInv, NoLostWake
<1>. QED
  BY <1>1, <1>2

(* Calls from outside or from Process.                                      *)
LEMMA ScanCalls ==
  ASSUME TypeOK, TreeInv, ScanInv, NEW t \in Tasks, NEW p \in Parents,
         Wake(t) \/ Error(t) \/ Abort(t) \/ Start(t, p)
  PROVE  ScanInv'
<1>1. at' = at /\ (at.pc = "idle" \/ at.pc = "process")
  BY DEF Wake, Error, Abort, Start, Calls, InProcess
<1>2. CASE at.pc = "process"
  BY <1>1, <1>2 DEF ScanInv, NoLostWake
<1>3. CASE at.pc = "idle"
  <2>1. posted'
    <3>1. CASE Start(t, p)
      BY <3>1 DEF Start
    <3>2. CASE Abort(t)
      <4>1. ~task[t].busy
        BY <1>3, TreeFacts
      <4>. QED
        BY <3>2, <4>1, Zenon DEF Abort
    <3>3. CASE Wake(t) \/ Error(t)
      <4>1. Usable(t) /\ posted' = (posted \/ task[t].blocked)
        BY <3>3, Zenon DEF Wake, Error
      <4>2. t \in ToSet(tasks)
        BY <4>1 DEF TreeInv, Usable
      <4>3. posted \/ task[t].blocked
        BY <1>3, <4>2 DEF ScanInv, NoLostWake
      <4>. QED
        BY <4>1, <4>3, Zenon
    <3>. QED
      BY <3>1, <3>2, <3>3
  <2>. QED
    BY <1>1, <1>3, <2>1, ScanPosted
<1>. QED
  BY <1>1, <1>2, <1>3

-----------------------------------------------------------------------------
(* Every step keeps the inductive invariant.                                *)
LEMMA InvNext ==
  ASSUME TypeOK, TreeInv, ScanInv, [Next]_vars
  PROVE  TypeOK' /\ TreeInv' /\ ScanInv'
<1>1. CASE Tick
  <2>1. UNCHANGED <<tasks, at, posted>>
    BY <1>1 DEF Tick
  <2>. QED
    BY <1>1, <2>1, TreeTick, ScanKept
<1>2. CASE PollTasks
  <2>1. posted' /\ at'.pc # "scan"
    BY <1>2 DEF PollTasks
  <2>. QED
    BY <1>2, <2>1, TreePoll, ScanPosted
<1>3. CASE OnMessage \/ Skip \/ Again
  BY <1>3, TreeScan, ScanScan
<1>4. CASE StepError
  <2>1. at.pc = "scan" /\ at' = [at EXCEPT !.did_run = TRUE]
    BY <1>4 DEF StepError, Steps, Scanning
  <2>2. at'.pc # "idle" /\ at'.did_run /\ at'.i >= 1
    BY <2>1 DEF ScanInv, TypeOK
  <2>. QED
    BY <1>4, <2>2, TreeStepError, ScanRan
<1>5. CASE StepProcess
  <2>1. TypeOK' /\ TreeInv' /\ at'.pc = "process"
    BY <1>5, TreeProcess
  <2>. QED
    BY <2>1 DEF ScanInv, NoLostWake
<1>6. ASSUME at.pc = "process" /\ at' = [at EXCEPT !.pc = "scan"]
      PROVE  ScanInv'
  <2>1. at.did_run /\ at.i \in 1..Len(tasks)
    BY <1>6, TreeFacts
  <2>2. at'.pc # "idle" /\ at'.did_run /\ at'.i >= 1
    BY <1>6, <2>1 DEF TypeOK
  <2>. QED
    BY <2>2, ScanRan
<1>7. CASE StepAborted
  BY <1>6, <1>7, TreeStepAborted DEF StepAborted
<1>8. ASSUME NEW s \in {"BLOCKED", "START"}, StepReturns(s)
      PROVE  TypeOK' /\ TreeInv' /\ ScanInv'
  <2>1. at.pc = "process" /\ at' = [at EXCEPT !.pc = "scan"]
    BY <1>8 DEF StepReturns
  <2>. QED
    BY <1>6, <1>8, <2>1, TreeReturns
<1>9. ASSUME NEW s \in {"DONE", "ERROR"}, StepDone(s)
      PROVE  TypeOK' /\ TreeInv' /\ ScanInv'
  <2>1. at.pc = "process" /\ at' = [at EXCEPT !.pc = "scan"]
    BY <1>9 DEF StepDone, InProcess
  <2>. QED
    BY <1>6, <1>9, <2>1, TreeDone
<1>10. CASE RunEnds
  BY <1>10, TreeRunEnds
<1>11. ASSUME NEW t \in Tasks, NEW p \in Parents, Start(t, p)
       PROVE  TypeOK' /\ TreeInv' /\ ScanInv'
  BY <1>11, TreeStart, ScanCalls
<1>12. ASSUME NEW t \in Tasks, Wake(t) \/ Error(t) \/ Abort(t)
       PROVE  TypeOK' /\ TreeInv' /\ ScanInv'
  <2>1. Runner \in Parents
    BY DEF Parents
  <2>2. ScanInv'
    BY <1>12, <2>1, ScanCalls
  <2>. QED
    BY <1>12, <2>2, TreeWake, TreeAbort
<1>13. ASSUME NEW t \in Tasks, NEW s \in Timeouts, NEW b \in BOOLEAN, SetTimeout(t, s, b)
       PROVE  TypeOK' /\ TreeInv' /\ ScanInv'
  <2>1. UNCHANGED <<tasks, at, posted>>
    BY <1>13 DEF SetTimeout
  <2>2. /\ TypeOK' /\ TreeInv'
        /\ \A u \in Tasks : task'[u].blocked = task[u].blocked /\ task'[u].done = task[u].done
    BY <1>13, TreeSetTimeout
  <2>. QED
    BY <2>1, <2>2, ScanKept
<1>14. CASE UNCHANGED vars
  <2>1. TypeOK'
    BY <1>14 DEF vars, TypeOK
  <2>2. TreeInv'
    BY <1>14 DEF vars, TreeInv, Live, Usable, ChildrenEnd, Current
  <2>3. ScanInv'
    BY <1>14 DEF vars, ScanInv, NoLostWake
  <2>. QED
    BY <2>1, <2>2, <2>3
<1>. QED
  BY <1>1, <1>2, <1>3, <1>4, <1>5, <1>7, <1>8, <1>9, <1>10, <1>11, <1>12, <1>13, <1>14 DEF Next

-----------------------------------------------------------------------------
(* The invariants hold always.                                              *)
LEMMA Invariant == Spec => [](TypeOK /\ TreeInv /\ ScanInv)
<1>1. Init => TypeOK /\ TreeInv /\ ScanInv
  BY TreeInit
<1>2. TypeOK /\ TreeInv /\ ScanInv /\ [Next]_vars => (TypeOK /\ TreeInv /\ ScanInv)'
  BY InvNext
<1>. QED
  BY <1>1, <1>2, PTL DEF Spec

(* No pointer to a deleted task is left in the runner, in children_ or as a *)
(* parent (InternalRunTasks deletes a task only when all of them let go of  *)
(* it), however tasks start, wake, fail, time out and abort one another.    *)
THEOREM NothingDangles == Spec => []NoDangling
<1>1. ASSUME TypeOK, TreeInv PROVE NoDangling
  <2>1. \A t \in ToSet(tasks) : Live(t)
    BY <1>1, TreeFacts
  <2>2. \A p \in Parents : \A t \in children[p] : Live(t)
    BY <1>1 DEF TreeInv, TypeOK, Usable
  <2>3. /\ next_timeout_task # None => Live(next_timeout_task)
        /\ \A t \in Tasks : Usable(t) => task[t].parent = Runner \/ Live(task[t].parent)
    BY <1>1 DEF TreeInv
  <2>. QED
    BY <2>1, <2>2, <2>3 DEF NoDangling
<1>2. TypeOK /\ TreeInv /\ ScanInv => NoDangling
  BY <1>1
<1>. QED
  BY <1>2, Invariant, PTL

(* A task that was woken, failed or aborted is seen by RunTasks: when no    *)
(* run is under way or posted, every task of the runner is blocked and none *)
(* waits to be deleted.                                                     *)
THEOREM NoWakeLost == Spec => []NoLostWake
<1>1. TypeOK /\ TreeInv /\ ScanInv => NoLostWake
  BY DEF ScanInv
<1>. QED
  BY <1>1, Invariant, PTL

(* The end of a task, by whatever way, is the end of its children, and of   *)
(* theirs, for every tree of tasks.                                         *)
THEOREM ChildrenAreEnded == Spec => []ChildrenEnd
<1>1. TypeOK /\ TreeInv /\ ScanInv => ChildrenEnd
  BY DEF TreeInv
<1>. QED
  BY <1>1, Invariant, PTL
=============================================================================
