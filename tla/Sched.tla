------------------------------- MODULE Sched -------------------------------
(***************************************************************************)
(* The task scheduler of kernel/core/task.c: one CPU, one FIFO ready list, *)
(* one sleep list, a time slice per task and an idle task that is never    *)
(* queued.                                                                 *)
(*                                                                         *)
(* The running task keeps its place at the HEAD of ready_list (it is not   *)
(* taken off the list when it is dispatched); task_dispatch only follows   *)
(* the head.  Every operation below runs between irq_enter_protection and  *)
(* irq_leave_protection, or in an interrupt handler whose gate clears IF,  *)
(* so each is one atomic step; an interrupt can come between any two.      *)
(*                                                                         *)
(* The list operators and the three helpers SetReady, SetBlock and         *)
(* Dispatch are what the mutex, the semaphore and the process life cycle   *)
(* are built from: their modules EXTEND this one.                          *)
(*                                                                         *)
(* A definition X_Fault is a faulty variant of the definition X below it:  *)
(* PROJECT.json names the property that detects X replaced by X_Fault.     *)
(***************************************************************************)
EXTENDS Integers, Sequences, FiniteSets, Functions

CONSTANTS Tasks,      (* the task_t structures other than the idle task    *)
          First,      (* task_manager.first_task, running after boot       *)
          Idle,       (* task_manager.idle_task                            *)
          TimeSlice,  (* TASK_TIME_SLICE_DEFAULT                           *)
          TickMs,     (* OS_TICK_MS                                        *)
          Word,       (* 2^32 in the code: ms is a uint32_t                *)
          MsArgs      (* the delays tasks ask for: msleep of applib takes  *)
                      (* an int and makes no system call unless it is > 0  *)

ASSUME SchedAssumption ==
       /\ First \in Tasks
       /\ Idle \notin Tasks
       /\ TimeSlice \in Nat \ {0}
       /\ TickMs \in Nat \ {0}
       /\ Word \in Nat /\ 2 * TickMs <= Word
       /\ \A ms \in MsArgs : ms \in Nat /\ 0 < ms /\ 2 * ms < Word

VARIABLES ready_list,   (* task_manager.ready_list, head first             *)
          sleep_list,   (* task_manager.sleep_list                         *)
          curr_task,    (* task_manager.curr_task                          *)
          state,        (* task_t.state                                    *)
          sleep_ticks,  (* task_t.sleep_ticks                              *)
          slice_ticks   (* task_t.slice_ticks                              *)

schedVars == <<ready_list, sleep_list, curr_task, state, sleep_ticks, slice_ticks>>

AllTasks == Tasks \cup {Idle}

TaskStates == {"CREATED", "RUNNING", "SLEEP", "READY", "WAITING", "ZOMBIE"}
-----------------------------------------------------------------------------
(* Lists.  A node is on a list at most once, so a list of tasks is a       *)
(* sequence without repetition and a node is named by its task.            *)

\* list_remove: unlink the node of t, the others keep their order.
ListRemove(list, t) ==
    LET k == CHOOSE k \in DOMAIN list : list[k] = t
    IN  [i \in 1 .. Len(list) - 1 |-> IF i < k THEN list[i] ELSE list[i + 1]]

\* i is before j on the list.
Before(list, s, t) ==
    \E i, j \in DOMAIN list : i < j /\ list[i] = s /\ list[j] = t

\* The sublists of list that hold exactly the tasks of S, in list order (there is one).
Sublists(list, S) ==
    {sub \in UNION {[1 .. n -> S] : n \in 0 .. Len(list)} :
        /\ S \subseteq Range(sub)
        /\ \A i, j \in DOMAIN sub : i < j => Before(list, sub[i], sub[j])}
-----------------------------------------------------------------------------
(* Helpers: their arguments are the values the list and the states have    *)
(* reached inside the handler that calls them.                             *)

\* task_set_ready, its list half: idle is never queued.
SetReady_AtHead(ready, t) == IF t = Idle THEN ready ELSE <<t>> \o ready
SetReady(ready, t) == IF t = Idle THEN ready ELSE Append(ready, t)

\* task_set_ready, its state half, for the tasks of S.
MarkReady_Forgotten(st, S) == [t \in AllTasks |-> st[t]]
MarkReady(st, S) == [t \in AllTasks |-> IF t \in S \ {Idle} THEN "READY" ELSE st[t]]

\* task_set_block: off the ready list; the state field is left as it is.
SetBlock_Forgotten(ready, t) == ready
SetBlock(ready, t) == IF t = Idle THEN ready ELSE ListRemove(ready, t)

\* task_next_run
NextRun_Newest(ready) == IF ready = <<>> THEN Idle ELSE ready[Len(ready)]
NextRun(ready) == IF ready = <<>> THEN Idle ELSE Head(ready)

\* task_dispatch, as the last call of a handler that has made the list `ready' and the states `st'.
Dispatch(ready, st) ==
    LET to == NextRun(ready) IN
    /\ ready_list' = ready
    /\ curr_task' = to
    /\ state' = IF to # curr_task THEN [st EXCEPT ![to] = "RUNNING"] ELSE st

\* The running task stops running without being queued anywhere.
BlockCurrent(st) == Dispatch(SetBlock(ready_list, curr_task), st)

\* Only ordinary tasks make system calls: the idle task executes nothing but hlt.
Running(t) == t \in Tasks /\ curr_task = t
-----------------------------------------------------------------------------
(* After task_first_init: the first task was made current before           *)
(* task_start queued it, so it runs in state READY; task_start of the idle *)
(* task returned early, so idle is still CREATED.                          *)
SchedInit ==
    /\ ready_list = <<First>>
    /\ sleep_list = <<>>
    /\ curr_task = First
    /\ state = [t \in AllTasks |-> IF t = First THEN "READY" ELSE "CREATED"]
    /\ sleep_ticks = [t \in AllTasks |-> 0]
    /\ slice_ticks = [t \in AllTasks |-> TimeSlice]

\* task_start: queue a task that was just created; no dispatch.
task_start(t) ==
    /\ Running(curr_task)
    /\ state[t] = "CREATED"
    /\ ready_list' = SetReady(ready_list, t)
    /\ state' = MarkReady(state, {t})
    /\ UNCHANGED <<sleep_list, curr_task, sleep_ticks, slice_ticks>>

\* sys_yield and sys_sched_yield: to the tail, unless there is nobody else.
sys_yield ==
    /\ Running(curr_task)
    /\ Len(ready_list) > 1
    /\ Dispatch(SetReady(SetBlock(ready_list, curr_task), curr_task),
                MarkReady(state, {curr_task}))
    /\ UNCHANGED <<sleep_list, sleep_ticks, slice_ticks>>

\* The delay in ticks: at least one tick, rounded up, in unsigned arithmetic.
Ticks_NoMinimum(ms) == ms \div TickMs
Ticks(ms) ==
    LET atLeast == IF ms < TickMs THEN TickMs ELSE ms
    IN  ((atLeast + (TickMs - 1)) % Word) \div TickMs

\* sys_msleep, with task_set_sleep: no sleep at all for a delay of 0 ticks, but
\* the caller has already been taken off the ready list.
sys_msleep(ms) ==
    /\ Running(curr_task)
    /\ IF Ticks(ms) = 0
       THEN /\ BlockCurrent(state)
            /\ UNCHANGED <<sleep_list, sleep_ticks>>
       ELSE /\ BlockCurrent([state EXCEPT ![curr_task] = "SLEEP"])
            /\ sleep_list' = Append(sleep_list, curr_task)
            /\ sleep_ticks' = [sleep_ticks EXCEPT ![curr_task] = Ticks(ms)]
    /\ UNCHANGED slice_ticks

\* The sleepers whose delay ends with this tick.
Due_OnlyHead == {t \in Range(sleep_list) : sleep_ticks[t] = 1 /\ t = sleep_list[1]}
Due == {t \in Range(sleep_list) : sleep_ticks[t] = 1}

SliceOver == slice_ticks[curr_task] = 1

\* task_time_tick: charge the running task (idle too), rotate it when its slice
\* is used up, count every sleeper down, queue those that are due, dispatch.
task_time_tick ==
    LET ready == IF SliceOver THEN SetReady(SetBlock(ready_list, curr_task), curr_task)
                              ELSE ready_list
        woken == Due \cup (IF SliceOver THEN {curr_task} ELSE {})
    IN
    /\ slice_ticks' = [slice_ticks EXCEPT ![curr_task] = IF SliceOver THEN TimeSlice ELSE @ - 1]
    /\ sleep_ticks' = [t \in AllTasks |-> IF t \in Range(sleep_list) THEN sleep_ticks[t] - 1
                                                                     ELSE sleep_ticks[t]]
    /\ \E due \in Sublists(sleep_list, Due) : Dispatch(ready \o due, MarkReady(state, woken))
    /\ sleep_list' \in Sublists(sleep_list, Range(sleep_list) \ Due)

SchedNext ==
    \/ \E t \in Tasks : task_start(t)
    \/ sys_yield
    \/ \E ms \in MsArgs : sys_msleep(ms)
    \/ task_time_tick

(* The timer keeps interrupting: nothing in the kernel masks IRQ0 for good.  *)
SchedSpec == SchedInit /\ [][SchedNext]_schedVars /\ WF_schedVars(task_time_tick)
-----------------------------------------------------------------------------
SchedTypeOK ==
    /\ ready_list \in Seq(Tasks)
    /\ sleep_list \in Seq(Tasks)
    /\ curr_task \in AllTasks
    /\ state \in [AllTasks -> TaskStates]
    /\ sleep_ticks \in [AllTasks -> Nat]
    /\ slice_ticks \in [AllTasks -> 1 .. TimeSlice]

\* A task's run_node is linked at one place: at most once on the ready list, at
\* most once on the sleep list, never on both (they share the node).
RunNodeLinkedOnce ==
    /\ IsInjective(ready_list)
    /\ IsInjective(sleep_list)
    /\ Range(ready_list) \cap Range(sleep_list) = {}

\* Between handlers the CPU runs the head of the ready list, and the idle task
\* only when nobody is ready: no handler forgets the dispatch its changes call for.
RunsHead == /\ ready_list = <<>> => curr_task = Idle
            /\ ready_list # <<>> => curr_task = ready_list[1]

\* A task is on the sleep list exactly while its state says so, and then has ticks
\* left: task_time_tick tests for 0 after decrementing, so 0 would never fire.
SleepersAreCounted ==
    \A t \in Tasks : /\ t \in Range(sleep_list) <=> state[t] = "SLEEP"
                     /\ t \in Range(sleep_list) => sleep_ticks[t] > 0

\* Whoever is queued behind the running task is READY: RUNNING never sticks to a
\* task that was preempted, and a task that waits in line was put there as READY.
OthersAreReady ==
    /\ \A t \in Range(ready_list) \ {curr_task} : state[t] = "READY"
    /\ Running(curr_task) => state[curr_task] \in {"RUNNING", "READY"}

\* A started task is always on a list that will bring it back to the CPU: the code
\* that takes the running task off the ready list puts it on another one
\* (task.c:394 "move from the ready list to the sleep list").
NoTaskLost ==
    \A t \in Tasks : state[t] # "CREATED" => t \in Range(ready_list) \cup Range(sleep_list)

\* First come, first served: nobody on the ready list is overtaken by a task queued
\* behind it, except that the running task may go to the tail.
NoOvertaking ==
    [][\A s, t \in Tasks : /\ s # curr_task
                           /\ Before(ready_list, s, t)
                           /\ {s, t} \subseteq Range(ready_list')
                           => Before(ready_list', s, t)]_schedVars

\* Nobody starves: a started task keeps coming back to the CPU, whether it is queued
\* behind others or asleep.
EveryTaskRuns == \A t \in Tasks : state[t] # "CREATED" ~> curr_task = t
=============================================================================
