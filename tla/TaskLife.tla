------------------------------ MODULE TaskLife ------------------------------
(***************************************************************************)
(* The life of a process: sys_fork, sys_wait and sys_exit of               *)
(* kernel/core/task.c, over the scheduler and task_table_mutex.            *)
(*                                                                         *)
(* System calls run with interrupts enabled, so a task can be preempted    *)
(* between any two of their steps.  `pc' says where each task is: a value  *)
(* names the step it takes next, "user" is outside these system calls.     *)
(* A step covers the code up to the next point where what other tasks do   *)
(* could matter: a call of mutex_lock, the section under the mutex, a      *)
(* section with interrupts off.                                            *)
(*                                                                         *)
(* Slots of task_table are the tasks other than First; a slot is free when *)
(* its name is empty.  Which free slot or which zombie a scan of the table *)
(* finds first is left open.                                               *)
(***************************************************************************)
EXTENDS Mutex

CONSTANTS TableMutex,  (* task_table_mutex                                 *)
          RacyFork,    (* FALSE: alloc_task does not run while another     *)
                       (* fork is between its alloc_task and the end of    *)
                       (* task_init, or of free_task                       *)
          EmptyName    (* FALSE: no process gives sys_execve a path that   *)
                       (* is empty or ends in a separator                  *)

ASSUME LifeAssumption ==
    /\ TableMutex \in Mutexes
    /\ RacyFork \in BOOLEAN
    /\ EmptyName \in BOOLEAN

VARIABLES pc,          (* the step each task takes next                    *)
          named,       (* task_t.name is not empty: the slot is taken      *)
          parent,      (* task_t.parent                                    *)
          child,       (* child_task of sys_fork                           *)
          move_child   (* move_child of sys_exit                           *)

lifeVars == <<pc, named, parent, child, move_child>>
allVars == <<vars, lifeVars>>

Slots == Tasks \ {First}

Steps == {"user", "fork_alloc", "fork_init", "fork_failed", "fork_free", "fork_start",
          "wait_lock", "wait_scan", "wait_reaped", "wait_none", "wait_block",
          "exit_scan", "exit_unlock", "exit_final", "gone"}
-----------------------------------------------------------------------------
LifeInit ==
    /\ Init
    /\ pc = [t \in Tasks |-> IF t = First THEN "user" ELSE "gone"]
    /\ named = [t \in Tasks |-> t = First]
    /\ parent = [t \in Tasks |-> NoTask]
    /\ child = [t \in Tasks |-> NoTask]
    /\ move_child = [t \in Tasks |-> FALSE]

\* The running task is at step p and goes on to step q.
At(p) == Running(curr_task) /\ pc[curr_task] = p
Goto(q) == pc' = [pc EXCEPT ![curr_task] = q]

Children(t) == {c \in Slots : parent[c] = t}
Zombies_Alive(t) == Children(t)
Zombies(t) == {c \in Children(t) : state[c] = "ZOMBIE"}

\* Enter the section under task_table_mutex.
LockTable(from, to) ==
    /\ At(from)
    /\ mutex_lock(TableMutex)
    /\ Goto(to)
    /\ UNCHANGED <<named, parent, child, move_child>>

ForkLock == LockTable("user", "fork_alloc")
WaitLock == LockTable("user", "wait_scan") \/ LockTable("wait_lock", "wait_scan")
ExitLock == curr_task # First /\ LockTable("user", "exit_scan")

\* alloc_task: find a slot without a name; the slot is not marked.
fork_alloc ==
    /\ At("fork_alloc")
    /\ RacyFork \/ \A t \in Tasks : pc[t] \notin {"fork_init", "fork_failed", "fork_free"}
    /\ mutex_unlock(TableMutex)
    /\ \/ /\ \E c \in Slots : ~named[c] /\ child' = [child EXCEPT ![curr_task] = c]
          /\ Goto("fork_init")
       \/ /\ \A c \in Slots : named[c]
          /\ Goto("user")
          /\ UNCHANGED child
    /\ UNCHANGED <<named, parent, move_child>>

\* task_init (the name, a copy of the parent's, takes the slot) up to the copy of the
\* address space; or task_init fails for want of memory or a descriptor before it sets the
\* name, and task_uninit clears the slot.  The name, parent = 0 and the parent are set one
\* after the other in the code: the slot's parent is null before, too.
fork_init ==
    LET c == child[curr_task] IN
    /\ At("fork_init")
    /\ state' = [state EXCEPT ![c] = "CREATED"]
    /\ \/ /\ named' = [named EXCEPT ![c] = named[curr_task]]
          /\ parent' = [parent EXCEPT ![c] = curr_task]
          /\ slice_ticks' = [slice_ticks EXCEPT ![c] = TimeSlice]
          /\ pc' = [pc EXCEPT ![curr_task] = "fork_start", ![c] = "user"]
       \/ /\ named' = [named EXCEPT ![c] = FALSE]
          /\ parent' = [parent EXCEPT ![c] = NoTask]
          /\ Goto("fork_failed")
          /\ UNCHANGED slice_ticks
    /\ UNCHANGED <<ready_list, sleep_list, curr_task, sleep_ticks, mutexVars, child, move_child>>

\* free_task: the name is taken away (again) under the mutex, then fork returns -1.
FreeLock == LockTable("fork_failed", "fork_free")

fork_free ==
    /\ At("fork_free")
    /\ mutex_unlock(TableMutex)
    /\ named' = [named EXCEPT ![child[curr_task]] = FALSE]
    /\ child' = [child EXCEPT ![curr_task] = NoTask]
    /\ Goto("user")
    /\ UNCHANGED <<parent, move_child>>

\* task_start of the child; fork returns its pid.
fork_start ==
    /\ At("fork_start")
    /\ task_start(child[curr_task])
    /\ child' = [child EXCEPT ![curr_task] = NoTask]
    /\ Goto("user")
    /\ UNCHANGED <<mutexVars, named, parent, move_child>>

\* The scan of sys_wait under the mutex: reap a zombie child (its slot is cleared) or not.
wait_scan ==
    /\ At("wait_scan")
    /\ \/ \E z \in Zombies(curr_task) :
            /\ named' = [named EXCEPT ![z] = FALSE]
            /\ parent' = [parent EXCEPT ![z] = NoTask]
            /\ state' = [state EXCEPT ![z] = "CREATED"]
            /\ Goto("wait_reaped")
       \/ /\ Zombies(curr_task) = {}
          /\ Goto("wait_none")
          /\ UNCHANGED <<named, parent, state>>
    /\ UNCHANGED <<ready_list, sleep_list, curr_task, sleep_ticks, slice_ticks,
                   mutexVars, child, move_child>>

\* Leave the section under task_table_mutex.
UnlockTable(from, to) ==
    /\ At(from)
    /\ mutex_unlock(TableMutex)
    /\ Goto(to)
    /\ UNCHANGED <<named, parent, child, move_child>>

WaitUnlock == UnlockTable("wait_reaped", "user") \/ UnlockTable("wait_none", "wait_block")

\* Nothing to reap: block until a child's exit makes the task ready, then scan again.
wait_block ==
    /\ At("wait_block")
    /\ BlockCurrent([state EXCEPT ![curr_task] = "WAITING"])
    /\ Goto("wait_lock")
    /\ UNCHANGED <<sleep_list, sleep_ticks, slice_ticks, mutexVars, named, parent, child, move_child>>

\* The scan of sys_exit under the mutex: the children pass to the first task.
NewParent_Kept(c) == parent[c]
NewParent(c) == IF c \in Children(curr_task) THEN First ELSE parent[c]

exit_scan ==
    /\ At("exit_scan")
    /\ move_child' = [move_child EXCEPT ![curr_task] = Zombies(curr_task) # {}]
    /\ parent' = [c \in Tasks |-> NewParent(c)]
    /\ Goto("exit_unlock")
    /\ UNCHANGED <<vars, named, child>>

ExitUnlock == UnlockTable("exit_unlock", "exit_final")

\* Whom the exiting task wakes if it blocks in sys_wait: its parent, and the first task if
\* that has just been left a zombie.
WokenByExit ==
    {t \in Tasks : /\ state[t] = "WAITING"
                   /\ t = parent[curr_task] \/ (t = First /\ move_child[curr_task])}

\* The end of sys_exit, interrupts off: wake, become a zombie, leave the CPU for good.
exit_final ==
    LET Wake(ready, t) == IF t \in WokenByExit THEN SetReady(ready, t) ELSE ready
        up == parent[curr_task]
        ready == Wake(IF up = First THEN ready_list ELSE Wake(ready_list, First), up)
    IN
    /\ At("exit_final")
    /\ Dispatch(SetBlock(ready, curr_task),
                [MarkReady(state, WokenByExit) EXCEPT ![curr_task] = "ZOMBIE"])
    /\ Goto("gone")
    /\ move_child' = [move_child EXCEPT ![curr_task] = FALSE]
    /\ UNCHANGED <<sleep_list, sleep_ticks, slice_ticks, mutexVars, named, parent, child>>

\* sys_execve: the last component of the path becomes the process's name before anything
\* of the call can fail, and a failure does not bring the old name back.  First runs the
\* kernel's own first_task.c, whose children call it.
sys_execve ==
    /\ At("user")
    /\ curr_task # First
    /\ \E empty \in BOOLEAN :
        /\ empty => EmptyName
        /\ named' = [named EXCEPT ![curr_task] = ~empty]
    /\ UNCHANGED <<vars, pc, parent, child, move_child>>

\* What a process does outside these system calls, and the timer at any time.
UserStep ==
    /\ \/ At("user") /\ (sys_yield \/ \E ms \in MsArgs : sys_msleep(ms))
       \/ task_time_tick
    /\ UNCHANGED <<mutexVars, lifeVars>>

ForkStep == ForkLock \/ fork_alloc \/ fork_init \/ FreeLock \/ fork_free \/ fork_start
WaitStep == WaitLock \/ wait_scan \/ WaitUnlock \/ wait_block
ExitStep == ExitLock \/ exit_scan \/ ExitUnlock \/ exit_final

LifeNext == UserStep \/ sys_execve \/ ForkStep \/ WaitStep \/ ExitStep

(* A task that is inside a system call gets on with it when it has the CPU; *)
(* nothing makes a process start one.                                       *)
LifeFairness ==
    /\ WF_allVars(task_time_tick /\ UNCHANGED <<mutexVars, lifeVars>>)
    /\ \A t \in Tasks :
        SF_allVars(curr_task = t /\ pc[t] # "user" /\ (ForkStep \/ WaitStep \/ ExitStep))

LifeSpec == LifeInit /\ [][LifeNext]_allVars /\ LifeFairness
-----------------------------------------------------------------------------
LifeTypeOK ==
    /\ MutexTypeOK
    /\ pc \in [Tasks -> Steps]
    /\ named \in [Tasks -> BOOLEAN]
    /\ parent \in [Tasks -> Tasks \cup {NoTask}]
    /\ child \in [Tasks -> Slots \cup {NoTask}]
    /\ move_child \in [Tasks -> BOOLEAN]

\* Linked anywhere: able to run, to be woken by the timer or by an unlock.
Linked(t) ==
    \/ t \in Range(ready_list) \cup Range(sleep_list)
    \/ t \in Range(wait_list[TableMutex])

\* Only exit wakes a task that blocks in sys_wait and nobody wakes a zombie; every other
\* process is linked at exactly one place, so a wake-up never links a task twice.
LinkedUnlessBlocked ==
    /\ RunNodeLinkedOnce
    /\ \A t \in Range(wait_list[TableMutex]) : t \notin Range(ready_list) \cup Range(sleep_list)
    /\ \A t \in Tasks : Linked(t) <=> state[t] \notin {"CREATED", "WAITING", "ZOMBIE"}

\* Somebody can reap every process: its parent is the first task or a process that has not
\* passed on its children yet, and a parent cannot itself be reaped while it has children.
ParentCanReap ==
    \A c \in Slots : named[c] =>
        \/ parent[c] = First
        \/ /\ parent[c] \in Slots /\ named[parent[c]]
           /\ pc[parent[c]] \notin {"exit_unlock", "exit_final", "gone"}

\* A slot without a name can be given away: it is linked nowhere, holds no mutex, is no
\* longer in a system call and nobody's parent; only a task that has left for good gets there.
FreeSlotIsUnused ==
    \A c \in Slots : ~named[c] =>
        /\ ~Linked(c) /\ c # curr_task
        /\ calls[c][TableMutex] = 0
        /\ pc[c] = "gone" /\ state[c] = "CREATED"
        /\ \A t \in Tasks : parent[t] # c

\* sys_exit always gets to its end.
ExitCompletes ==
    \A t \in Slots : pc[t] \in {"exit_scan", "exit_unlock", "exit_final"} ~> state[t] = "ZOMBIE"

\* task.c:976 "if the parent is in wait, wake it to reap": a task that blocks in sys_wait
\* has no zombie child.
NoLostWakeup == \A t \in Tasks : state[t] = "WAITING" => Zombies(t) = {}

\* task.c:114 "the address is used, it is unique" (of the pid): no fork builds a task_t that
\* another fork builds, or in which a process lives or waits to be reaped.
PidUnique ==
    /\ \A s, t \in Tasks : s # t /\ child[s] # NoTask => child[s] # child[t]
    /\ \A t \in Tasks : pc[t] = "fork_init" =>
        pc[child[t]] = "gone" /\ state[child[t]] # "ZOMBIE"
=============================================================================
