------------------------------- MODULE Mutex -------------------------------
(***************************************************************************)
(* The kernel's recursive mutexes, ipc/mutex.c, on top of the scheduler.   *)
(*                                                                         *)
(* A lock that is taken puts the caller on the mutex's wait list; unlock   *)
(* hands the mutex over to the oldest waiter while that task is still off  *)
(* the CPU, "because it might not win it when it wakes up".  mutex_lock    *)
(* does not look again when it returns from the wait, so whoever made a    *)
(* waiter ready has given it the mutex, rightly or not.  The model keeps   *)
(* what the callers rely on in `calls': a task is inside a critical        *)
(* section when it has made lock calls it has not undone and it is not     *)
(* held up in one.  Exclusion is stated about that, not about `owner'.     *)
(***************************************************************************)
EXTENDS Sched

CONSTANTS Mutexes,   (* the kernel's mutexes                               *)
          Nests,     (* <<outer, inner>>: a task locks `inner' inside `outer' *)
          NoTask,    (* the null owner                                     *)
          MaxDepth   (* bound on how often a task re-enters a mutex        *)

ASSUME MutexAssumption ==
       /\ NoTask \notin AllTasks
       /\ MaxDepth \in Nat \ {0}
       /\ Nests \subseteq Mutexes \X Mutexes

VARIABLES owner,         (* mutex_t.owner                                  *)
          locked_count,  (* mutex_t.locked_count                           *)
          wait_list,     (* mutex_t.wait_list                              *)
          calls          (* per task and mutex: lock calls less unlock calls *)

mutexVars == <<owner, locked_count, wait_list, calls>>
vars == <<schedVars, mutexVars>>
-----------------------------------------------------------------------------
Init ==
    /\ SchedInit
    /\ owner = [m \in Mutexes |-> NoTask]
    /\ locked_count = [m \in Mutexes |-> 0]
    /\ wait_list = [m \in Mutexes |-> <<>>]
    /\ calls = [t \in Tasks |-> [m \in Mutexes |-> 0]]

\* The callers' locking order: a mutex is locked inside another one, or again.
InOrder(m) ==
    /\ calls[curr_task][m] < MaxDepth
    /\ \A h \in Mutexes \ {m} : calls[curr_task][h] > 0 => <<h, m>> \in Nests

\* The test `mutex->owner == curr' of both calls.
Mine_Always(m) == TRUE
Mine_Never(m) == FALSE
Mine(m) == owner[m] = curr_task

\* list_remove_first of the wait list: who gets the mutex next.
Heir_Newest(m) == wait_list[m][Len(wait_list[m])]
Heir(m) == Head(wait_list[m])

\* The three branches of mutex_lock.
LockFree(m) ==
    /\ locked_count[m] = 0
    /\ locked_count' = [locked_count EXCEPT ![m] = 1]
    /\ owner' = [owner EXCEPT ![m] = curr_task]
    /\ UNCHANGED <<schedVars, wait_list>>

LockAgain(m) ==
    /\ locked_count[m] # 0
    /\ Mine(m)
    /\ locked_count' = [locked_count EXCEPT ![m] = @ + 1]
    /\ UNCHANGED <<schedVars, owner, wait_list>>

LockWait(m) ==
    /\ locked_count[m] # 0
    /\ ~Mine(m)
    /\ BlockCurrent(state)
    /\ wait_list' = [wait_list EXCEPT ![m] = Append(@, curr_task)]
    /\ UNCHANGED <<sleep_list, sleep_ticks, slice_ticks, owner, locked_count>>

mutex_lock(m) ==
    /\ Running(curr_task)
    /\ InOrder(m)
    /\ calls' = [calls EXCEPT ![curr_task][m] = @ + 1]
    /\ LockFree(m) \/ LockAgain(m) \/ LockWait(m)

\* The last unlock: with nobody waiting the mutex becomes free.
ReleaseFree(m) ==
    /\ wait_list[m] = <<>>
    /\ locked_count' = [locked_count EXCEPT ![m] = 0]
    /\ owner' = [owner EXCEPT ![m] = NoTask]
    /\ UNCHANGED <<schedVars, wait_list>>

\* With waiters it passes, locked once, to the oldest of them.
HandOver(m) ==
    /\ wait_list[m] # <<>>
    /\ wait_list' = [wait_list EXCEPT ![m] = Tail(@)]
    /\ locked_count' = [locked_count EXCEPT ![m] = 1]
    /\ owner' = [owner EXCEPT ![m] = Heir(m)]
    /\ Dispatch(SetReady(ready_list, Heir(m)), MarkReady(state, {Heir(m)}))
    /\ UNCHANGED <<sleep_list, sleep_ticks, slice_ticks>>

\* Only the owner can release; the call of another task changes nothing.
mutex_unlock(m) ==
    /\ Running(curr_task)
    /\ calls[curr_task][m] > 0
    /\ calls' = [calls EXCEPT ![curr_task][m] = @ - 1]
    /\ \/ /\ Mine(m) /\ locked_count[m] > 1
          /\ locked_count' = [locked_count EXCEPT ![m] = @ - 1]
          /\ UNCHANGED <<schedVars, owner, wait_list>>
       \/ Mine(m) /\ locked_count[m] = 1 /\ (ReleaseFree(m) \/ HandOver(m))
       \/ ~Mine(m) /\ UNCHANGED <<schedVars, owner, locked_count, wait_list>>

SchedStep == SchedNext /\ UNCHANGED mutexVars

Next ==
    \/ SchedStep
    \/ \E m \in Mutexes : mutex_lock(m) \/ mutex_unlock(m)

(* Every critical section of the kernel is finite code, so a task that is  *)
(* given the CPU again and again gets to its unlock, and does not re-enter *)
(* the mutex for ever instead of leaving it (strong fairness: the timer    *)
(* keeps taking the CPU away).                                             *)
Fairness ==
    /\ WF_vars(task_time_tick /\ UNCHANGED mutexVars)
    /\ \A m \in Mutexes : /\ SF_vars(mutex_unlock(m))
                         /\ SF_vars(mutex_unlock(m) /\ calls[curr_task][m] = 1)

Spec == Init /\ [][Next]_vars /\ Fairness
-----------------------------------------------------------------------------
MutexTypeOK ==
    /\ SchedTypeOK
    /\ owner \in [Mutexes -> Tasks \cup {NoTask}]
    /\ locked_count \in [Mutexes -> Nat]
    /\ wait_list \in [Mutexes -> Seq(Tasks)]
    /\ calls \in [Tasks -> [Mutexes -> Nat]]

\* t is held up in mutex_lock(m).
HeldUp(t, m) == t \in Range(wait_list[m]) /\ t \notin Range(ready_list)

\* t has returned from mutex_lock(m) and not yet undone it.
Inside(t, m) == calls[t][m] > 0 /\ ~HeldUp(t, m)

\* Two tasks are never inside the same mutex.
MutualExclusion ==
    \A m \in Mutexes : \A s, t \in Tasks : Inside(s, m) /\ Inside(t, m) => s = t

\* The mutex's own record agrees with its callers: it is owned exactly by the task inside
\* and counts that task's calls, and a free mutex has no waiters (nobody would wake them).
RecordMatchesCallers ==
    \A m \in Mutexes :
        /\ \A t \in Tasks : Inside(t, m) <=> owner[m] = t
        /\ owner[m] # NoTask => locked_count[m] = calls[owner[m]][m]
        /\ owner[m] = NoTask => locked_count[m] = 0 /\ wait_list[m] = <<>>

\* A task is at one place: on the ready list, asleep, or held up in one mutex, where it is
\* queued once; a started task is at one of them.
AtOnePlace ==
    /\ RunNodeLinkedOnce
    /\ \A m \in Mutexes :
        /\ IsInjective(wait_list[m])
        /\ Range(wait_list[m]) \cap (Range(ready_list) \cup Range(sleep_list)) = {}
        /\ \A n \in Mutexes \ {m} : Range(wait_list[m]) \cap Range(wait_list[n]) = {}
    /\ \A t \in Tasks : state[t] # "CREATED" =>
        \/ t \in Range(ready_list) \cup Range(sleep_list)
        \/ \E m \in Mutexes : t \in Range(wait_list[m])

\* No barging: while tasks wait for a mutex, the next one to get inside is the oldest waiter.
NoBarging ==
    [][\A m \in Mutexes : \A t \in Tasks :
          /\ wait_list[m] # <<>>
          /\ Inside(t, m)' /\ ~Inside(t, m)
          => t = Head(wait_list[m])]_vars

\* Everybody who waits for a mutex gets it: the locking order admits no deadlock and the
\* hand-over loses nobody.
EveryWaiterEnters ==
    \A t \in Tasks, m \in Mutexes : t \in Range(wait_list[m]) ~> Inside(t, m)
=============================================================================
