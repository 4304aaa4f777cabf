-------------------------------- MODULE Sem --------------------------------
(***************************************************************************)
(* The kernel's counting semaphores, ipc/sem.c, on top of the scheduler.   *)
(*                                                                         *)
(* sem_notify with a waiter does not touch the count: the token goes to    *)
(* the oldest waiter, whose sem_wait returns without looking at the count  *)
(* again.  sem_wait is called by tasks; sem_notify by tasks and by the     *)
(* interrupt handlers of the keyboard and the disk, whatever they          *)
(* interrupt, the idle task included.                                      *)
(***************************************************************************)
EXTENDS Sched

CONSTANTS Sems,       (* the semaphores                                    *)
          InitCount,  (* sem_init's count of each                          *)
          MaxCount    (* bound on the tokens that pile up in one           *)

ASSUME SemAssumption ==
       /\ InitCount \in [Sems -> Nat]
       /\ MaxCount \in Nat \ {0}

VARIABLES count,      (* sem_t.count                                       *)
          wait_list,  (* sem_t.wait_list                                   *)
          balance     (* init_count + notify calls - wait calls, per semaphore *)

semVars == <<count, wait_list, balance>>
vars == <<schedVars, semVars>>
-----------------------------------------------------------------------------
Init ==
    /\ SchedInit
    /\ count = InitCount
    /\ wait_list = [s \in Sems |-> <<>>]
    /\ balance = InitCount

\* sem_wait: take a token if there is one, else queue up and leave the CPU.
WaitTake(s) ==
    /\ count[s] > 0
    /\ count' = [count EXCEPT ![s] = @ - 1]
    /\ UNCHANGED <<schedVars, wait_list>>

WaitBlock(s) ==
    /\ count[s] <= 0
    /\ BlockCurrent(state)
    /\ wait_list' = [wait_list EXCEPT ![s] = Append(@, curr_task)]
    /\ UNCHANGED <<sleep_list, sleep_ticks, slice_ticks, count>>

sem_wait(s) ==
    /\ Running(curr_task)
    /\ balance' = [balance EXCEPT ![s] = @ - 1]
    /\ WaitTake(s) \/ WaitBlock(s)

\* list_remove_first of the wait list: who gets the token.
Served_Newest(s) == wait_list[s][Len(wait_list[s])]
Served(s) == Head(wait_list[s])

\* What sem_notify does to the count when it wakes somebody.
CountWithWaiter_Plus1(s) == count[s] + 1
CountWithWaiter(s) == count[s]

\* sem_notify: the token goes to the oldest waiter, or into the count.
NotifyWake(s) ==
    /\ wait_list[s] # <<>>
    /\ wait_list' = [wait_list EXCEPT ![s] = Tail(@)]
    /\ count' = [count EXCEPT ![s] = CountWithWaiter(s)]
    /\ Dispatch(SetReady(ready_list, Served(s)), MarkReady(state, {Served(s)}))
    /\ UNCHANGED <<sleep_list, sleep_ticks, slice_ticks>>

NotifyCount(s) ==
    /\ wait_list[s] = <<>>
    /\ count' = [count EXCEPT ![s] = @ + 1]
    /\ UNCHANGED <<schedVars, wait_list>>

sem_notify(s) ==
    /\ count[s] < MaxCount
    /\ balance' = [balance EXCEPT ![s] = @ + 1]
    /\ NotifyWake(s) \/ NotifyCount(s)

SchedStep == SchedNext /\ UNCHANGED semVars

Next ==
    \/ SchedStep
    \/ \E s \in Sems : sem_wait(s) \/ sem_notify(s)

Spec == Init /\ [][Next]_vars /\ WF_vars(task_time_tick /\ UNCHANGED semVars)
-----------------------------------------------------------------------------
SemTypeOK ==
    /\ SchedTypeOK
    /\ count \in [Sems -> Nat]
    /\ wait_list \in [Sems -> Seq(Tasks)]
    /\ balance \in [Sems -> Int]

\* Tokens are neither lost nor invented: what was put in less what was asked for is what is
\* left in the count, or is still owed to the tasks in the queue, and never both.
TokensConserved ==
    \A s \in Sems : /\ balance[s] = count[s] - Len(wait_list[s])
                    /\ count[s] > 0 => wait_list[s] = <<>>

\* A task is at one place: on the ready list, asleep, or waiting for one semaphore, where it
\* is queued once; a started task is at one of them.
AtOnePlace ==
    /\ RunNodeLinkedOnce
    /\ \A s \in Sems :
        /\ IsInjective(wait_list[s])
        /\ Range(wait_list[s]) \cap (Range(ready_list) \cup Range(sleep_list)) = {}
        /\ \A r \in Sems \ {s} : Range(wait_list[s]) \cap Range(wait_list[r]) = {}
    /\ \A t \in Tasks : state[t] # "CREATED" =>
        \/ t \in Range(ready_list) \cup Range(sleep_list)
        \/ \E s \in Sems : t \in Range(wait_list[s])

\* Tokens go to the waiters in the order they came: nobody is made ready before a task that
\* waits in front of it.
ServedInOrder ==
    [][\A s \in Sems : \A t, u \in Tasks :
          Before(wait_list[s], t, u) /\ u \in Range(ready_list')
          => t \in Range(ready_list')]_vars

\* A semaphore that is notified again and again gets every waiter back to the CPU.
NotifiedWaiterRuns ==
    \A s \in Sems : []<><<sem_notify(s)>>_vars =>
        \A t \in Tasks : t \in Range(wait_list[s]) ~> curr_task = t
=============================================================================
