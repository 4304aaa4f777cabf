----------------------------- MODULE SemProofs -----------------------------
(***************************************************************************)
(* The semaphores conserve tokens and serve in order, for every number of  *)
(* tasks and semaphores and whoever notifies, a task or an interrupt       *)
(* handler over the idle task.                                             *)
(***************************************************************************)
EXTENDS Sem, SchedProofs

\* A waiter was started, so no task_start can link it while it waits.
WaitersWereStarted ==
    \A s \in Sems : \A t \in Range(wait_list[s]) : state[t] # "CREATED"

\* The inductive invariant.
SemInv ==
    /\ SchedInv
    /\ SemTypeOK
    /\ TokensConserved
    /\ AtOnePlace
    /\ WaitersWereStarted
-----------------------------------------------------------------------------
\* Waiters are tasks and are off the scheduler's lists; the running task waits for nothing.
LEMMA Waiting ==
  ASSUME SemInv, NEW s \in Sems
  PROVE  /\ wait_list[s] \in Seq(Tasks) /\ IsInjective(wait_list[s])
         /\ Range(wait_list[s]) \subseteq Tasks
         /\ Range(wait_list[s]) \cap Queued = {}
         /\ Running(curr_task) => curr_task \in Queued /\ curr_task \notin Range(wait_list[s])
<1>1. wait_list[s] \in Seq(Tasks) /\ IsInjective(wait_list[s])
  BY DEF SemInv, SemTypeOK, AtOnePlace
<1>2. Range(wait_list[s]) \cap Queued = {}
  BY DEF SemInv, AtOnePlace, Queued
<1>3. Running(curr_task) => curr_task \in Queued
  BY BlockCurrentList DEF SemInv, Queued
<1> QED BY <1>1, <1>2, <1>3 DEF Range

\* The place invariant, from what the two kinds of lists share.
LEMMA Places ==
  ASSUME SchedInv',
         \A s \in Sems : /\ IsInjective(wait_list'[s])
                         /\ Range(wait_list'[s]) \cap Queued' = {}
                         /\ \A r \in Sems \ {s} :
                              Range(wait_list'[s]) \cap Range(wait_list'[r]) = {},
         \A t \in Tasks : state'[t] # "CREATED" =>
            t \in Queued' \/ \E s \in Sems : t \in Range(wait_list'[s])
  PROVE  AtOnePlace'
BY DEF AtOnePlace, SchedInv, Queued

LEMMA SemInitInv == Init => SemInv
<1> SUFFICES ASSUME Init PROVE SemInv
  OBVIOUS
<1>1. SchedInv
  BY InitInv DEF Init
<1>2. Queued = {First} /\ \A s \in Sems : wait_list[s] = <<>> /\ Range(wait_list[s]) = {}
  BY DEF Init, SchedInit, Queued, Range
<1>3. SemTypeOK
  BY <1>1, SemAssumption DEF Init, SemTypeOK, SchedInv
<1>4. TokensConserved
  BY <1>2, SemAssumption DEF Init, TokensConserved
<1>5. AtOnePlace
  <2>1. \A t \in Tasks : state[t] # "CREATED" => t = First
    BY DEF Init, SchedInit, AllTasks
  <2>2. \A s \in Sems : IsInjective(wait_list[s])
    BY <1>2 DEF IsInjective
  <2> QED BY <1>1, <1>2, <2>1, <2>2 DEF AtOnePlace, SchedInv, Queued
<1>6. WaitersWereStarted
  BY <1>2 DEF WaitersWereStarted
<1> QED BY <1>1, <1>3, <1>4, <1>5, <1>6 DEF SemInv

\* A scheduler step moves no waiter and no token.
LEMMA SchedStepInv ==
  ASSUME SemInv, [SchedNext]_schedVars, UNCHANGED semVars PROVE SemInv'
<1>1. SchedInv' /\ QueuesKept
  BY NextInv DEF SemInv
<1>2. UNCHANGED <<count, wait_list, balance>>
  BY DEF semVars
<1>3. \A s \in Sems : Range(wait_list[s]) \cap Queued' = {}
  BY <1>1, Waiting DEF SemInv, WaitersWereStarted, QueuesKept
<1>4. SemTypeOK' /\ TokensConserved'
  BY <1>1, <1>2 DEF SemInv, SemTypeOK, TokensConserved, SchedInv
<1>5. AtOnePlace'
  <2>1. \A t \in Tasks : state'[t] # "CREATED" =>
           t \in Queued' \/ \E s \in Sems : t \in Range(wait_list[s])
    BY <1>1 DEF SemInv, AtOnePlace, QueuesKept, Queued
  <2> QED BY <1>1, <1>2, <1>3, <2>1, Places DEF SemInv, AtOnePlace
<1>6. WaitersWereStarted'
  BY <1>1, <1>2, <1>3, Waiting DEF SemInv, WaitersWereStarted, QueuesKept
<1> QED BY <1>1, <1>4, <1>5, <1>6 DEF SemInv

\* Calls that leave the scheduler and the wait lists alone keep everybody in place.
LEMMA SamePlaces ==
  ASSUME SemInv, UNCHANGED <<schedVars, wait_list>>
  PROVE  SchedInv' /\ AtOnePlace' /\ WaitersWereStarted'
<1>1. SchedInv'
  BY StutterInv DEF SemInv
<1> QED BY <1>1 DEF SemInv, AtOnePlace, WaitersWereStarted, schedVars, RunNodeLinkedOnce

LEMMA WaitInv == ASSUME SemInv, NEW s \in Sems, sem_wait(s) PROVE SemInv'
<1>1. /\ Running(curr_task) /\ curr_task \in Tasks
      /\ balance' = [balance EXCEPT ![s] = @ - 1]
  BY DEF sem_wait, Running
<1>2. /\ count \in [Sems -> Nat] /\ wait_list \in [Sems -> Seq(Tasks)]
      /\ balance \in [Sems -> Int]
      /\ \A r \in Sems : /\ balance[r] = count[r] - Len(wait_list[r])
                         /\ count[r] > 0 => wait_list[r] = <<>>
  BY DEF SemInv, SemTypeOK, TokensConserved
<1>3. curr_task \in Queued /\ \A r \in Sems : curr_task \notin Range(wait_list[r])
  BY <1>1, Waiting DEF SemInv
<1>4. balance' \in [Sems -> Int]
  BY <1>1, <1>2
<1>5. CASE WaitTake(s)
  <2>1. /\ count[s] > 0 /\ count' = [count EXCEPT ![s] = @ - 1]
        /\ UNCHANGED <<schedVars, wait_list>>
    BY <1>5 DEF WaitTake
  <2>2. SchedInv' /\ AtOnePlace' /\ WaitersWereStarted'
    BY <2>1, SamePlaces
  <2>3. SemTypeOK'
    BY <1>2, <1>4, <2>1, <2>2 DEF SemTypeOK, SchedInv
  <2>4. TokensConserved'
    BY <1>1, <1>2, <2>1 DEF TokensConserved
  <2> QED BY <2>2, <2>3, <2>4 DEF SemInv
<1>6. CASE WaitBlock(s)
  <2>1. /\ count[s] <= 0 /\ BlockCurrent(state)
        /\ wait_list' = [wait_list EXCEPT ![s] = Append(@, curr_task)]
        /\ UNCHANGED <<sleep_list, sleep_ticks, slice_ticks, count>>
    BY <1>6 DEF WaitBlock
  <2>2. /\ SchedInv' /\ Queued' = Queued \ {curr_task}
        /\ \A t \in Tasks \ Queued' : state'[t] = state[t]
    BY <1>1, <2>1, BlockInv DEF SemInv
  <2>3. /\ Append(wait_list[s], curr_task) \in Seq(Tasks)
        /\ IsInjective(Append(wait_list[s], curr_task))
        /\ Range(Append(wait_list[s], curr_task)) = Range(wait_list[s]) \cup {curr_task}
        /\ Len(Append(wait_list[s], curr_task)) = Len(wait_list[s]) + 1
    BY <1>1, <1>2, <1>3, Waiting, AppendList
  <2>4. \A r \in Sems : wait_list'[r] = IF r = s THEN Append(wait_list[r], curr_task)
                                                 ELSE wait_list[r]
    BY <1>2, <2>1
  <2>5. \A r \in Sems : Range(wait_list'[r]) = IF r = s THEN Range(wait_list[r]) \cup {curr_task}
                                                        ELSE Range(wait_list[r])
    BY <2>3, <2>4
  <2>6. SemTypeOK'
    BY <1>2, <1>4, <2>1, <2>2, <2>3 DEF SemTypeOK, SchedInv
  <2>7. TokensConserved'
    <3>1. \A r \in Sems : Len(wait_list'[r]) = IF r = s THEN Len(wait_list[r]) + 1
                                                        ELSE Len(wait_list[r])
      BY <2>3, <2>4
    <3>2. \A r \in Sems : count'[r] = count[r] /\ count[r] \in Nat /\ Len(wait_list[r]) \in Nat
      BY <1>2, <2>1
    <3>3. \A r \in Sems : balance'[r] = IF r = s THEN balance[r] - 1 ELSE balance[r]
      BY <1>1, <1>2
    <3>4. \A r \in Sems : balance'[r] = count'[r] - Len(wait_list'[r])
      BY <1>2, <3>1, <3>2, <3>3
    <3>5. \A r \in Sems : count'[r] > 0 => wait_list'[r] = <<>>
      BY <1>2, <2>1, <2>4, <3>2
    <3> QED BY <3>4, <3>5 DEF TokensConserved
  <2>8. AtOnePlace'
    <3>1. \A r \in Sems : IsInjective(wait_list'[r])
      BY <2>3, <2>4, Waiting
    <3>2. \A r \in Sems : Range(wait_list'[r]) \cap Queued' = {}
      BY <2>2, <2>5, Waiting
    <3>3. \A r \in Sems : \A k \in Sems \ {r} :
             Range(wait_list'[r]) \cap Range(wait_list'[k]) = {}
      <4>1. \A r, k \in Sems : r # k => Range(wait_list[r]) \cap Range(wait_list[k]) = {}
        BY DEF SemInv, AtOnePlace
      <4> QED BY <1>3, <2>5, <4>1
    <3>4. \A t \in Tasks : state'[t] # "CREATED" =>
             t \in Queued' \/ \E r \in Sems : t \in Range(wait_list'[r])
      BY <2>2, <2>5 DEF SemInv, AtOnePlace, Queued
    <3> QED BY <2>2, <3>1, <3>2, <3>3, <3>4, Places
  <2>9. WaitersWereStarted'
    <3>1. state[curr_task] # "CREATED"
      BY <1>1 DEF SemInv, SchedInv, OthersAreReady
    <3>2. ASSUME NEW r \in Sems, NEW t \in Range(wait_list'[r]) PROVE state'[t] # "CREATED"
      <4>1. t \in Tasks /\ t \notin Queued'
        BY <1>1, <2>2, <2>5, Waiting
      <4>2. state'[t] = state[t]
        BY <2>2, <4>1
      <4> QED BY <2>5, <3>1, <4>2 DEF SemInv, WaitersWereStarted
    <3> QED BY <3>2 DEF WaitersWereStarted
  <2> QED BY <2>2, <2>6, <2>7, <2>8, <2>9 DEF SemInv
<1> QED BY <1>5, <1>6 DEF sem_wait

LEMMA NotifyInv == ASSUME SemInv, NEW s \in Sems, sem_notify(s) PROVE SemInv'
<1>1. balance' = [balance EXCEPT ![s] = @ + 1]
  BY DEF sem_notify
<1>2. /\ count \in [Sems -> Nat] /\ wait_list \in [Sems -> Seq(Tasks)]
      /\ balance \in [Sems -> Int]
      /\ \A r \in Sems : /\ balance[r] = count[r] - Len(wait_list[r])
                         /\ count[r] > 0 => wait_list[r] = <<>>
  BY DEF SemInv, SemTypeOK, TokensConserved
<1>3. balance' \in [Sems -> Int]
  BY <1>1, <1>2
<1>4. CASE NotifyCount(s)
  <2>1. /\ wait_list[s] = <<>> /\ count' = [count EXCEPT ![s] = @ + 1]
        /\ UNCHANGED <<schedVars, wait_list>>
    BY <1>4 DEF NotifyCount
  <2>2. SchedInv' /\ AtOnePlace' /\ WaitersWereStarted'
    BY <2>1, SamePlaces
  <2>3. SemTypeOK'
    BY <1>2, <1>3, <2>1, <2>2 DEF SemTypeOK, SchedInv
  <2>4. TokensConserved'
    BY <1>1, <1>2, <2>1 DEF TokensConserved
  <2> QED BY <2>2, <2>3, <2>4 DEF SemInv
<1>5. CASE NotifyWake(s)
  <2> DEFINE first == Head(wait_list[s])
  <2>1. /\ wait_list[s] # <<>> /\ wait_list' = [wait_list EXCEPT ![s] = Tail(@)]
        /\ count' = [count EXCEPT ![s] = count[s]]
        /\ Dispatch(SetReady(ready_list, first), MarkReady(state, {first}))
        /\ UNCHANGED <<sleep_list, sleep_ticks, slice_ticks>>
    BY <1>5 DEF NotifyWake, Served, CountWithWaiter
  <2>2. /\ first \in Range(wait_list[s]) /\ first \in Tasks
        /\ Tail(wait_list[s]) \in Seq(Tasks) /\ IsInjective(Tail(wait_list[s]))
        /\ Range(Tail(wait_list[s])) = Range(wait_list[s]) \ {first}
        /\ Len(Tail(wait_list[s])) = Len(wait_list[s]) - 1
    BY <1>2, <2>1, Waiting, TailList
  <2> HIDE DEF first
  <2>3. first \notin Queued
    BY <2>2, Waiting
  <2>4. /\ SchedInv' /\ Queued' = Queued \cup {first}
        /\ \A t \in Tasks \ Queued' : state'[t] = state[t]
    BY <2>1, <2>2, <2>3, WakeInv DEF SemInv
  <2>5. \A r \in Sems : wait_list'[r] = IF r = s THEN Tail(wait_list[r]) ELSE wait_list[r]
    BY <1>2, <2>1
  <2>6. \A r \in Sems : Range(wait_list'[r]) = IF r = s THEN Range(wait_list[r]) \ {first}
                                                        ELSE Range(wait_list[r])
    BY <2>2, <2>5
  <2>7. count' = count
    BY <1>2, <2>1
  <2>8. SemTypeOK'
    BY <1>2, <1>3, <2>1, <2>2, <2>4, <2>7 DEF SemTypeOK, SchedInv
  <2>9. TokensConserved'
    <3>1. \A r \in Sems : Len(wait_list'[r]) = IF r = s THEN Len(wait_list[r]) - 1
                                                        ELSE Len(wait_list[r])
      BY <2>2, <2>5
    <3>2. \A r \in Sems : count[r] \in Nat /\ Len(wait_list[r]) \in Nat
      BY <1>2
    <3>3. \A r \in Sems : balance'[r] = IF r = s THEN balance[r] + 1 ELSE balance[r]
      BY <1>1, <1>2
    <3>4. \A r \in Sems : balance'[r] = count[r] - Len(wait_list'[r])
      <4> SUFFICES ASSUME NEW r \in Sems PROVE balance'[r] = count[r] - Len(wait_list'[r])
        OBVIOUS
      <4>1. balance[r] = count[r] - Len(wait_list[r])
        BY <1>2
      <4>2. count[r] \in Nat /\ Len(wait_list[r]) \in Nat
        BY <3>2
      <4>3. CASE r = s
        <5>1. balance'[r] = balance[r] + 1 /\ Len(wait_list'[r]) = Len(wait_list[r]) - 1
          BY <3>1, <3>3, <4>3
        <5> QED BY <4>1, <4>2, <5>1
      <4>4. CASE r # s
        <5>1. balance'[r] = balance[r] /\ Len(wait_list'[r]) = Len(wait_list[r])
          BY <3>1, <3>3, <4>4
        <5> QED BY <4>1, <5>1
      <4> QED BY <4>3, <4>4
    <3>5. ~(count[s] > 0)
      BY <1>2, <2>1
    <3>6. \A r \in Sems : count[r] > 0 => wait_list'[r] = <<>>
      BY <1>2, <2>5, <3>5
    <3> QED BY <2>7, <3>4, <3>6 DEF TokensConserved
  <2>10. AtOnePlace'
    <3>1. \A r \in Sems : IsInjective(wait_list'[r])
      BY <2>2, <2>5, Waiting
    <3>2. \A r \in Sems : Range(wait_list'[r]) \cap Queued' = {}
      <4>1. \A r \in Sems \ {s} : first \notin Range(wait_list[r])
        BY <2>2 DEF SemInv, AtOnePlace
      <4>2. \A r \in Sems : Range(wait_list[r]) \cap Queued = {}
        BY Waiting
      <4> QED BY <2>4, <2>6, <4>1, <4>2
    <3>3. \A r \in Sems : \A k \in Sems \ {r} :
             Range(wait_list'[r]) \cap Range(wait_list'[k]) = {}
      BY <2>6 DEF SemInv, AtOnePlace
    <3>4. \A t \in Tasks : state'[t] # "CREATED" =>
             t \in Queued' \/ \E r \in Sems : t \in Range(wait_list'[r])
      BY <2>4, <2>6 DEF SemInv, AtOnePlace, Queued
    <3> QED BY <2>4, <3>1, <3>2, <3>3, <3>4, Places
  <2>11. WaitersWereStarted'
    <3>1. ASSUME NEW r \in Sems, NEW t \in Range(wait_list'[r]) PROVE state'[t] # "CREATED"
      <4>1. t \in Range(wait_list[r]) /\ t \in Tasks
        BY <2>6, Waiting
      <4>2. t \notin Queued'
        BY <2>10, <3>1 DEF AtOnePlace, Queued
      <4>3. state'[t] = state[t]
        BY <2>4, <4>1, <4>2
      <4> QED BY <4>1, <4>3 DEF SemInv, WaitersWereStarted
    <3> QED BY <3>1 DEF WaitersWereStarted
  <2> QED BY <2>4, <2>8, <2>9, <2>10, <2>11 DEF SemInv
<1> QED BY <1>4, <1>5 DEF sem_notify

LEMMA SemNextInv == SemInv /\ [Next]_vars => SemInv'
<1> SUFFICES ASSUME SemInv, [Next]_vars PROVE SemInv'
  OBVIOUS
<1>1. CASE SchedStep
  BY <1>1, SchedStepInv DEF SchedStep
<1>2. CASE \E s \in Sems : sem_wait(s) \/ sem_notify(s)
  BY <1>2, WaitInv, NotifyInv
<1>3. CASE UNCHANGED vars
  BY <1>3, SchedStepInv DEF vars
<1> QED BY <1>1, <1>2, <1>3 DEF Next
-----------------------------------------------------------------------------
THEOREM SemInvariant == Spec => []SemInv
<1>1. Init => SemInv
  BY SemInitInv
<1>2. SemInv /\ [Next]_vars => SemInv'
  BY SemNextInv
<1> QED BY <1>1, <1>2, PTL DEF Spec

\* Every variable of scheduler and semaphores keeps its type; no count goes below 0.
THEOREM SemTypeCorrect == Spec => []SemTypeOK
<1>1. SemInv => SemTypeOK
  BY DEF SemInv
<1> QED BY <1>1, SemInvariant, PTL

\* Tokens are neither lost nor invented, and nobody queues for a semaphore that has one.
THEOREM TokensAreConserved == Spec => []TokensConserved
<1>1. SemInv => TokensConserved
  BY DEF SemInv
<1> QED BY <1>1, SemInvariant, PTL

\* A task is on the ready list, asleep or waiting for one semaphore, and a started one is at
\* one of these places.
THEOREM TasksAtOnePlace == Spec => []AtOnePlace
<1>1. SemInv => AtOnePlace
  BY DEF SemInv
<1> QED BY <1>1, SemInvariant, PTL

\* Nobody is made ready before a task that waits in front of it.
THEOREM ServesInOrder == Spec => ServedInOrder
<1> DEFINE Fair(s, t, u) == Before(wait_list[s], t, u) /\ u \in Range(ready_list')
                            => t \in Range(ready_list')
<1>1. ASSUME SemInv, [Next]_vars, NEW s \in Sems, NEW t \in Tasks, NEW u \in Tasks
      PROVE  Fair(s, t, u)
  <2> SUFFICES ASSUME Before(wait_list[s], t, u), u \in Range(ready_list') PROVE FALSE
    OBVIOUS
  <2>1. /\ u \in Range(wait_list[s]) /\ u \notin Queued /\ u \in Queued'
        /\ state[u] # "CREATED" /\ u # Head(wait_list[s])
    BY <1>1, Waiting DEF Before, Range, IsInjective, Queued, SemInv, WaitersWereStarted
  <2>2. CASE [SchedNext]_schedVars
    BY <1>1, <2>1, <2>2, NextInv DEF SemInv, QueuesKept
  <2>3. ASSUME NEW r \in Sems, sem_wait(r) PROVE FALSE
    <3>1. CASE WaitTake(r)
      BY <2>1, <3>1 DEF WaitTake, schedVars, Queued
    <3>2. CASE WaitBlock(r)
      BY <1>1, <2>1, <2>3, <3>2, BlockInv DEF sem_wait, WaitBlock, SemInv
    <3> QED BY <2>3, <3>1, <3>2 DEF sem_wait
  <2>4. ASSUME NEW r \in Sems, sem_notify(r) PROVE FALSE
    <3>1. CASE NotifyCount(r)
      BY <2>1, <3>1 DEF NotifyCount, schedVars, Queued
    <3>2. CASE NotifyWake(r)
      <4> DEFINE first == Head(wait_list[r])
      <4>1. /\ wait_list[r] # <<>>
            /\ Dispatch(SetReady(ready_list, first), MarkReady(state, {first}))
            /\ UNCHANGED <<sleep_list, sleep_ticks, slice_ticks>>
        BY <3>2 DEF NotifyWake, Served
      <4>2. first \in Range(wait_list[r]) /\ first \in Tasks
        BY <1>1, <4>1, Waiting, TailList
      <4> HIDE DEF first
      <4>3. Queued' = Queued \cup {first}
        BY <1>1, <4>1, <4>2, Waiting, WakeInv DEF SemInv
      <4>4. u = first
        BY <2>1, <4>3
      <4>5. r = s
        BY <1>1, <2>1, <4>2, <4>4 DEF SemInv, AtOnePlace
      <4> QED BY <2>1, <4>4, <4>5 DEF first
    <3> QED BY <2>4, <3>1, <3>2 DEF sem_notify
  <2> QED BY <1>1, <2>2, <2>3, <2>4 DEF Next, SchedStep, vars
<1>2. SemInv /\ [Next]_vars
        => [\A s \in Sems : \A t, u \in Tasks : Fair(s, t, u)]_vars
  BY <1>1
<1> QED BY <1>2, SemInvariant, PTL DEF Spec, ServedInOrder
=============================================================================
