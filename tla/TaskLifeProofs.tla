--------------------------- MODULE TaskLifeProofs ---------------------------
(***************************************************************************)
(* The recursive mutexes exclude, for every number of tasks and mutexes,   *)
(* every locking order and every depth of re-entry; and over them every    *)
(* process can be reaped and every free slot of the task table is unused,  *)
(* for every number of slots, as long as no alloc_task runs while another  *)
(* fork fills or gives back the slot it was handed (RacyFork = FALSE) and  *)
(* no process loses its name to a sys_execve (EmptyName = FALSE).          *)
(***************************************************************************)
EXTENDS TaskLife, SchedProofs

-----------------------------------------------------------------------------
(* The mutexes.                                                              *)

\* The record of each mutex, said without the ready list: a waiter is not on it.
Record ==
    \A m \in Mutexes :
        /\ \A t \in Tasks : calls[t][m] > 0 /\ t \notin Range(wait_list[m]) <=> owner[m] = t
        /\ owner[m] # NoTask => locked_count[m] = calls[owner[m]][m]
        /\ owner[m] = NoTask => locked_count[m] = 0 /\ wait_list[m] = <<>>

\* A waiter made one lock call it has not undone: the hand-over's locked_count = 1 is right.
\* It was started, so no task_start can link it while it waits.
WaitersAskedOnce ==
    \A m \in Mutexes : \A t \in Range(wait_list[m]) :
        calls[t][m] = 1 /\ state[t] # "CREATED"

\* A task is at no two places, and queued once.
Apart ==
    /\ RunNodeLinkedOnce
    /\ \A m \in Mutexes :
        /\ IsInjective(wait_list[m])
        /\ Range(wait_list[m]) \cap (Range(ready_list) \cup Range(sleep_list)) = {}
        /\ \A n \in Mutexes \ {m} : Range(wait_list[m]) \cap Range(wait_list[n]) = {}

\* What locking and unlocking preserve by themselves, whatever else makes a task run or stop.
MutexCore ==
    /\ SchedInv
    /\ MutexTypeOK
    /\ Record
    /\ Apart
    /\ WaitersAskedOnce

\* The tasks that are on any list.
OnList == Queued \cup UNION {Range(wait_list[m]) : m \in Mutexes}

\* The inductive invariant: in this module nothing stops a started task for good.
MutexInv ==
    /\ MutexCore
    /\ \A t \in Tasks : state[t] # "CREATED" => t \in OnList

\* What locking and unlocking do to the places: tasks move from list to list, and the state
\* of a task that is not ready or asleep is left alone.
PlacesKept ==
    /\ OnList' = OnList
    /\ \A t \in Tasks \ Queued' : state'[t] = state[t]
-----------------------------------------------------------------------------
\* Waiters are tasks and are off the scheduler's lists; the running task waits for nothing.
LEMMA Waiting ==
  ASSUME MutexCore, NEW m \in Mutexes
  PROVE  /\ wait_list[m] \in Seq(Tasks) /\ IsInjective(wait_list[m])
         /\ Range(wait_list[m]) \subseteq Tasks
         /\ Range(wait_list[m]) \cap Queued = {}
         /\ Running(curr_task) => curr_task \in Queued /\ curr_task \notin Range(wait_list[m])
<1>1. wait_list[m] \in Seq(Tasks) /\ IsInjective(wait_list[m])
  BY DEF MutexCore, MutexTypeOK, Apart
<1>2. Range(wait_list[m]) \cap Queued = {}
  BY DEF MutexCore, Apart, Queued
<1>3. Running(curr_task) => curr_task \in Queued
  BY BlockCurrentList DEF MutexCore, Queued
<1> QED BY <1>1, <1>2, <1>3 DEF Range

\* The place invariant, from what the two kinds of lists share.
LEMMA Places ==
  ASSUME SchedInv',
         \A m \in Mutexes : /\ IsInjective(wait_list'[m])
                            /\ Range(wait_list'[m]) \cap Queued' = {}
                            /\ \A n \in Mutexes \ {m} :
                                 Range(wait_list'[m]) \cap Range(wait_list'[n]) = {}
  PROVE  Apart'
BY DEF Apart, SchedInv, Queued

LEMMA MutexInitInv == Init => MutexInv
<1> SUFFICES ASSUME Init PROVE MutexInv
  OBVIOUS
<1>1. SchedInv
  BY InitInv DEF Init
<1>2. NoTask \notin Tasks
  BY MutexAssumption DEF AllTasks
<1>3. Queued = {First} /\ \A m \in Mutexes : wait_list[m] = <<>> /\ Range(wait_list[m]) = {}
  BY DEF Init, SchedInit, Queued, Range
<1>4. MutexTypeOK
  BY <1>1 DEF Init, MutexTypeOK, SchedInv
<1>5. Record
  BY <1>2, <1>3 DEF Init, Record
<1>6. Apart
  <2>1. \A m \in Mutexes : IsInjective(wait_list[m])
    BY <1>3 DEF IsInjective
  <2> QED BY <1>1, <1>3, <2>1 DEF Apart, SchedInv, Queued
<1>7. WaitersAskedOnce
  BY <1>3 DEF WaitersAskedOnce
<1>8. \A t \in Tasks : state[t] # "CREATED" => t = First
  BY DEF Init, SchedInit, AllTasks
<1> QED BY <1>1, <1>3, <1>4, <1>5, <1>6, <1>7, <1>8 DEF MutexInv, MutexCore, OnList

\* What happens on the scheduler's lists is no business of the mutexes as long as no waiter
\* is touched.
LEMMA CoreKept ==
  ASSUME MutexCore, SchedInv', UNCHANGED mutexVars,
         \A m \in Mutexes : \A t \in Range(wait_list[m]) : t \notin Queued' /\ state'[t] # "CREATED"
  PROVE  MutexCore'
<1>1. UNCHANGED <<owner, locked_count, wait_list, calls>>
  BY DEF mutexVars
<1>2. \A m \in Mutexes : Range(wait_list[m]) \cap Queued' = {}
  OBVIOUS
<1>3. MutexTypeOK' /\ Record'
  BY <1>1 DEF MutexCore, MutexTypeOK, Record, SchedInv
<1>4. Apart'
  BY <1>1, <1>2, Places DEF MutexCore, Apart
<1>5. WaitersAskedOnce'
  BY <1>1 DEF MutexCore, WaitersAskedOnce
<1> QED BY <1>3, <1>4, <1>5 DEF MutexCore

\* A scheduler step moves no waiter and changes no record.
LEMMA SchedStepInv ==
  ASSUME MutexCore, [SchedNext]_schedVars, UNCHANGED mutexVars PROVE MutexCore' /\ QueuesKept
<1>1. SchedInv' /\ QueuesKept
  BY NextInv DEF MutexCore
<1>2. \A m \in Mutexes : \A t \in Range(wait_list[m]) :
         t \in Tasks /\ t \notin Queued /\ state[t] # "CREATED"
  BY Waiting DEF MutexCore, WaitersAskedOnce
<1>3. \A m \in Mutexes : \A t \in Range(wait_list[m]) : t \notin Queued' /\ state'[t] # "CREATED"
  BY <1>1, <1>2 DEF QueuesKept
<1> QED BY <1>1, <1>3, CoreKept

\* Calls that leave the scheduler and the wait lists alone keep everybody in place.
LEMMA SamePlaces ==
  ASSUME MutexCore, UNCHANGED <<schedVars, wait_list>> PROVE SchedInv' /\ Apart' /\ PlacesKept
<1>1. SchedInv'
  BY StutterInv DEF MutexCore
<1> QED BY <1>1 DEF MutexCore, Apart, schedVars, RunNodeLinkedOnce, PlacesKept, OnList, Queued

LEMMA LockInv ==
  ASSUME MutexCore, NEW m \in Mutexes, mutex_lock(m) PROVE MutexCore' /\ PlacesKept
<1>1. /\ Running(curr_task) /\ curr_task \in Tasks
      /\ calls' = [calls EXCEPT ![curr_task][m] = @ + 1]
      /\ curr_task # NoTask
  BY MutexAssumption DEF mutex_lock, Running, AllTasks
<1>2. /\ owner \in [Mutexes -> Tasks \cup {NoTask}] /\ locked_count \in [Mutexes -> Nat]
      /\ wait_list \in [Mutexes -> Seq(Tasks)] /\ calls \in [Tasks -> [Mutexes -> Nat]]
      /\ NoTask \notin Tasks
  BY MutexAssumption DEF MutexCore, MutexTypeOK, AllTasks
<1>3. calls' \in [Tasks -> [Mutexes -> Nat]]
  BY <1>1, <1>2
<1>4. \A t \in Tasks : \A n \in Mutexes :
         calls'[t][n] = IF t = curr_task /\ n = m THEN calls[t][n] + 1 ELSE calls[t][n]
  BY <1>1, <1>2
<1>5. curr_task \in Queued /\ \A n \in Mutexes : curr_task \notin Range(wait_list[n])
  BY <1>1, Waiting DEF MutexCore
<1>6. CASE LockFree(m)
  <2>1. /\ locked_count[m] = 0 /\ locked_count' = [locked_count EXCEPT ![m] = 1]
        /\ owner' = [owner EXCEPT ![m] = curr_task] /\ UNCHANGED <<schedVars, wait_list>>
    BY <1>6 DEF LockFree
  <2>2. SchedInv' /\ Apart' /\ PlacesKept
    BY <2>1, SamePlaces
  <2>3. MutexTypeOK'
    BY <1>1, <1>2, <1>3, <2>1, <2>2 DEF MutexTypeOK, SchedInv
  <2>4. owner[m] = NoTask /\ wait_list[m] = <<>> /\ \A t \in Tasks : calls[t][m] = 0
    <3>1. owner[m] = NoTask
      BY <1>2, <2>1 DEF MutexCore, Record
    <3>2. wait_list[m] = <<>> /\ Range(wait_list[m]) = {}
      BY <3>1 DEF MutexCore, Record, Range
    <3>3. ASSUME NEW t \in Tasks PROVE calls[t][m] = 0
      <4>1. ~(calls[t][m] > 0)
        BY <1>2, <3>1, <3>2 DEF MutexCore, Record
      <4>2. calls[t][m] \in Nat
        BY <1>2
      <4> QED BY <4>1, <4>2
    <3> QED BY <3>1, <3>2, <3>3
  <2>5. Record'
    BY <1>1, <1>2, <1>4, <1>5, <2>1, <2>4 DEF MutexCore, Record
  <2>6. WaitersAskedOnce'
    BY <1>4, <1>5, <2>1, Waiting DEF MutexCore, WaitersAskedOnce, schedVars
  <2> QED BY <2>2, <2>3, <2>5, <2>6 DEF MutexCore
<1>7. CASE LockAgain(m)
  <2>1. /\ owner[m] = curr_task /\ locked_count' = [locked_count EXCEPT ![m] = @ + 1]
        /\ UNCHANGED <<schedVars, owner, wait_list>>
    BY <1>7 DEF LockAgain, Mine
  <2>2. SchedInv' /\ Apart' /\ PlacesKept
    BY <2>1, SamePlaces
  <2>3. MutexTypeOK'
    BY <1>1, <1>2, <1>3, <2>1, <2>2 DEF MutexTypeOK, SchedInv
  <2>4. Record'
    BY <1>1, <1>2, <1>4, <1>5, <2>1 DEF MutexCore, Record
  <2>5. WaitersAskedOnce'
    BY <1>4, <1>5, <2>1, Waiting DEF MutexCore, WaitersAskedOnce, schedVars
  <2> QED BY <2>2, <2>3, <2>4, <2>5 DEF MutexCore
<1>8. CASE LockWait(m)
  <2>1. /\ locked_count[m] # 0 /\ owner[m] # curr_task /\ BlockCurrent(state)
        /\ wait_list' = [wait_list EXCEPT ![m] = Append(@, curr_task)]
        /\ UNCHANGED <<sleep_list, sleep_ticks, slice_ticks, owner, locked_count>>
    BY <1>8 DEF LockWait, Mine
  <2>2. /\ SchedInv' /\ Queued' = Queued \ {curr_task}
        /\ \A t \in Tasks \ Queued' : state'[t] = state[t]
    BY <1>1, <2>1, BlockInv DEF MutexCore
  <2>3. /\ Append(wait_list[m], curr_task) \in Seq(Tasks)
        /\ IsInjective(Append(wait_list[m], curr_task))
        /\ Range(Append(wait_list[m], curr_task)) = Range(wait_list[m]) \cup {curr_task}
    BY <1>1, <1>5, Waiting, AppendList
  <2>4. \A n \in Mutexes : wait_list'[n] = IF n = m THEN Append(wait_list[n], curr_task)
                                                    ELSE wait_list[n]
    BY <1>2, <2>1
  <2>5. \A n \in Mutexes : Range(wait_list'[n]) = IF n = m THEN Range(wait_list[n]) \cup {curr_task}
                                                           ELSE Range(wait_list[n])
    BY <2>3, <2>4
  <2>6. MutexTypeOK'
    BY <1>2, <1>3, <2>1, <2>2, <2>3 DEF MutexTypeOK, SchedInv
  <2>7. owner[m] \in Tasks /\ calls[curr_task][m] = 0
    BY <1>1, <1>2, <1>5, <2>1 DEF MutexCore, Record
  <2>8. Record'
    <3>1. \A n \in Mutexes : owner'[n] = NoTask => locked_count'[n] = 0 /\ wait_list'[n] = <<>>
      BY <1>2, <2>1, <2>4, <2>7 DEF MutexCore, Record
    <3>2. \A n \in Mutexes : owner'[n] # NoTask => locked_count'[n] = calls'[owner'[n]][n]
      BY <1>1, <1>2, <1>4, <2>1 DEF MutexCore, Record
    <3>3. ASSUME NEW n \in Mutexes, NEW t \in Tasks
          PROVE  calls'[t][n] > 0 /\ t \notin Range(wait_list'[n]) <=> owner'[n] = t
      <4>1. calls[t][n] > 0 /\ t \notin Range(wait_list[n]) <=> owner[n] = t
        BY DEF MutexCore, Record
      <4>2. owner' = owner /\ owner[m] # curr_task
        BY <2>1
      <4>3. CASE t = curr_task /\ n = m
        <5>1. t \in Range(wait_list'[n])
          BY <2>5, <4>3
        <5> QED BY <4>2, <4>3, <5>1
      <4>4. CASE t # curr_task \/ n # m
        <5>1. calls'[t][n] = calls[t][n] /\ (t \in Range(wait_list'[n]) <=> t \in Range(wait_list[n]))
          BY <1>4, <2>5, <4>4
        <5> QED BY <4>1, <4>2, <5>1
      <4> QED BY <4>3, <4>4
    <3> QED BY <3>1, <3>2, <3>3 DEF Record
  <2>9. Apart'
    <3>1. \A n \in Mutexes : IsInjective(wait_list'[n])
      BY <2>3, <2>4, Waiting
    <3>2. \A n \in Mutexes : Range(wait_list'[n]) \cap Queued' = {}
      BY <2>2, <2>5, Waiting
    <3>3. \A n \in Mutexes : \A k \in Mutexes \ {n} :
             Range(wait_list'[n]) \cap Range(wait_list'[k]) = {}
      <4>1. \A n, k \in Mutexes : n # k => Range(wait_list[n]) \cap Range(wait_list[k]) = {}
        BY DEF MutexCore, Apart
      <4> QED BY <1>5, <2>5, <4>1
    <3> QED BY <2>2, <3>1, <3>2, <3>3, Places
  <2>10. WaitersAskedOnce'
    <3>1. state[curr_task] # "CREATED"
      BY <1>1 DEF MutexCore, SchedInv, OthersAreReady
    <3>2. ASSUME NEW n \in Mutexes, NEW t \in Range(wait_list'[n])
          PROVE  calls'[t][n] = 1 /\ state'[t] # "CREATED"
      <4>1. CASE t = curr_task
        <5>1. n = m
          BY <1>5, <2>5, <4>1
        <5>2. curr_task \notin Queued'
          BY <2>2
        <5> QED BY <1>1, <1>4, <2>2, <2>7, <3>1, <4>1, <5>1, <5>2
      <4>2. CASE t # curr_task
        <5>1. t \in Range(wait_list[n]) /\ t \in Tasks /\ t \notin Queued
          BY <2>5, <4>2, Waiting
        <5>2. calls'[t][n] = calls[t][n] /\ state'[t] = state[t]
          BY <1>4, <2>2, <4>2, <5>1
        <5> QED BY <5>1, <5>2 DEF MutexCore, WaitersAskedOnce
      <4> QED BY <4>1, <4>2
    <3> QED BY <3>2 DEF WaitersAskedOnce
  <2>11. PlacesKept
    <3>1. Queued \subseteq Queued' \cup Range(wait_list'[m])
      BY <2>2, <2>5
    <3>2. Queued' \subseteq Queued
      BY <2>2
    <3>3. \A n \in Mutexes : Range(wait_list[n]) \subseteq Range(wait_list'[n])
      BY <2>5
    <3>4. \A n \in Mutexes : Range(wait_list'[n]) \subseteq Range(wait_list[n]) \cup Queued
      BY <1>5, <2>5
    <3>5. OnList' = OnList
      BY <3>1, <3>2, <3>3, <3>4 DEF OnList
    <3> QED BY <2>2, <3>5 DEF PlacesKept
  <2> QED BY <2>2, <2>6, <2>8, <2>9, <2>10, <2>11 DEF MutexCore
<1> QED BY <1>6, <1>7, <1>8 DEF mutex_lock

\* Whoever calls mutex_unlock in the kernel owns the mutex, with the count of its calls.
LEMMA UnlockerOwns ==
  ASSUME MutexCore, NEW m \in Mutexes, mutex_unlock(m)
  PROVE  owner[m] = curr_task /\ locked_count[m] = calls[curr_task][m]
<1>1. Running(curr_task) /\ curr_task \in Tasks /\ calls[curr_task][m] > 0 /\ NoTask \notin Tasks
  BY MutexAssumption DEF mutex_unlock, Running, AllTasks
<1> QED BY <1>1, Waiting DEF MutexCore, Record

LEMMA UnlockInv ==
  ASSUME MutexCore, NEW m \in Mutexes, mutex_unlock(m) PROVE MutexCore' /\ PlacesKept
<1>1. /\ Running(curr_task) /\ curr_task \in Tasks /\ calls[curr_task][m] > 0
      /\ calls' = [calls EXCEPT ![curr_task][m] = @ - 1]
  BY DEF mutex_unlock, Running
<1>2. /\ owner \in [Mutexes -> Tasks \cup {NoTask}] /\ locked_count \in [Mutexes -> Nat]
      /\ wait_list \in [Mutexes -> Seq(Tasks)] /\ calls \in [Tasks -> [Mutexes -> Nat]]
      /\ NoTask \notin Tasks
  BY MutexAssumption DEF MutexCore, MutexTypeOK, AllTasks
<1>3. calls' \in [Tasks -> [Mutexes -> Nat]]
  BY <1>1, <1>2
<1>4. \A t \in Tasks : \A n \in Mutexes :
         calls'[t][n] = IF t = curr_task /\ n = m THEN calls[t][n] - 1 ELSE calls[t][n]
  BY <1>1, <1>2
<1>5. curr_task \in Queued /\ \A n \in Mutexes : curr_task \notin Range(wait_list[n])
  BY <1>1, Waiting DEF MutexCore
<1>6. owner[m] = curr_task /\ locked_count[m] = calls[curr_task][m]
  BY UnlockerOwns
<1>7. CASE /\ locked_count[m] > 1
           /\ locked_count' = [locked_count EXCEPT ![m] = @ - 1]
           /\ UNCHANGED <<schedVars, owner, wait_list>>
  <2>1. SchedInv' /\ Apart' /\ PlacesKept
    BY <1>7, SamePlaces
  <2>2. MutexTypeOK'
    BY <1>2, <1>3, <1>7, <2>1 DEF MutexTypeOK, SchedInv
  <2>3. Record'
    BY <1>1, <1>2, <1>4, <1>5, <1>6, <1>7 DEF MutexCore, Record
  <2>4. WaitersAskedOnce'
    BY <1>4, <1>5, <1>7, Waiting DEF MutexCore, WaitersAskedOnce, schedVars
  <2> QED BY <2>1, <2>2, <2>3, <2>4 DEF MutexCore
<1>8. CASE locked_count[m] = 1 /\ ReleaseFree(m)
  <2>1. /\ wait_list[m] = <<>> /\ locked_count' = [locked_count EXCEPT ![m] = 0]
        /\ owner' = [owner EXCEPT ![m] = NoTask] /\ UNCHANGED <<schedVars, wait_list>>
    BY <1>8 DEF ReleaseFree
  <2>2. SchedInv' /\ Apart' /\ PlacesKept
    BY <2>1, SamePlaces
  <2>3. MutexTypeOK'
    BY <1>2, <1>3, <2>1, <2>2 DEF MutexTypeOK, SchedInv
  <2>4. \A t \in Tasks : calls'[t][m] = 0
    <3>1. Range(wait_list[m]) = {}
      BY <2>1 DEF Range
    <3>2. ASSUME NEW t \in Tasks \ {curr_task} PROVE calls[t][m] = 0
      <4>1. ~(calls[t][m] > 0) /\ calls[t][m] \in Nat
        BY <1>2, <1>6, <3>1 DEF MutexCore, Record
      <4> QED BY <4>1
    <3>3. calls'[curr_task][m] = 0
      <4>1. calls'[curr_task][m] = calls[curr_task][m] - 1
        BY <1>1, <1>4
      <4>2. calls[curr_task][m] = 1
        BY <1>6, <1>8
      <4> QED BY <4>1, <4>2
    <3> QED BY <1>4, <3>2, <3>3
  <2>5. Record'
    BY <1>1, <1>2, <1>4, <1>5, <2>1, <2>4 DEF MutexCore, Record
  <2>6. WaitersAskedOnce'
    BY <1>4, <1>5, <2>1, Waiting DEF MutexCore, WaitersAskedOnce, schedVars
  <2> QED BY <2>2, <2>3, <2>5, <2>6 DEF MutexCore
<1>9. CASE locked_count[m] = 1 /\ HandOver(m)
  <2> DEFINE heir == Head(wait_list[m])
  <2>1. /\ wait_list[m] # <<>> /\ wait_list' = [wait_list EXCEPT ![m] = Tail(@)]
        /\ locked_count' = [locked_count EXCEPT ![m] = 1]
        /\ owner' = [owner EXCEPT ![m] = heir]
        /\ Dispatch(SetReady(ready_list, heir), MarkReady(state, {heir}))
        /\ UNCHANGED <<sleep_list, sleep_ticks, slice_ticks>>
    BY <1>9 DEF HandOver, Heir
  <2>2. /\ heir \in Range(wait_list[m]) /\ heir \in Tasks
        /\ Tail(wait_list[m]) \in Seq(Tasks) /\ IsInjective(Tail(wait_list[m]))
        /\ Range(Tail(wait_list[m])) = Range(wait_list[m]) \ {heir}
    BY <2>1, Waiting, TailList
  <2> HIDE DEF heir
  <2>3. heir \notin Queued /\ calls[heir][m] = 1 /\ heir # curr_task
    BY <1>5, <2>2, Waiting DEF MutexCore, WaitersAskedOnce
  <2>4. /\ SchedInv' /\ Queued' = Queued \cup {heir}
        /\ \A t \in Tasks \ Queued' : state'[t] = state[t]
    BY <2>1, <2>2, <2>3, WakeInv DEF MutexCore
  <2>5. \A n \in Mutexes : wait_list'[n] = IF n = m THEN Tail(wait_list[n]) ELSE wait_list[n]
    BY <1>2, <2>1
  <2>6. \A n \in Mutexes : Range(wait_list'[n]) = IF n = m THEN Range(wait_list[n]) \ {heir}
                                                           ELSE Range(wait_list[n])
    BY <2>2, <2>5
  <2>7. MutexTypeOK'
    BY <1>2, <1>3, <2>1, <2>2, <2>4 DEF MutexTypeOK, SchedInv
  <2>8. Record'
    <3>1. ASSUME NEW n \in Mutexes, n # m
          PROVE  /\ \A t \in Tasks : calls'[t][n] > 0 /\ t \notin Range(wait_list'[n]) <=> owner'[n] = t
                 /\ owner'[n] # NoTask => locked_count'[n] = calls'[owner'[n]][n]
                 /\ owner'[n] = NoTask => locked_count'[n] = 0 /\ wait_list'[n] = <<>>
      <4>1. /\ owner'[n] = owner[n] /\ locked_count'[n] = locked_count[n]
            /\ wait_list'[n] = wait_list[n] /\ owner[n] \in Tasks \cup {NoTask}
        BY <1>2, <2>1, <3>1
      <4> QED BY <1>4, <3>1, <4>1 DEF MutexCore, Record
    <3>2. calls'[curr_task][m] = 0 /\ calls'[heir][m] = 1
      BY <1>1, <1>2, <1>4, <1>6, <1>9, <2>2, <2>3
    <3>3. ASSUME NEW t \in Tasks
          PROVE  calls'[t][m] > 0 /\ t \notin Range(wait_list'[m]) <=> heir = t
      <4>1. CASE t = curr_task \/ t = heir
        <5>1. heir \notin Range(wait_list'[m])
          BY <2>6
        <5> QED BY <2>3, <3>2, <4>1, <5>1
      <4>2. CASE t # curr_task /\ t # heir
        <5>1. calls'[t][m] = calls[t][m] /\ (t \in Range(wait_list'[m]) <=> t \in Range(wait_list[m]))
          BY <1>4, <2>6, <4>2
        <5> QED BY <1>6, <4>2, <5>1 DEF MutexCore, Record
      <4> QED BY <4>1, <4>2
    <3>4. owner'[m] = heir /\ locked_count'[m] = 1 /\ heir # NoTask
      BY <1>2, <2>1, <2>2
    <3> QED BY <3>1, <3>2, <3>3, <3>4 DEF Record
  <2>9. Apart'
    <3>1. \A n \in Mutexes : IsInjective(wait_list'[n])
      BY <2>2, <2>5, Waiting
    <3>2. \A n \in Mutexes : Range(wait_list'[n]) \cap Queued' = {}
      <4>1. \A n \in Mutexes \ {m} : heir \notin Range(wait_list[n])
        BY <2>2 DEF MutexCore, Apart
      <4>2. \A n \in Mutexes : Range(wait_list[n]) \cap Queued = {}
        BY Waiting
      <4> QED BY <2>4, <2>6, <4>1, <4>2
    <3>3. \A n \in Mutexes : \A k \in Mutexes \ {n} :
             Range(wait_list'[n]) \cap Range(wait_list'[k]) = {}
      BY <2>6 DEF MutexCore, Apart
    <3> QED BY <2>4, <3>1, <3>2, <3>3, Places
  <2>10. WaitersAskedOnce'
    <3>1. ASSUME NEW n \in Mutexes, NEW t \in Range(wait_list'[n])
          PROVE  calls'[t][n] = 1 /\ state'[t] # "CREATED"
      <4>1. t \in Range(wait_list[n]) /\ t \in Tasks /\ t # curr_task
        BY <1>5, <2>6, Waiting
      <4>2. t \notin Queued'
        BY <2>9, <3>1 DEF Apart, Queued
      <4>3. calls'[t][n] = calls[t][n] /\ state'[t] = state[t]
        BY <1>4, <2>4, <4>1, <4>2
      <4> QED BY <4>1, <4>3 DEF MutexCore, WaitersAskedOnce
    <3> QED BY <3>1 DEF WaitersAskedOnce
  <2>11. PlacesKept
    BY <2>2, <2>4, <2>6 DEF PlacesKept, OnList
  <2> QED BY <2>4, <2>7, <2>8, <2>9, <2>10, <2>11 DEF MutexCore
<1> QED BY <1>6, <1>7, <1>8, <1>9 DEF mutex_unlock, Mine

LEMMA MutexNextInv == MutexInv /\ [Next]_vars => MutexInv'
<1> SUFFICES ASSUME MutexInv, [Next]_vars PROVE MutexInv'
  OBVIOUS
<1>1. MutexCore /\ \A t \in Tasks : state[t] # "CREATED" => t \in OnList
  BY DEF MutexInv
<1>2. ASSUME PlacesKept PROVE \A t \in Tasks : state'[t] # "CREATED" => t \in OnList'
  BY <1>1, <1>2 DEF PlacesKept, OnList
<1>3. ASSUME [SchedNext]_schedVars, UNCHANGED mutexVars PROVE MutexInv'
  <2>1. MutexCore' /\ QueuesKept /\ wait_list' = wait_list
    BY <1>1, <1>3, SchedStepInv DEF mutexVars
  <2>2. \A t \in Tasks : state'[t] # "CREATED" => t \in OnList'
    BY <1>1, <2>1 DEF QueuesKept, OnList
  <2> QED BY <2>1, <2>2 DEF MutexInv
<1>4. CASE \E m \in Mutexes : mutex_lock(m) \/ mutex_unlock(m)
  BY <1>1, <1>2, <1>4, LockInv, UnlockInv DEF MutexInv
<1> QED BY <1>3, <1>4 DEF Next, SchedStep, vars
-----------------------------------------------------------------------------
THEOREM MutexInvariant == Spec => []MutexInv
<1>1. Init => MutexInv
  BY MutexInitInv
<1>2. MutexInv /\ [Next]_vars => MutexInv'
  BY MutexNextInv
<1> QED BY <1>1, <1>2, PTL DEF Spec

\* Every variable of scheduler and mutexes keeps its type.
THEOREM MutexTypeCorrect == Spec => []MutexTypeOK
<1>1. MutexInv => MutexTypeOK
  BY DEF MutexInv, MutexCore
<1> QED BY <1>1, MutexInvariant, PTL

\* Being inside is holding calls and not being queued.
LEMMA InsideMeans ==
  ASSUME MutexCore, NEW m \in Mutexes, NEW t \in Tasks
  PROVE  Inside(t, m) <=> calls[t][m] > 0 /\ t \notin Range(wait_list[m])
BY Waiting DEF Inside, HeldUp, Queued

\* A mutex is owned exactly by the task inside and counts that task's calls.
THEOREM RecordCorrect == Spec => []RecordMatchesCallers
<1>1. MutexInv => RecordMatchesCallers
  BY InsideMeans DEF MutexInv, MutexCore, Record, RecordMatchesCallers
<1> QED BY <1>1, MutexInvariant, PTL

\* Two tasks are never inside the same mutex.
THEOREM MutexExcludes == Spec => []MutualExclusion
<1>1. MutexInv => MutualExclusion
  BY InsideMeans DEF MutexInv, MutexCore, Record, MutualExclusion
<1> QED BY <1>1, MutexInvariant, PTL

\* A task is on the ready list, asleep or held up in one mutex, and a started one is at one
\* of these places.
THEOREM TasksAtOnePlace == Spec => []AtOnePlace
<1>1. MutexInv => AtOnePlace
  BY DEF MutexInv, MutexCore, Apart, AtOnePlace, OnList, Queued
<1> QED BY <1>1, MutexInvariant, PTL

\* While tasks wait for a mutex, the next one inside is the oldest waiter.
THEOREM NobodyBarges == Spec => NoBarging
<1> DEFINE Enters(m, t) == /\ wait_list[m] # <<>>
                           /\ Inside(t, m)' /\ ~Inside(t, m)
                           => t = Head(wait_list[m])
<1>1. ASSUME MutexCore, MutexCore', [Next]_vars, NEW m \in Mutexes, NEW t \in Tasks
      PROVE  Enters(m, t)
  <2> SUFFICES ASSUME wait_list[m] # <<>>, Inside(t, m)', ~Inside(t, m)
               PROVE  t = Head(wait_list[m])
    OBVIOUS
  <2>1. ~(calls[t][m] > 0) \/ t \in Range(wait_list[m])
    BY <1>1, InsideMeans
  <2>2. calls'[t][m] > 0 /\ t \notin Range(wait_list'[m])
    BY <1>1, Waiting DEF Inside, HeldUp, MutexCore, Apart, WaitersAskedOnce
  <2>3. owner[m] # NoTask /\ NoTask \notin Tasks
    BY <1>1, MutexAssumption DEF MutexCore, Record, AllTasks
  <2>4. CASE UNCHANGED mutexVars
    BY <2>1, <2>2, <2>4 DEF mutexVars
  <2>5. /\ calls \in [Tasks -> [Mutexes -> Nat]] /\ wait_list \in [Mutexes -> Seq(Tasks)]
        /\ wait_list[m] \in Seq(Tasks) /\ IsInjective(wait_list[m])
    BY <1>1, Waiting DEF MutexCore, MutexTypeOK
  <2>6. ASSUME NEW n \in Mutexes, mutex_lock(n) PROVE FALSE
    <3>1. /\ Running(curr_task) /\ curr_task \in Tasks
          /\ calls' = [calls EXCEPT ![curr_task][n] = @ + 1]
      BY <2>6 DEF mutex_lock, Running
    <3>2. \/ wait_list' = wait_list
          \/ LockWait(n) /\ wait_list' = [wait_list EXCEPT ![n] = Append(@, curr_task)]
      BY <2>6 DEF mutex_lock, LockFree, LockAgain, LockWait
    <3>3. curr_task \notin Range(wait_list[m])
      BY <1>1, <3>1, Waiting
    <3>4. Range(Append(wait_list[m], curr_task)) = Range(wait_list[m]) \cup {curr_task}
      BY <2>5, <3>1, <3>3, AppendList
    <3>5. Range(wait_list[m]) \subseteq Range(wait_list'[m])
      BY <2>5, <3>2, <3>4
    <3>6. ~(calls[t][m] > 0)
      BY <2>1, <2>2, <3>5
    <3>7. t = curr_task /\ n = m
      BY <2>2, <2>5, <3>1, <3>6
    <3>8. locked_count[m] # 0 /\ ~Mine(m)
      BY <1>1, <2>3, <2>5, <3>3, <3>6, <3>7 DEF MutexCore, MutexTypeOK, Record, Mine
    <3>9. LockWait(m)
      BY <2>6, <3>7, <3>8 DEF mutex_lock, LockFree, LockAgain
    <3>10. curr_task \in Range(wait_list'[m])
      BY <2>5, <3>4, <3>9 DEF LockWait
    <3> QED BY <2>2, <3>7, <3>10
  <2>7. ASSUME NEW n \in Mutexes, mutex_unlock(n) PROVE t = Head(wait_list[m])
    <3>1. /\ curr_task \in Tasks
          /\ calls' = [calls EXCEPT ![curr_task][n] = @ - 1]
      BY <2>7 DEF mutex_unlock, Running
    <3>2. calls[t][m] > 0
      BY <2>2, <2>5, <3>1
    <3>3. t \in Range(wait_list[m])
      BY <2>1, <3>2
    <3>4. wait_list' = wait_list \/ wait_list' = [wait_list EXCEPT ![n] = Tail(@)]
      BY <2>7 DEF mutex_unlock, ReleaseFree, HandOver
    <3>5. wait_list'[m] = Tail(wait_list[m])
      BY <2>2, <2>5, <3>3, <3>4
    <3>6. Range(wait_list'[m]) = Range(wait_list[m]) \ {Head(wait_list[m])}
      BY <2>5, <3>5, TailList
    <3> QED BY <2>2, <3>3, <3>6
  <2> QED BY <1>1, <2>4, <2>6, <2>7 DEF Next, SchedStep, vars
<1>2. MutexInv /\ MutexInv' /\ [Next]_vars
        => [\A m \in Mutexes : \A t \in Tasks : Enters(m, t)]_vars
  BY <1>1 DEF MutexInv
<1> QED BY <1>2, MutexInvariant, PTL DEF Spec, NoBarging

-----------------------------------------------------------------------------
(* The life of a process, which locks and unlocks task_table_mutex.          *)

\* The mutexes that these system calls do not use have no waiters.
OnlyTable == \A m \in Mutexes \ {TableMutex} : wait_list[m] = <<>>

\* A task is on some list unless its state says that nothing will run it by itself.
Placed ==
    \A t \in Tasks : t \in OnList <=> state[t] \notin {"CREATED", "WAITING", "ZOMBIE"}

\* Where the code holds task_table_mutex.
InSection == {"fork_alloc", "fork_free", "wait_scan", "wait_reaped", "wait_none",
              "exit_scan", "exit_unlock"}

CallsMatch ==
    \A t \in Tasks : calls[t][TableMutex] = IF pc[t] \in InSection THEN 1 ELSE 0

\* Where a fork has a slot that nothing marks as taken.
Forking == {"fork_init", "fork_failed", "fork_free"}

\* Where a process has passed on its children.
Leaving == {"exit_unlock", "exit_final", "gone"}

\* What the states say about the step a task is at: this is why a zombie is nobody's parent
\* and why only a task that is still in sys_wait can be woken by an exit.
WhereStates ==
    \A t \in Tasks :
        /\ state[t] = "WAITING" => pc[t] = "wait_lock"
        /\ pc[t] = "gone" <=> state[t] = "ZOMBIE" \/ ~named[t]
        /\ ~named[t] => state[t] = "CREATED" /\ parent[t] = NoTask
        /\ state[t] = "CREATED" => ~named[t] \/ pc[t] = "user"

\* The slot that a fork is filling: free until task_init names it, then a child of the
\* forking task that has not started. One fork at a time has a slot that is still free.
ForkSlots ==
    \A s \in Tasks :
        /\ pc[s] \in Forking => child[s] \in Slots /\ ~named[child[s]]
        /\ pc[s] = "fork_start" => /\ child[s] \in Slots /\ named[child[s]]
                                   /\ state[child[s]] = "CREATED" /\ parent[child[s]] = s
        /\ \A t \in Tasks : pc[s] \in Forking /\ pc[t] \in Forking => s = t

FirstStays == named[First] /\ parent[First] = NoTask /\ pc[First] \notin Leaving \cup {"exit_scan"}

\* The inductive invariant.
LifeInv ==
    /\ MutexCore
    /\ LifeTypeOK
    /\ OnlyTable
    /\ Placed
    /\ CallsMatch
    /\ WhereStates
    /\ ForkSlots
    /\ FirstStays
    /\ ParentCanReap

\* Whoever is ready or asleep says so in its state.
QueuedAwake == \A t \in Queued : state[t] \in {"RUNNING", "READY", "SLEEP"}

\* Nobody is started, put to wait, buried or reaped.
SameStates ==
    \A t \in Tasks : /\ state'[t] = "CREATED" <=> state[t] = "CREATED"
                     /\ state'[t] = "WAITING" <=> state[t] = "WAITING"
                     /\ state'[t] = "ZOMBIE" <=> state[t] = "ZOMBIE"
-----------------------------------------------------------------------------
LEMMA LifeInitInv == LifeInit => LifeInv
<1> SUFFICES ASSUME LifeInit PROVE LifeInv
  OBVIOUS
<1> USE SchedAssumption, MutexAssumption, LifeAssumption
<1>1. MutexInv
  BY MutexInitInv DEF LifeInit
<1>2. /\ ready_list = <<First>> /\ sleep_list = <<>> /\ \A m \in Mutexes : wait_list[m] = <<>>
      /\ \A t \in Tasks : state[t] = IF t = First THEN "READY" ELSE "CREATED"
      /\ \A t \in Tasks : calls[t][TableMutex] = 0
  BY DEF LifeInit, Init, SchedInit, AllTasks
<1>3. LifeTypeOK
  BY <1>1 DEF LifeInit, LifeTypeOK, MutexInv, MutexCore, Steps
<1>4. OnList = {First}
  BY <1>2 DEF OnList, Queued, Range
<1>5. OnlyTable /\ Placed /\ CallsMatch
  BY <1>2, <1>4 DEF OnlyTable, Placed, CallsMatch, LifeInit, InSection
<1>6. WhereStates /\ ForkSlots /\ FirstStays /\ ParentCanReap
  BY <1>2 DEF LifeInit, WhereStates, ForkSlots, FirstStays, ParentCanReap, Forking, Leaving, Slots
<1> QED BY <1>1, <1>3, <1>5, <1>6 DEF LifeInv, MutexInv

LEMMA QueuedStates == SchedInv => QueuedAwake
<1> SUFFICES ASSUME SchedInv, NEW t \in Queued PROVE state[t] \in {"RUNNING", "READY", "SLEEP"}
  BY DEF QueuedAwake
<1>1. t \in Tasks
  BY DEF Queued, SchedInv, SchedTypeOK, Range
<1> QED BY <1>1 DEF SchedInv, OthersAreReady, SleepersAreCounted, Queued, Running

\* The task that executes a system call is an ordinary, queued process.
LEMMA Runner ==
  ASSUME LifeInv, Running(curr_task)
  PROVE  /\ curr_task \in Tasks /\ curr_task # Idle /\ curr_task # NoTask
         /\ curr_task \in Queued
         /\ \A m \in Mutexes : curr_task \notin Range(wait_list[m])
         /\ state[curr_task] \in {"RUNNING", "READY"}
         /\ named[curr_task] /\ pc[curr_task] # "gone"
<1>1. curr_task \in Tasks /\ curr_task # Idle /\ curr_task # NoTask
  BY SchedAssumption, MutexAssumption DEF Running, AllTasks
<1>2. curr_task \in Queued
  BY BlockCurrentList DEF LifeInv, MutexCore, Queued
<1>3. \A m \in Mutexes : curr_task \notin Range(wait_list[m])
  BY Waiting DEF LifeInv
<1>4. state[curr_task] \in {"RUNNING", "READY"}
  BY DEF LifeInv, MutexCore, SchedInv, OthersAreReady
<1>5. named[curr_task] /\ pc[curr_task] # "gone"
  BY <1>1, <1>4 DEF LifeInv, WhereStates
<1> QED BY <1>1, <1>2, <1>3, <1>4, <1>5

\* Steps that only move tasks from list to list.
LEMMA PlacedKept ==
  ASSUME Placed, SchedInv', PlacesKept
  PROVE  Placed' /\ SameStates
<1>1. \A t \in Queued' : state'[t] \in {"RUNNING", "READY", "SLEEP"}
  <2>1. QueuedAwake'
    BY QueuedStates, PTL
  <2> QED BY <2>1 DEF QueuedAwake
<1>2. \A t \in Tasks \ Queued' : state'[t] = state[t]
  BY DEF PlacesKept
<1>3. \A t \in Queued' : t \in OnList
  BY DEF PlacesKept, OnList
<1>4. OnList' = OnList
  BY DEF PlacesKept
<1>5. ASSUME NEW t \in Tasks
      PROVE  /\ state'[t] = "CREATED" <=> state[t] = "CREATED"
             /\ state'[t] = "WAITING" <=> state[t] = "WAITING"
             /\ state'[t] = "ZOMBIE" <=> state[t] = "ZOMBIE"
  <2>1. CASE t \in Queued'
    BY <1>1, <1>3, <2>1 DEF Placed
  <2>2. CASE t \notin Queued'
    BY <1>2, <2>2
  <2> QED BY <2>1, <2>2
<1>6. Placed'
  BY <1>4, <1>5 DEF Placed
<1> QED BY <1>5, <1>6 DEF SameStates
-----------------------------------------------------------------------------
(* Entering and leaving the section under task_table_mutex.                *)

\* What a call of mutex_lock contributes.
LEMMA LockTaken ==
  ASSUME LifeInv, mutex_lock(TableMutex)
  PROVE  /\ MutexCore' /\ OnlyTable' /\ Placed' /\ SameStates
         /\ Running(curr_task)
         /\ \A t \in Tasks : calls'[t][TableMutex] = IF t = curr_task THEN calls[t][TableMutex] + 1
                                                                    ELSE calls[t][TableMutex]
<1>1. TableMutex \in Mutexes
  BY LifeAssumption
<1>2. MutexCore' /\ PlacesKept
  BY <1>1, LockInv DEF LifeInv
<1>3. Running(curr_task) /\ calls' = [calls EXCEPT ![curr_task][TableMutex] = @ + 1]
  BY DEF mutex_lock
<1>4. OnlyTable'
  <2>1. wait_list' = wait_list \/ wait_list' = [wait_list EXCEPT ![TableMutex] = Append(@, curr_task)]
    BY DEF mutex_lock, LockFree, LockAgain, LockWait
  <2> QED BY <2>1 DEF LifeInv, OnlyTable, MutexCore, MutexTypeOK
<1>5. Placed' /\ SameStates
  BY <1>2, PlacedKept DEF LifeInv, MutexCore
<1>6. calls \in [Tasks -> [Mutexes -> Nat]]
  BY DEF LifeInv, MutexCore, MutexTypeOK
<1> QED BY <1>1, <1>2, <1>3, <1>4, <1>5, <1>6

\* What a call of mutex_unlock contributes.
LEMMA LockGiven ==
  ASSUME LifeInv, mutex_unlock(TableMutex)
  PROVE  /\ MutexCore' /\ OnlyTable' /\ Placed' /\ SameStates
         /\ Running(curr_task)
         /\ \A t \in Tasks : calls'[t][TableMutex] = IF t = curr_task THEN calls[t][TableMutex] - 1
                                                                    ELSE calls[t][TableMutex]
<1>1. TableMutex \in Mutexes
  BY LifeAssumption
<1>2. MutexCore' /\ PlacesKept
  BY <1>1, UnlockInv DEF LifeInv
<1>3. Running(curr_task) /\ calls' = [calls EXCEPT ![curr_task][TableMutex] = @ - 1]
  BY DEF mutex_unlock
<1>4. OnlyTable'
  <2>1. wait_list' = wait_list \/ wait_list' = [wait_list EXCEPT ![TableMutex] = Tail(@)]
    BY DEF mutex_unlock, ReleaseFree, HandOver
  <2> QED BY <2>1 DEF LifeInv, OnlyTable, MutexCore, MutexTypeOK
<1>5. Placed' /\ SameStates
  BY <1>2, PlacedKept DEF LifeInv, MutexCore
<1>6. calls \in [Tasks -> [Mutexes -> Nat]]
  BY DEF LifeInv, MutexCore, MutexTypeOK
<1> QED BY <1>1, <1>2, <1>3, <1>4, <1>5, <1>6

\* Going on from one step to the next one, with the table of processes as it is. The
\* conditions on the next step are what the invariant says of it.
LEMMA GoesOn ==
  ASSUME LifeInv, Running(curr_task), SameStates,
         NEW to \in Steps \ {"gone", "fork_start"}, Goto(to), UNCHANGED <<named, parent>>,
         \A s \in Tasks \ {curr_task} : child'[s] = child[s],
         to \in Forking => /\ child'[curr_task] \in Slots /\ ~named[child'[curr_task]]
                           /\ \A t \in Tasks \ {curr_task} : pc[t] \notin Forking,
         to \in Leaving => pc[curr_task] \in Leaving,
         to = "exit_scan" => curr_task # First
  PROVE  WhereStates' /\ ForkSlots' /\ FirstStays' /\ ParentCanReap'
<1>1. /\ curr_task \in Tasks /\ state[curr_task] \in {"RUNNING", "READY"}
      /\ named[curr_task] /\ pc[curr_task] # "gone"
  BY Runner
<1>2. pc \in [Tasks -> Steps]
  BY DEF LifeInv, LifeTypeOK
<1>3. pc' \in [Tasks -> Steps] /\ \A t \in Tasks : pc'[t] = IF t = curr_task THEN to ELSE pc[t]
  BY <1>1, <1>2 DEF Goto
<1>4. \A t \in Tasks : /\ state'[t] = "CREATED" <=> state[t] = "CREATED"
                       /\ state'[t] = "WAITING" <=> state[t] = "WAITING"
                       /\ state'[t] = "ZOMBIE" <=> state[t] = "ZOMBIE"
  BY DEF SameStates
<1>5. WhereStates'
  BY <1>1, <1>3, <1>4 DEF LifeInv, WhereStates
<1>6. ForkSlots'
  <2> SUFFICES ASSUME NEW s \in Tasks
               PROVE  /\ pc'[s] \in Forking => child'[s] \in Slots /\ ~named[child'[s]]
                      /\ pc'[s] = "fork_start" =>
                            /\ child'[s] \in Slots /\ named[child'[s]]
                            /\ state'[child'[s]] = "CREATED" /\ parent[child'[s]] = s
                      /\ \A t \in Tasks : pc'[s] \in Forking /\ pc'[t] \in Forking => s = t
    BY DEF ForkSlots
  <2>1. CASE s = curr_task
    BY <1>3, <2>1
  <2>2. CASE s # curr_task
    <3>1. pc'[s] = pc[s] /\ child'[s] = child[s]
      BY <1>3, <2>2
    <3>2. pc[s] = "fork_start" =>
            /\ child[s] \in Slots /\ named[child[s]]
            /\ state'[child[s]] = "CREATED" /\ parent[child[s]] = s
      BY <1>4 DEF LifeInv, ForkSlots, Slots
    <3>3. pc[s] \in Forking => child[s] \in Slots /\ ~named[child[s]]
      BY DEF LifeInv, ForkSlots
    <3>4. \A t \in Tasks : pc[s] \in Forking /\ pc'[t] \in Forking => s = t
      BY <1>3, <2>2 DEF LifeInv, ForkSlots
    <3> QED BY <3>1, <3>2, <3>3, <3>4
  <2> QED BY <2>1, <2>2
<1>7. FirstStays'
  BY <1>1, <1>3, SchedAssumption DEF LifeInv, FirstStays, Leaving
<1>8. ParentCanReap'
  BY <1>3 DEF LifeInv, ParentCanReap, Slots, Leaving
<1> QED BY <1>5, <1>6, <1>7, <1>8

\* The locks of task_table_mutex.
LEMMA LockTableInv ==
  ASSUME LifeInv, NEW from \in Steps, NEW to \in InSection \ Leaving, LockTable(from, to),
         from \notin InSection,
         to \in Forking => from \in Forking,
         to = "exit_scan" => curr_task # First
  PROVE  LifeInv'
<1>1. /\ mutex_lock(TableMutex) /\ Goto(to) /\ UNCHANGED <<named, parent, child, move_child>>
      /\ Running(curr_task) /\ pc[curr_task] = from
  BY DEF LockTable, At
<1>2. /\ MutexCore' /\ OnlyTable' /\ Placed' /\ SameStates
      /\ \A t \in Tasks : calls'[t][TableMutex] = IF t = curr_task THEN calls[t][TableMutex] + 1
                                                                 ELSE calls[t][TableMutex]
  BY <1>1, LockTaken
<1>3. to \in Steps \ {"gone", "fork_start"} /\ to \in InSection /\ to \notin Leaving
  BY DEF InSection, Steps, Leaving
<1>4. curr_task \in Tasks
  BY <1>1 DEF Running
<1>5. pc \in [Tasks -> Steps] /\ \A t \in Tasks : pc'[t] = IF t = curr_task THEN to ELSE pc[t]
  BY <1>1, <1>4 DEF LifeInv, LifeTypeOK, Goto
<1>6. LifeTypeOK'
  BY <1>1, <1>2, <1>3, <1>5 DEF LifeInv, LifeTypeOK, MutexCore, Goto
<1>7. CallsMatch'
  BY <1>1, <1>2, <1>3, <1>5 DEF LifeInv, CallsMatch
<1>8. to \in Forking => /\ child'[curr_task] \in Slots /\ ~named[child'[curr_task]]
                        /\ \A t \in Tasks \ {curr_task} : pc[t] \notin Forking
  BY <1>1, <1>4 DEF LifeInv, ForkSlots
<1>9. WhereStates' /\ ForkSlots' /\ FirstStays' /\ ParentCanReap'
  BY <1>1, <1>2, <1>3, <1>8, GoesOn
<1> QED BY <1>2, <1>6, <1>7, <1>9 DEF LifeInv

\* The unlocks of task_table_mutex that end a scan.
LEMMA UnlockTableInv ==
  ASSUME LifeInv, NEW from \in InSection, NEW to \in {"user", "wait_block", "exit_final"},
         UnlockTable(from, to), to = "exit_final" => from \in Leaving
  PROVE  LifeInv'
<1>1. /\ mutex_unlock(TableMutex) /\ Goto(to) /\ UNCHANGED <<named, parent, child, move_child>>
      /\ Running(curr_task) /\ pc[curr_task] = from
  BY DEF UnlockTable, At
<1>2. /\ MutexCore' /\ OnlyTable' /\ Placed' /\ SameStates
      /\ \A t \in Tasks : calls'[t][TableMutex] = IF t = curr_task THEN calls[t][TableMutex] - 1
                                                                 ELSE calls[t][TableMutex]
  BY <1>1, LockGiven
<1>3. /\ to \in Steps \ {"gone", "fork_start"} /\ to \notin InSection /\ to \notin Forking
      /\ to # "exit_scan" /\ to \in Leaving => pc[curr_task] \in Leaving
  BY <1>1 DEF InSection, Steps, Leaving, Forking
<1>4. curr_task \in Tasks
  BY <1>1 DEF Running
<1>5. pc \in [Tasks -> Steps] /\ \A t \in Tasks : pc'[t] = IF t = curr_task THEN to ELSE pc[t]
  BY <1>1, <1>4 DEF LifeInv, LifeTypeOK, Goto
<1>6. LifeTypeOK'
  BY <1>1, <1>2, <1>3, <1>5 DEF LifeInv, LifeTypeOK, MutexCore, Goto
<1>7. CallsMatch'
  BY <1>1, <1>2, <1>3, <1>5 DEF LifeInv, CallsMatch
<1>8. WhereStates' /\ ForkSlots' /\ FirstStays' /\ ParentCanReap'
  BY <1>1, <1>2, <1>3, GoesOn
<1> QED BY <1>2, <1>6, <1>7, <1>8 DEF LifeInv
-----------------------------------------------------------------------------
(* fork.                                                                   *)

LEMMA ForkAllocInv == ASSUME RacyFork = FALSE, LifeInv, fork_alloc PROVE LifeInv'
<1>1. /\ mutex_unlock(TableMutex) /\ Running(curr_task) /\ pc[curr_task] = "fork_alloc"
      /\ \A t \in Tasks : pc[t] \notin Forking
      /\ UNCHANGED <<named, parent, move_child>>
  BY DEF fork_alloc, At, Forking
<1>2. /\ MutexCore' /\ OnlyTable' /\ Placed' /\ SameStates
      /\ \A t \in Tasks : calls'[t][TableMutex] = IF t = curr_task THEN calls[t][TableMutex] - 1
                                                                 ELSE calls[t][TableMutex]
  BY <1>1, LockGiven
<1>3. curr_task \in Tasks
  BY <1>1 DEF Running
<1>4. child \in [Tasks -> Slots \cup {NoTask}] /\ pc \in [Tasks -> Steps]
  BY DEF LifeInv, LifeTypeOK
<1>5. PICK to \in {"fork_init", "user"} :
        /\ Goto(to) /\ child' \in [Tasks -> Slots \cup {NoTask}]
        /\ \A s \in Tasks \ {curr_task} : child'[s] = child[s]
        /\ to \in Forking => child'[curr_task] \in Slots /\ ~named[child'[curr_task]]
  <2>1. CASE Goto("user") /\ UNCHANGED child
    BY <1>4, <2>1 DEF Forking
  <2>2. CASE /\ \E c \in Slots : ~named[c] /\ child' = [child EXCEPT ![curr_task] = c]
             /\ Goto("fork_init")
    BY <1>3, <1>4, <2>2
  <2> QED BY <2>1, <2>2 DEF fork_alloc
<1>6. to \in Steps \ {"gone", "fork_start"} /\ to \notin InSection /\ to \notin Leaving /\ to # "exit_scan"
  BY DEF Steps, InSection, Leaving
<1>7. \A t \in Tasks : pc'[t] = IF t = curr_task THEN to ELSE pc[t]
  BY <1>3, <1>4, <1>5 DEF Goto
<1>8. LifeTypeOK'
  BY <1>1, <1>2, <1>4, <1>5, <1>6 DEF LifeInv, LifeTypeOK, MutexCore, Goto
<1>9. CallsMatch'
  <2>1. pc[curr_task] \in InSection
    BY <1>1 DEF InSection
  <2> QED BY <1>2, <1>3, <1>6, <1>7, <2>1 DEF LifeInv, CallsMatch
<1>10. WhereStates' /\ ForkSlots' /\ FirstStays' /\ ParentCanReap'
  BY <1>1, <1>2, <1>5, <1>6, GoesOn
<1> QED BY <1>2, <1>8, <1>9, <1>10 DEF LifeInv

\* A slot that is linked nowhere is cleared or filled: the scheduler does not notice.
LEMMA SlotCleared ==
  ASSUME LifeInv, NEW c \in Tasks, c \notin OnList, c # curr_task,
         state' = [state EXCEPT ![c] = "CREATED"],
         slice_ticks' = slice_ticks \/ slice_ticks' = [slice_ticks EXCEPT ![c] = TimeSlice],
         UNCHANGED <<ready_list, sleep_list, curr_task, sleep_ticks, mutexVars>>
  PROVE  MutexCore' /\ OnlyTable' /\ Placed' /\ OnList' = OnList
<1>1. /\ ready_list \in Seq(Tasks) /\ sleep_list \in Seq(Tasks) /\ curr_task \in AllTasks
      /\ state \in [AllTasks -> TaskStates] /\ sleep_ticks \in [AllTasks -> Nat]
      /\ slice_ticks \in [AllTasks -> 1 .. TimeSlice]
  BY DEF LifeInv, MutexCore, SchedInv, SchedTypeOK
<1>2. Queued' = Queued /\ OnList' = OnList
  BY DEF Queued, OnList, mutexVars
<1>3. c \notin Range(ready_list) /\ c \notin Range(sleep_list) /\ c \in AllTasks
  BY DEF OnList, Queued, AllTasks
<1>4. \A t \in AllTasks : state'[t] = IF t = c THEN "CREATED" ELSE state[t]
  BY <1>1
<1>5. Range(ready_list) \subseteq AllTasks /\ Tasks \subseteq AllTasks
  BY <1>1 DEF Range, AllTasks
<1>6. slice_ticks' \in [AllTasks -> 1 .. TimeSlice] /\ state' \in [AllTasks -> TaskStates]
  <2>1. TimeSlice \in 1 .. TimeSlice
    BY SchedAssumption
  <2>2. slice_ticks' \in [AllTasks -> 1 .. TimeSlice]
    BY <1>1, <2>1
  <2>3. state' \in [AllTasks -> TaskStates]
    BY <1>1 DEF TaskStates
  <2> QED BY <2>2, <2>3
<1>7. SleepersAreCounted'
  BY <1>3, <1>4, <1>5 DEF LifeInv, MutexCore, SchedInv, SleepersAreCounted
<1>8. OthersAreReady'
  BY <1>3, <1>4, <1>5 DEF LifeInv, MutexCore, SchedInv, OthersAreReady, Running
<1>9. SchedInv'
  BY <1>1, <1>6, <1>7, <1>8
     DEF LifeInv, MutexCore, SchedInv, SchedTypeOK, RunNodeLinkedOnce, RunsHead
<1>10. \A m \in Mutexes : \A t \in Range(wait_list[m]) : t \notin Queued' /\ state'[t] # "CREATED"
  <2> SUFFICES ASSUME NEW m \in Mutexes, NEW t \in Range(wait_list[m])
               PROVE  t \notin Queued' /\ state'[t] # "CREATED"
    OBVIOUS
  <2>1. t \in Tasks /\ t \notin Queued
    BY Waiting DEF LifeInv
  <2>2. t # c
    BY DEF OnList
  <2> QED BY <1>2, <1>4, <1>5, <2>1, <2>2 DEF LifeInv, MutexCore, WaitersAskedOnce
<1>11. MutexCore'
  BY <1>9, <1>10, CoreKept DEF LifeInv
<1>12. OnlyTable'
  BY DEF LifeInv, OnlyTable, mutexVars
<1>13. Placed'
  BY <1>2, <1>4, <1>5 DEF LifeInv, Placed
<1> QED BY <1>2, <1>11, <1>12, <1>13

LEMMA ForkInitInv == ASSUME LifeInv, fork_init PROVE LifeInv'
<1> DEFINE c == child[curr_task]
<1>1. Running(curr_task) /\ pc[curr_task] = "fork_init"
  BY DEF fork_init, At
<1>2. /\ curr_task \in Tasks /\ state[curr_task] \in {"RUNNING", "READY"}
      /\ named[curr_task] /\ pc[curr_task] # "gone"
  BY <1>1, Runner
<1>3. c \in Slots /\ ~named[c]
  BY <1>1, <1>2 DEF LifeInv, ForkSlots, Forking
<1>4. /\ pc \in [Tasks -> Steps] /\ named \in [Tasks -> BOOLEAN]
      /\ parent \in [Tasks -> Tasks \cup {NoTask}] /\ state \in [AllTasks -> TaskStates]
  BY DEF LifeInv, LifeTypeOK, MutexCore, SchedInv, SchedTypeOK
<1>5. c \in Tasks /\ c \in AllTasks /\ c # curr_task /\ c # First /\ state[c] = "CREATED"
      /\ parent[c] = NoTask
  BY <1>2, <1>3 DEF LifeInv, WhereStates, Slots, AllTasks
<1>6. c \notin OnList
  BY <1>5 DEF LifeInv, Placed
<1>7. /\ state' = [state EXCEPT ![c] = "CREATED"]
      /\ slice_ticks' = slice_ticks \/ slice_ticks' = [slice_ticks EXCEPT ![c] = TimeSlice]
      /\ UNCHANGED <<ready_list, sleep_list, curr_task, sleep_ticks, mutexVars, child, move_child>>
  BY DEF fork_init
<1>8. PICK k \in Slots : k = c
  BY <1>3
<1>9. MutexCore' /\ OnlyTable' /\ Placed'
  BY <1>5, <1>6, <1>7, <1>8, SlotCleared
<1>10. state' = state
  BY <1>4, <1>5, <1>7
<1>13. named[curr_task] = TRUE
  BY <1>2, <1>4
<1>11. CASE /\ named' = [named EXCEPT ![c] = FALSE]
            /\ parent' = [parent EXCEPT ![c] = NoTask]
            /\ Goto("fork_failed")
  <2>1. named' = named /\ parent' = parent
    BY <1>3, <1>4, <1>5, <1>11
  <2>2. "fork_failed" \in Steps \ {"gone", "fork_start"} /\ "fork_failed" \notin Leaving
    BY DEF Steps, Leaving
  <2>3. child'[curr_task] \in Slots /\ ~named[child'[curr_task]]
        /\ \A t \in Tasks \ {curr_task} : pc[t] \notin Forking
    BY <1>1, <1>2, <1>3, <1>7 DEF LifeInv, ForkSlots, Forking
  <2>4. SameStates
    BY <1>10 DEF SameStates
  <2>5. WhereStates' /\ ForkSlots' /\ FirstStays' /\ ParentCanReap'
    BY <1>1, <1>7, <1>11, <2>1, <2>2, <2>3, <2>4, GoesOn
  <2>6. LifeTypeOK'
    BY <1>4, <1>7, <1>9, <1>11, <2>1, <2>2 DEF LifeInv, LifeTypeOK, MutexCore, Goto
  <2>7. CallsMatch'
    BY <1>1, <1>2, <1>4, <1>7, <1>11 DEF LifeInv, CallsMatch, InSection, Goto, mutexVars
  <2> QED BY <1>9, <2>5, <2>6, <2>7 DEF LifeInv
<1>12. CASE /\ named' = [named EXCEPT ![c] = named[curr_task]]
            /\ parent' = [parent EXCEPT ![c] = curr_task]
            /\ pc' = [pc EXCEPT ![curr_task] = "fork_start", ![c] = "user"]
  <2> HIDE DEF c
  <2>1. /\ \A t \in Tasks : pc'[t] = IF t = c THEN "user" ELSE IF t = curr_task THEN "fork_start"
                                                                  ELSE pc[t]
        /\ \A t \in Tasks : named'[t] = (t = c \/ named[t])
        /\ \A t \in Tasks : parent'[t] = IF t = c THEN curr_task ELSE parent[t]
    BY <1>2, <1>4, <1>5, <1>12, <1>13
  <2>2. LifeTypeOK'
    BY <1>2, <1>4, <1>7, <1>9, <1>12, <1>13 DEF LifeInv, LifeTypeOK, MutexCore, Steps
  <2>3. \A t \in Tasks : ~named[t] => pc[t] = "gone"
    BY DEF LifeInv, WhereStates
  <2>4. CallsMatch'
    BY <1>1, <1>3, <1>5, <1>7, <2>1, <2>3 DEF LifeInv, CallsMatch, InSection, mutexVars
  <2>5. WhereStates'
    BY <1>2, <1>5, <1>10, <2>1 DEF LifeInv, WhereStates
  <2>6. ForkSlots'
    <3> SUFFICES ASSUME NEW s \in Tasks
                 PROVE  /\ pc'[s] \in Forking => child[s] \in Slots /\ ~named'[child[s]]
                        /\ pc'[s] = "fork_start" =>
                              /\ child[s] \in Slots /\ named'[child[s]]
                              /\ state[child[s]] = "CREATED" /\ parent'[child[s]] = s
                        /\ \A t \in Tasks : pc'[s] \in Forking /\ pc'[t] \in Forking => s = t
      BY <1>7, <1>10 DEF ForkSlots
    <3>1. \A t \in Tasks : pc'[t] \notin Forking
      <4>1. \A t \in Tasks \ {curr_task} : pc[t] \notin Forking
        BY <1>1, <1>2 DEF LifeInv, ForkSlots, Forking
      <4> QED BY <2>1, <4>1 DEF Forking
    <3>2. CASE s = curr_task
      BY <1>3, <1>5, <2>1, <3>1, <3>2 DEF c
    <3>3. CASE s # curr_task /\ pc'[s] = "fork_start"
      <4>1. pc[s] = "fork_start"
        BY <2>1, <3>3
      <4>2. child[s] \in Slots /\ named[child[s]] /\ state[child[s]] = "CREATED"
            /\ parent[child[s]] = s
        BY <4>1 DEF LifeInv, ForkSlots
      <4>3. child[s] # c /\ child[s] \in Tasks
        BY <1>3, <4>2 DEF Slots
      <4> QED BY <2>1, <3>1, <4>2, <4>3
    <3> QED BY <3>1, <3>2, <3>3
  <2>7. FirstStays'
    BY <1>5, <2>1, SchedAssumption DEF LifeInv, FirstStays, Leaving
  <2>8. ParentCanReap'
    <3> SUFFICES ASSUME NEW s \in Slots, named'[s]
                 PROVE  \/ parent'[s] = First
                        \/ /\ parent'[s] \in Slots /\ named'[parent'[s]]
                           /\ pc'[parent'[s]] \notin Leaving
      BY DEF ParentCanReap, Leaving
    <3>1. CASE s = c
      BY <1>2, <1>5, <2>1, <3>1 DEF Slots, Leaving
    <3>2. CASE s # c
      <4>1. named[s] /\ parent'[s] = parent[s]
        BY <2>1, <3>2 DEF Slots
      <4>2. parent[s] # First => parent[s] \in Slots /\ named[parent[s]] /\ pc[parent[s]] \notin Leaving
        BY <4>1 DEF LifeInv, ParentCanReap, Leaving
      <4>3. \A t \in Slots : named[t] /\ pc[t] \notin Leaving => named'[t] /\ pc'[t] \notin Leaving
        BY <2>1 DEF Slots, Leaving
      <4> QED BY <4>1, <4>2, <4>3
    <3> QED BY <3>1, <3>2
  <2> QED BY <1>9, <2>2, <2>4, <2>5, <2>6, <2>7, <2>8 DEF LifeInv
<1> QED BY <1>11, <1>12 DEF fork_init

LEMMA ForkFreeInv == ASSUME LifeInv, fork_free PROVE LifeInv'
<1>1. /\ mutex_unlock(TableMutex) /\ Running(curr_task) /\ pc[curr_task] = "fork_free"
      /\ named' = [named EXCEPT ![child[curr_task]] = FALSE]
      /\ child' = [child EXCEPT ![curr_task] = NoTask]
      /\ Goto("user") /\ UNCHANGED <<parent, move_child>>
  BY DEF fork_free, At
<1>2. /\ MutexCore' /\ OnlyTable' /\ Placed' /\ SameStates
      /\ \A t \in Tasks : calls'[t][TableMutex] = IF t = curr_task THEN calls[t][TableMutex] - 1
                                                                 ELSE calls[t][TableMutex]
  BY <1>1, LockGiven
<1>3. curr_task \in Tasks
  BY <1>1 DEF Running
<1>4. /\ child \in [Tasks -> Slots \cup {NoTask}] /\ pc \in [Tasks -> Steps]
      /\ named \in [Tasks -> BOOLEAN]
  BY DEF LifeInv, LifeTypeOK
<1>5. child[curr_task] \in Slots /\ ~named[child[curr_task]]
  BY <1>1, <1>3 DEF LifeInv, ForkSlots, Forking
<1>6. named' = named
  BY <1>1, <1>4, <1>5 DEF Slots
<1>7. "user" \in Steps \ {"gone", "fork_start"} /\ "user" \notin Forking /\ "user" \notin Leaving
  BY DEF Steps, Forking, Leaving
<1>8. LifeTypeOK'
  BY <1>1, <1>2, <1>4, <1>6, <1>7 DEF LifeInv, LifeTypeOK, MutexCore, Goto
<1>9. CallsMatch'
  BY <1>1, <1>2, <1>3, <1>4 DEF LifeInv, CallsMatch, InSection, Goto
<1>10. \A s \in Tasks \ {curr_task} : child'[s] = child[s]
  BY <1>1, <1>4
<1>11. WhereStates' /\ ForkSlots' /\ FirstStays' /\ ParentCanReap'
  BY <1>1, <1>2, <1>6, <1>7, <1>10, GoesOn
<1> QED BY <1>2, <1>8, <1>9, <1>11 DEF LifeInv

LEMMA ForkStartInv == ASSUME LifeInv, fork_start PROVE LifeInv'
<1>1. /\ Running(curr_task) /\ pc[curr_task] = "fork_start" /\ task_start(child[curr_task])
      /\ child' = [child EXCEPT ![curr_task] = NoTask]
      /\ Goto("user") /\ UNCHANGED <<mutexVars, named, parent, move_child>>
  BY DEF fork_start, At
<1>2. /\ curr_task \in Tasks /\ state[curr_task] \in {"RUNNING", "READY"}
      /\ named[curr_task] /\ pc[curr_task] # "gone"
  BY <1>1, Runner
<1>3. PICK c \in Slots : c = child[curr_task]
  BY <1>1, <1>2 DEF LifeInv, ForkSlots
<1>4. named[c] /\ state[c] = "CREATED" /\ parent[c] = curr_task /\ c \in Tasks /\ c # curr_task
  BY <1>1, <1>2, <1>3 DEF LifeInv, ForkSlots, Slots
<1>5. task_start(c)
  BY <1>1, <1>3
<1>6. /\ Queued' = Queued \cup {c}
      /\ \A t \in Tasks : state'[t] = IF t = c THEN "READY" ELSE state[t]
  BY <1>4, <1>5, StartInv DEF LifeInv, MutexCore
<1>7. MutexCore'
  <2>1. SchedNext
    BY <1>4, <1>5 DEF SchedNext
  <2> QED BY <1>1, <2>1, SchedStepInv DEF LifeInv
<1>8. wait_list' = wait_list /\ calls' = calls
  BY <1>1 DEF mutexVars
<1>9. OnlyTable'
  BY <1>8 DEF LifeInv, OnlyTable
<1>10. OnList' = OnList \cup {c}
  BY <1>6, <1>8 DEF OnList
<1>11. Placed'
  BY <1>6, <1>10 DEF LifeInv, Placed
<1>12. child \in [Tasks -> Slots \cup {NoTask}] /\ pc \in [Tasks -> Steps]
  BY DEF LifeInv, LifeTypeOK
<1>13. \A t \in Tasks : pc'[t] = IF t = curr_task THEN "user" ELSE pc[t]
  BY <1>1, <1>12 DEF Goto
<1>14. LifeTypeOK'
  BY <1>1, <1>7, <1>12 DEF LifeInv, LifeTypeOK, MutexCore, Goto, Steps
<1>15. CallsMatch'
  BY <1>1, <1>8, <1>13 DEF LifeInv, CallsMatch, InSection
<1>16. pc[c] = "user"
  BY <1>4 DEF LifeInv, WhereStates
<1>17. WhereStates'
  BY <1>1, <1>2, <1>4, <1>6, <1>13, <1>16 DEF LifeInv, WhereStates
<1>18. ForkSlots'
  <2> SUFFICES ASSUME NEW s \in Tasks
               PROVE  /\ pc'[s] \in Forking => child'[s] \in Slots /\ ~named[child'[s]]
                      /\ pc'[s] = "fork_start" =>
                            /\ child'[s] \in Slots /\ named[child'[s]]
                            /\ state'[child'[s]] = "CREATED" /\ parent[child'[s]] = s
                      /\ \A t \in Tasks : pc'[s] \in Forking /\ pc'[t] \in Forking => s = t
    BY <1>1 DEF ForkSlots
  <2>1. CASE s = curr_task
    BY <1>13, <2>1 DEF Forking
  <2>2. CASE s # curr_task
    <3>1. pc'[s] = pc[s] /\ child'[s] = child[s]
      BY <1>1, <1>12, <1>13, <2>2
    <3>2. pc[s] \in Forking => child[s] \in Slots /\ ~named[child[s]]
      BY DEF LifeInv, ForkSlots
    <3>3. \A t \in Tasks : pc[s] \in Forking /\ pc'[t] \in Forking => s = t
      BY <1>13 DEF LifeInv, ForkSlots, Forking
    <3>4. ASSUME pc[s] = "fork_start"
          PROVE  /\ child[s] \in Slots /\ named[child[s]]
                 /\ state'[child[s]] = "CREATED" /\ parent[child[s]] = s
      <4>1. /\ child[s] \in Slots /\ named[child[s]]
            /\ state[child[s]] = "CREATED" /\ parent[child[s]] = s
        BY <3>4 DEF LifeInv, ForkSlots
      <4> QED BY <1>4, <1>6, <2>2, <4>1 DEF Slots
    <3> QED BY <3>1, <3>2, <3>3, <3>4
  <2> QED BY <2>1, <2>2
<1>19. FirstStays'
  BY <1>1, <1>13, SchedAssumption DEF LifeInv, FirstStays, Leaving
<1>20. ParentCanReap'
  BY <1>1, <1>13 DEF LifeInv, ParentCanReap, Slots
<1> QED BY <1>7, <1>9, <1>11, <1>14, <1>15, <1>17, <1>18, <1>19, <1>20 DEF LifeInv
-----------------------------------------------------------------------------
(* wait.                                                                   *)

LEMMA WaitScanInv == ASSUME LifeInv, wait_scan PROVE LifeInv'
<1>1. /\ Running(curr_task) /\ pc[curr_task] = "wait_scan"
      /\ UNCHANGED <<ready_list, sleep_list, curr_task, sleep_ticks, slice_ticks, mutexVars>>
      /\ UNCHANGED <<child, move_child>>
  BY DEF wait_scan, At
<1>2. /\ curr_task \in Tasks /\ state[curr_task] \in {"RUNNING", "READY"}
      /\ named[curr_task] /\ pc[curr_task] # "gone"
  BY <1>1, Runner
<1>3. /\ pc \in [Tasks -> Steps] /\ named \in [Tasks -> BOOLEAN]
      /\ parent \in [Tasks -> Tasks \cup {NoTask}] /\ state \in [AllTasks -> TaskStates]
  BY DEF LifeInv, LifeTypeOK, MutexCore, SchedInv, SchedTypeOK
<1>4. calls' = calls /\ wait_list' = wait_list
  BY <1>1 DEF mutexVars
<1>5. CASE Goto("wait_none") /\ UNCHANGED <<named, parent, state>>
  <2>1. UNCHANGED schedVars
    BY <1>1, <1>5 DEF schedVars
  <2>2. MutexCore'
    BY <1>1, <2>1, SchedStepInv DEF LifeInv
  <2>3. OnlyTable' /\ Placed' /\ SameStates
    BY <1>1, <1>4, <1>5 DEF LifeInv, OnlyTable, Placed, SameStates, OnList, Queued
  <2>4. /\ "wait_none" \in Steps \ {"gone", "fork_start"} /\ "wait_none" \notin Forking
        /\ "wait_none" \notin Leaving
    BY DEF Steps, Forking, Leaving
  <2>5. WhereStates' /\ ForkSlots' /\ FirstStays' /\ ParentCanReap'
    BY <1>1, <1>5, <2>3, <2>4, GoesOn
  <2>6. LifeTypeOK'
    BY <1>1, <1>3, <1>5, <2>2, <2>4 DEF LifeInv, LifeTypeOK, MutexCore, Goto
  <2>7. CallsMatch'
    BY <1>1, <1>2, <1>3, <1>4, <1>5 DEF LifeInv, CallsMatch, InSection, Goto
  <2> QED BY <2>2, <2>3, <2>5, <2>6, <2>7 DEF LifeInv
<1>6. ASSUME NEW z \in Zombies(curr_task),
             named' = [named EXCEPT ![z] = FALSE],
             parent' = [parent EXCEPT ![z] = NoTask],
             state' = [state EXCEPT ![z] = "CREATED"],
             Goto("wait_reaped")
      PROVE  LifeInv'
  <2>1. z \in Slots /\ z \in Tasks /\ z # First /\ parent[z] = curr_task /\ state[z] = "ZOMBIE"
        /\ z # curr_task /\ z \in AllTasks
    BY <1>2, <1>6 DEF Zombies, Children, Slots, AllTasks
  <2>2. pc[z] = "gone" /\ z \notin OnList
    BY <2>1 DEF LifeInv, WhereStates, Placed
  <2>3. MutexCore' /\ OnlyTable' /\ Placed'
    BY <1>1, <1>6, <2>1, <2>2, SlotCleared
  <2>4. /\ \A t \in Tasks : pc'[t] = IF t = curr_task THEN "wait_reaped" ELSE pc[t]
        /\ \A t \in Tasks : named'[t] = (t # z /\ named[t])
        /\ \A t \in Tasks : parent'[t] = IF t = z THEN NoTask ELSE parent[t]
        /\ \A t \in Tasks : state'[t] = IF t = z THEN "CREATED" ELSE state[t]
    BY <1>2, <1>3, <1>6, <2>1 DEF Goto, AllTasks
  <2>5. LifeTypeOK'
    BY <1>1, <1>3, <1>6, <2>3 DEF LifeInv, LifeTypeOK, MutexCore, Goto, Steps
  <2>6. CallsMatch'
    BY <1>1, <1>4, <2>4 DEF LifeInv, CallsMatch, InSection
  <2>7. WhereStates'
    <3> SUFFICES ASSUME NEW t \in Tasks
                 PROVE  /\ state'[t] = "WAITING" => pc'[t] = "wait_lock"
                        /\ pc'[t] = "gone" <=> state'[t] = "ZOMBIE" \/ ~named'[t]
                        /\ ~named'[t] => state'[t] = "CREATED" /\ parent'[t] = NoTask
                        /\ state'[t] = "CREATED" => ~named'[t] \/ pc'[t] = "user"
      BY DEF WhereStates
    <3>1. CASE t = z
      BY <2>1, <2>2, <2>4, <3>1
    <3>2. CASE t = curr_task
      BY <1>2, <2>1, <2>4, <3>2
    <3>3. CASE t # z /\ t # curr_task
      BY <2>4, <3>3 DEF LifeInv, WhereStates
    <3> QED BY <3>1, <3>2, <3>3
  <2>8. ForkSlots'
    <3> SUFFICES ASSUME NEW s \in Tasks
                 PROVE  /\ pc'[s] \in Forking => child[s] \in Slots /\ ~named'[child[s]]
                        /\ pc'[s] = "fork_start" =>
                              /\ child[s] \in Slots /\ named'[child[s]]
                              /\ state'[child[s]] = "CREATED" /\ parent'[child[s]] = s
                        /\ \A t \in Tasks : pc'[s] \in Forking /\ pc'[t] \in Forking => s = t
      BY <1>1 DEF ForkSlots
    <3>1. pc'[s] \in Forking => pc[s] \in Forking
      BY <2>4 DEF Forking
    <3>2. pc[s] \in Forking => child[s] \in Slots /\ ~named'[child[s]]
      BY <2>4 DEF LifeInv, ForkSlots, Slots
    <3>3. ASSUME pc'[s] = "fork_start"
          PROVE  /\ child[s] \in Slots /\ named'[child[s]]
                 /\ state'[child[s]] = "CREATED" /\ parent'[child[s]] = s
      <4>1. pc[s] = "fork_start"
        BY <2>4, <3>3
      <4>2. /\ child[s] \in Slots /\ named[child[s]]
            /\ state[child[s]] = "CREATED" /\ parent[child[s]] = s
        BY <4>1 DEF LifeInv, ForkSlots
      <4> QED BY <2>1, <2>4, <4>2 DEF Slots
    <3>4. \A t \in Tasks : pc'[s] \in Forking /\ pc'[t] \in Forking => s = t
      BY <2>4 DEF LifeInv, ForkSlots, Forking
    <3> QED BY <3>1, <3>2, <3>3, <3>4
  <2>9. FirstStays'
    BY <2>1, <2>4, SchedAssumption DEF LifeInv, FirstStays, Leaving
  <2>10. ParentCanReap'
    <3> SUFFICES ASSUME NEW s \in Slots, named'[s], parent'[s] # First
                 PROVE  parent'[s] \in Slots /\ named'[parent'[s]] /\ pc'[parent'[s]] \notin Leaving
      BY DEF ParentCanReap, Leaving
    <3>1. s # z /\ named[s] /\ parent'[s] = parent[s]
      BY <2>4 DEF Slots
    <3>2. parent[s] \in Slots /\ named[parent[s]] /\ pc[parent[s]] \notin Leaving
      BY <3>1 DEF LifeInv, ParentCanReap, Leaving
    <3>3. parent[s] # z
      BY <2>2, <3>2 DEF Leaving
    <3> QED BY <2>4, <3>1, <3>2, <3>3 DEF Slots, Leaving
  <2> QED BY <2>3, <2>5, <2>6, <2>7, <2>8, <2>9, <2>10 DEF LifeInv
<1> QED BY <1>5, <1>6 DEF wait_scan

LEMMA WaitBlockInv == ASSUME LifeInv, wait_block PROVE LifeInv'
<1> DEFINE st == [state EXCEPT ![curr_task] = "WAITING"]
<1>1. /\ Running(curr_task) /\ pc[curr_task] = "wait_block" /\ BlockCurrent(st) /\ Goto("wait_lock")
      /\ UNCHANGED <<sleep_list, sleep_ticks, slice_ticks, mutexVars, named, parent, child, move_child>>
  BY DEF wait_block, At
<1>2. /\ curr_task \in Tasks /\ curr_task \in AllTasks /\ curr_task \in Queued
      /\ \A m \in Mutexes : curr_task \notin Range(wait_list[m])
      /\ named[curr_task] /\ state[curr_task] \in {"RUNNING", "READY"}
  BY <1>1, Runner DEF AllTasks
<1>3. /\ pc \in [Tasks -> Steps] /\ state \in [AllTasks -> TaskStates] /\ SchedInv
  BY DEF LifeInv, LifeTypeOK, MutexCore, SchedInv, SchedTypeOK
<1>4. /\ st \in [AllTasks -> TaskStates]
      /\ \A t \in Tasks : st[t] = IF t = curr_task THEN "WAITING" ELSE state[t]
  BY <1>3 DEF TaskStates, AllTasks
<1> HIDE DEF st
<1>5. /\ ready_list' \in Seq(Tasks) /\ IsInjective(ready_list')
      /\ Range(ready_list') = Range(ready_list) \ {curr_task}
      /\ curr_task' \in AllTasks /\ state' \in [AllTasks -> TaskStates]
      /\ RunsHead' /\ OthersAreReady'
      /\ \A t \in Tasks : t \notin Range(ready_list') => state'[t] = st[t]
      /\ \A t \in Range(ready_list') : state'[t] \in {"RUNNING", "READY"}
  <2>1. \A t \in Tasks \ {curr_task} : st[t] = state[t]
    BY <1>4
  <2> QED BY <1>1, <1>3, <1>4, <2>1, BlockCurrentKeeps
<1>6. curr_task \in Range(ready_list) /\ curr_task \notin Range(sleep_list)
  BY <1>1, <1>3, BlockCurrentList DEF SchedInv, RunNodeLinkedOnce
<1>7. Queued' = Queued \ {curr_task}
  BY <1>1, <1>5, <1>6 DEF Queued
<1>8. \A t \in Range(ready_list') : state[t] = "READY"
  BY <1>3, <1>5 DEF SchedInv, OthersAreReady
<1>9. state'[curr_task] = "WAITING"
  BY <1>2, <1>4, <1>5
<1>10. \A t \in Tasks \ {curr_task} :
         t \in Range(ready_list') \/ state'[t] = state[t]
  BY <1>4, <1>5
<1>11. SleepersAreCounted'
  <2>1. \A t \in Tasks : state'[t] = "SLEEP" <=> state[t] = "SLEEP"
    BY <1>2, <1>5, <1>8, <1>9, <1>10
  <2> QED BY <1>1, <1>3, <2>1 DEF SchedInv, SleepersAreCounted
<1>12. SchedInv'
  BY <1>1, <1>3, <1>5, <1>11 DEF SchedInv, SchedTypeOK, RunNodeLinkedOnce
<1>13. MutexCore'
  <2>1. \A m \in Mutexes : \A t \in Range(wait_list[m]) : t \notin Queued' /\ state'[t] # "CREATED"
    <3> SUFFICES ASSUME NEW m \in Mutexes, NEW t \in Range(wait_list[m])
                 PROVE  t \notin Queued' /\ state'[t] # "CREATED"
      OBVIOUS
    <3>1. t \in Tasks /\ t \notin Queued /\ t # curr_task
      BY <1>2, Waiting DEF LifeInv
    <3>2. state'[t] = state[t]
      BY <1>5, <1>10, <3>1 DEF Queued
    <3> QED BY <1>7, <3>1, <3>2 DEF LifeInv, MutexCore, WaitersAskedOnce
  <2> QED BY <1>1, <1>12, <2>1, CoreKept DEF LifeInv
<1>14. calls' = calls /\ wait_list' = wait_list
  BY <1>1 DEF mutexVars
<1>15. OnlyTable'
  BY <1>14 DEF LifeInv, OnlyTable
<1>16. OnList' = OnList \ {curr_task}
  BY <1>2, <1>7, <1>14 DEF OnList
<1>17. \A t \in Tasks \ {curr_task} : /\ state'[t] = "CREATED" <=> state[t] = "CREATED"
                                      /\ state'[t] = "WAITING" <=> state[t] = "WAITING"
                                      /\ state'[t] = "ZOMBIE" <=> state[t] = "ZOMBIE"
  BY <1>5, <1>8, <1>10
<1>18. Placed'
  BY <1>9, <1>16, <1>17 DEF LifeInv, Placed
<1>19. \A t \in Tasks : pc'[t] = IF t = curr_task THEN "wait_lock" ELSE pc[t]
  BY <1>1, <1>3 DEF Goto
<1>20. LifeTypeOK'
  BY <1>1, <1>3, <1>13 DEF LifeInv, LifeTypeOK, MutexCore, Goto, Steps
<1>21. CallsMatch'
  BY <1>1, <1>14, <1>19 DEF LifeInv, CallsMatch, InSection
<1>22. WhereStates'
  BY <1>1, <1>2, <1>9, <1>17, <1>19 DEF LifeInv, WhereStates
<1>23. ForkSlots'
  <2> SUFFICES ASSUME NEW s \in Tasks
               PROVE  /\ pc'[s] \in Forking => child[s] \in Slots /\ ~named[child[s]]
                      /\ pc'[s] = "fork_start" =>
                            /\ child[s] \in Slots /\ named[child[s]]
                            /\ state'[child[s]] = "CREATED" /\ parent[child[s]] = s
                      /\ \A t \in Tasks : pc'[s] \in Forking /\ pc'[t] \in Forking => s = t
    BY <1>1 DEF ForkSlots
  <2>1. \A t \in Tasks : pc'[t] \in Forking => pc[t] \in Forking
    BY <1>19 DEF Forking
  <2>2. ASSUME pc'[s] = "fork_start"
        PROVE  /\ child[s] \in Slots /\ named[child[s]]
               /\ state'[child[s]] = "CREATED" /\ parent[child[s]] = s
    <3>1. pc[s] = "fork_start"
      BY <1>19, <2>2
    <3>2. /\ child[s] \in Slots /\ named[child[s]]
          /\ state[child[s]] = "CREATED" /\ parent[child[s]] = s
      BY <3>1 DEF LifeInv, ForkSlots
    <3>3. child[s] # curr_task
      BY <1>3, <1>6, <3>2 DEF SchedInv, OthersAreReady, Running, Slots
    <3> QED BY <1>17, <3>2, <3>3 DEF Slots
  <2> QED BY <2>1, <2>2 DEF LifeInv, ForkSlots
<1>24. FirstStays'
  BY <1>1, <1>19, SchedAssumption DEF LifeInv, FirstStays, Leaving
<1>25. ParentCanReap'
  BY <1>1, <1>19 DEF LifeInv, ParentCanReap, Slots
<1> QED BY <1>13, <1>15, <1>18, <1>20, <1>21, <1>22, <1>23, <1>24, <1>25 DEF LifeInv
-----------------------------------------------------------------------------
(* exit.                                                                   *)

LEMMA ExitScanInv == ASSUME LifeInv, exit_scan PROVE LifeInv'
<1>1. /\ Running(curr_task) /\ pc[curr_task] = "exit_scan" /\ Goto("exit_unlock")
      /\ move_child' = [move_child EXCEPT ![curr_task] = Zombies(curr_task) # {}]
      /\ parent' = [c \in Tasks |-> NewParent(c)]
      /\ UNCHANGED vars /\ UNCHANGED <<named, child>>
  BY DEF exit_scan, At
<1>2. /\ curr_task \in Tasks /\ state[curr_task] \in {"RUNNING", "READY"}
      /\ named[curr_task] /\ curr_task # NoTask
  BY <1>1, Runner
<1>3. /\ pc \in [Tasks -> Steps] /\ parent \in [Tasks -> Tasks \cup {NoTask}]
  BY DEF LifeInv, LifeTypeOK
<1>4. /\ UNCHANGED schedVars /\ UNCHANGED mutexVars /\ state' = state /\ calls' = calls
      /\ wait_list' = wait_list /\ ready_list' = ready_list /\ sleep_list' = sleep_list
  BY <1>1 DEF vars, schedVars, mutexVars
<1>5. MutexCore'
  BY <1>4, SchedStepInv DEF LifeInv
<1>6. OnlyTable' /\ Placed'
  BY <1>4 DEF LifeInv, OnlyTable, Placed, OnList, Queued
<1>7. \A t \in Tasks : pc'[t] = IF t = curr_task THEN "exit_unlock" ELSE pc[t]
  BY <1>1, <1>3 DEF Goto
<1>8. \A t \in Tasks : parent'[t] = IF t \in Slots /\ parent[t] = curr_task THEN First ELSE parent[t]
  BY <1>1 DEF NewParent, Children
<1>9. LifeTypeOK'
  <2>1. parent' \in [Tasks -> Tasks \cup {NoTask}]
    BY <1>1, <1>3, SchedAssumption DEF NewParent
  <2>2. move_child' \in [Tasks -> BOOLEAN]
    BY <1>1 DEF LifeInv, LifeTypeOK
  <2> QED BY <1>1, <1>3, <1>5, <2>1, <2>2 DEF LifeInv, LifeTypeOK, MutexCore, Goto, Steps
<1>10. CallsMatch'
  BY <1>1, <1>4, <1>7 DEF LifeInv, CallsMatch, InSection
<1>11. WhereStates'
  BY <1>1, <1>2, <1>4, <1>7, <1>8 DEF LifeInv, WhereStates
<1>12. ForkSlots'
  <2> SUFFICES ASSUME NEW s \in Tasks
               PROVE  /\ pc'[s] \in Forking => child[s] \in Slots /\ ~named[child[s]]
                      /\ pc'[s] = "fork_start" =>
                            /\ child[s] \in Slots /\ named[child[s]]
                            /\ state[child[s]] = "CREATED" /\ parent'[child[s]] = s
                      /\ \A t \in Tasks : pc'[s] \in Forking /\ pc'[t] \in Forking => s = t
    BY <1>1, <1>4 DEF ForkSlots
  <2>1. \A t \in Tasks : pc'[t] \in Forking => pc[t] \in Forking
    BY <1>7 DEF Forking
  <2>2. ASSUME pc'[s] = "fork_start"
        PROVE  /\ child[s] \in Slots /\ named[child[s]]
               /\ state[child[s]] = "CREATED" /\ parent'[child[s]] = s
    <3>1. pc[s] = "fork_start" /\ s # curr_task
      BY <1>7, <2>2
    <3>2. /\ child[s] \in Slots /\ named[child[s]]
          /\ state[child[s]] = "CREATED" /\ parent[child[s]] = s
      BY <3>1 DEF LifeInv, ForkSlots
    <3> QED BY <1>8, <3>1, <3>2 DEF Slots
  <2> QED BY <2>1, <2>2 DEF LifeInv, ForkSlots
<1>13. FirstStays'
  BY <1>1, <1>7, <1>8, SchedAssumption DEF LifeInv, FirstStays, Leaving, Slots
<1>14. ParentCanReap'
  <2> SUFFICES ASSUME NEW c \in Slots, named[c], parent'[c] # First
               PROVE  parent'[c] \in Slots /\ named[parent'[c]] /\ pc'[parent'[c]] \notin Leaving
    BY <1>1 DEF ParentCanReap, Leaving
  <2>1. parent'[c] = parent[c] /\ parent[c] # curr_task
    BY <1>8 DEF Slots
  <2>2. parent[c] \in Slots /\ named[parent[c]] /\ pc[parent[c]] \notin Leaving
    BY <2>1 DEF LifeInv, ParentCanReap, Leaving
  <2> QED BY <1>7, <2>1, <2>2 DEF Slots
<1> QED BY <1>5, <1>6, <1>9, <1>10, <1>11, <1>12, <1>13, <1>14 DEF LifeInv

\* A task is queued if this exit wakes it.
LEMMA WakeOne ==
  ASSUME NEW ready \in Seq(Tasks), NEW t \in Tasks, NEW W, IsInjective(ready),
         t \in W => t \notin Range(ready)
  PROVE  LET woken == IF t \in W THEN SetReady(ready, t) ELSE ready IN
         woken \in Seq(Tasks) /\ IsInjective(woken) /\ Range(woken) = Range(ready) \cup ({t} \cap W)
<1>1. SetReady(ready, t) = Append(ready, t)
  BY SchedAssumption DEF SetReady
<1>2. CASE t \in W
  <2>1. /\ Append(ready, t) \in Seq(Tasks) /\ IsInjective(Append(ready, t))
        /\ Range(Append(ready, t)) = Range(ready) \cup {t}
    BY <1>2, AppendList
  <2> QED BY <1>1, <1>2, <2>1
<1>3. CASE t \notin W
  BY <1>3
<1> QED BY <1>2, <1>3

\* The ready list that an exit leaves: the tasks it wakes are queued behind the others, and
\* the exiting task is off it.
LEMMA ExitList ==
  ASSUME LifeInv, exit_final
  PROVE  \E list \in Seq(Tasks) :
           /\ IsInjective(list)
           /\ Range(list) = (Range(ready_list) \cup WokenByExit) \ {curr_task}
           /\ Dispatch(list, [MarkReady(state, WokenByExit) EXCEPT ![curr_task] = "ZOMBIE"])
<1> DEFINE W == WokenByExit
           up == parent[curr_task]
           Wake(ready, t) == IF t \in W THEN SetReady(ready, t) ELSE ready
           one == IF up = First THEN ready_list ELSE Wake(ready_list, First)
           two == Wake(one, up)
<1>1. Running(curr_task) /\ pc[curr_task] = "exit_final"
  BY DEF exit_final, At
<1>2. /\ curr_task \in Tasks /\ curr_task # Idle /\ curr_task \in Queued /\ named[curr_task]
  BY <1>1, Runner
<1>3. First \in Tasks
  BY SchedAssumption
<1>4. up \in Tasks
  <2>1. curr_task # First
    BY <1>1 DEF LifeInv, FirstStays, Leaving
  <2> QED BY <1>2, <1>3, <2>1 DEF LifeInv, ParentCanReap, Slots
<1>5. \A t \in W : t \in Tasks /\ t \notin Range(ready_list) /\ (t = up \/ t = First)
  BY DEF WokenByExit, LifeInv, Placed, OnList, Queued
<1>6. ready_list \in Seq(Tasks) /\ IsInjective(ready_list) /\ curr_task \in Range(ready_list)
  BY <1>1, BlockCurrentList DEF LifeInv, MutexCore, SchedInv, SchedTypeOK, RunNodeLinkedOnce
<1>7. Dispatch(SetBlock(two, curr_task), [MarkReady(state, W) EXCEPT ![curr_task] = "ZOMBIE"])
  BY DEF exit_final
<1> HIDE DEF W, up
<1>8. /\ one \in Seq(Tasks) /\ IsInjective(one)
      /\ Range(one) = IF up = First THEN Range(ready_list) ELSE Range(ready_list) \cup ({First} \cap W)
  <2>1. CASE up = First
    BY <1>6, <2>1
  <2>2. CASE up # First
    <3>1. /\ Wake(ready_list, First) \in Seq(Tasks) /\ IsInjective(Wake(ready_list, First))
          /\ Range(Wake(ready_list, First)) = Range(ready_list) \cup ({First} \cap W)
      BY <1>3, <1>5, <1>6, WakeOne
    <3> QED BY <2>2, <3>1
  <2> QED BY <2>1, <2>2
<1> HIDE DEF one
<1>9. up \in W => up \notin Range(one)
  BY <1>5, <1>8
<1>10. two \in Seq(Tasks) /\ IsInjective(two) /\ Range(two) = Range(one) \cup ({up} \cap W)
  BY <1>4, <1>8, <1>9, WakeOne
<1> HIDE DEF two
<1>11. Range(two) = Range(ready_list) \cup W
  BY <1>5, <1>8, <1>10
<1>12. SetBlock(two, curr_task) = ListRemove(two, curr_task)
  BY <1>2 DEF SetBlock
<1>13. /\ ListRemove(two, curr_task) \in Seq(Tasks) /\ IsInjective(ListRemove(two, curr_task))
       /\ Range(ListRemove(two, curr_task)) = Range(two) \ {curr_task}
  BY <1>6, <1>10, <1>11, RemoveList
<1> QED BY <1>7, <1>11, <1>12, <1>13 DEF W

LEMMA ExitFinalInv == ASSUME LifeInv, exit_final PROVE LifeInv'
<1> DEFINE st == [MarkReady(state, WokenByExit) EXCEPT ![curr_task] = "ZOMBIE"]
<1>1. /\ Running(curr_task) /\ pc[curr_task] = "exit_final" /\ Goto("gone")
      /\ move_child' = [move_child EXCEPT ![curr_task] = FALSE]
      /\ UNCHANGED <<sleep_list, sleep_ticks, slice_ticks, mutexVars, named, parent, child>>
  BY DEF exit_final, At
<1>2. /\ curr_task \in Tasks /\ curr_task \in AllTasks /\ curr_task \in Queued
      /\ \A m \in Mutexes : curr_task \notin Range(wait_list[m])
      /\ named[curr_task] /\ state[curr_task] \in {"RUNNING", "READY"}
  BY <1>1, Runner DEF AllTasks
<1>3. /\ pc \in [Tasks -> Steps] /\ state \in [AllTasks -> TaskStates] /\ SchedInv
  BY DEF LifeInv, LifeTypeOK, MutexCore, SchedInv, SchedTypeOK
<1>4. PICK W : W = WokenByExit
  OBVIOUS
<1>5. \A t \in W : t \in Tasks /\ state[t] = "WAITING" /\ t \notin OnList /\ t # curr_task
  BY <1>2, <1>4 DEF WokenByExit, LifeInv, Placed
<1>6. PICK list \in Seq(Tasks) :
         /\ IsInjective(list)
         /\ Range(list) = (Range(ready_list) \cup W) \ {curr_task}
         /\ Dispatch(list, st)
  BY <1>4, ExitList
<1>7. /\ st \in [AllTasks -> TaskStates] /\ st[curr_task] = "ZOMBIE"
      /\ \A t \in Tasks \ {curr_task} : st[t] = IF t \in W THEN "READY" ELSE state[t]
  <2>1. MarkReady(state, WokenByExit) \in [AllTasks -> TaskStates]
    BY <1>3 DEF MarkReady, TaskStates
  <2>2. "ZOMBIE" \in TaskStates /\ Idle \notin Tasks /\ Tasks \subseteq AllTasks
    BY SchedAssumption DEF TaskStates, AllTasks
  <2> QED BY <1>2, <1>4, <2>1, <2>2 DEF MarkReady
<1> HIDE DEF st
<1>8. Range(ready_list) \subseteq Tasks /\ Range(list) \subseteq Tasks
  BY <1>3, <1>6 DEF SchedInv, SchedTypeOK, Range
<1>9. \A t \in Range(ready_list) \ {curr_task} : state[t] = "READY"
  BY <1>3 DEF SchedInv, OthersAreReady
<1>10. /\ ready_list' = list /\ curr_task' \in AllTasks /\ state' \in [AllTasks -> TaskStates]
       /\ RunsHead' /\ OthersAreReady'
       /\ \A t \in Tasks : t \notin Range(list) => state'[t] = st[t]
       /\ \A t \in Range(list) : state'[t] \in {"RUNNING", "READY"}
  <2>1. \A t \in Range(list) : t # curr_task /\ st[t] = "READY"
    BY <1>6, <1>7, <1>8, <1>9
  <2>2. curr_task \in AllTasks
    BY <1>2
  <2> QED BY <1>6, <1>7, <2>1, <2>2, DispatchFollowsHead
<1>11. curr_task \in Range(ready_list) /\ curr_task \notin Range(sleep_list)
  BY <1>1, <1>3, BlockCurrentList DEF SchedInv, RunNodeLinkedOnce
<1>12. Queued' = (Queued \cup W) \ {curr_task}
  BY <1>1, <1>6, <1>10, <1>11 DEF Queued
<1>13. state'[curr_task] = "ZOMBIE"
  BY <1>2, <1>6, <1>7, <1>10
<1>14. \A t \in W : state'[t] \in {"RUNNING", "READY"}
  BY <1>5, <1>6, <1>10
<1>15. \A t \in Tasks \ ({curr_task} \cup W) :
         \/ state[t] = "READY" /\ state'[t] \in {"RUNNING", "READY"}
         \/ t \notin Range(ready_list') /\ state'[t] = state[t]
  BY <1>6, <1>7, <1>9, <1>10
<1>16. SleepersAreCounted'
  <2>1. \A t \in Tasks : state'[t] = "SLEEP" <=> state[t] = "SLEEP"
    BY <1>2, <1>5, <1>13, <1>14, <1>15
  <2> QED BY <1>1, <1>3, <2>1 DEF SchedInv, SleepersAreCounted
<1>17. RunNodeLinkedOnce'
  <2>1. Range(ready_list') \cap Range(sleep_list') = {}
    BY <1>1, <1>3, <1>5, <1>6, <1>10 DEF SchedInv, RunNodeLinkedOnce, OnList, Queued
  <2> QED BY <1>1, <1>3, <1>6, <1>10, <2>1 DEF SchedInv, RunNodeLinkedOnce
<1>18. SchedInv'
  BY <1>1, <1>3, <1>6, <1>10, <1>16, <1>17 DEF SchedInv, SchedTypeOK
<1>19. MutexCore'
  <2>1. \A m \in Mutexes : \A t \in Range(wait_list[m]) : t \notin Queued' /\ state'[t] # "CREATED"
    <3> SUFFICES ASSUME NEW m \in Mutexes, NEW t \in Range(wait_list[m])
                 PROVE  t \notin Queued' /\ state'[t] # "CREATED"
      OBVIOUS
    <3>1. t \in Tasks /\ t \notin Queued /\ t # curr_task
      BY <1>2, Waiting DEF LifeInv
    <3>2. t \notin W
      BY <1>5 DEF OnList
    <3>3. state'[t] # "CREATED"
      BY <1>15, <3>1, <3>2 DEF LifeInv, MutexCore, WaitersAskedOnce
    <3> QED BY <1>12, <3>1, <3>2, <3>3
  <2> QED BY <1>1, <1>18, <2>1, CoreKept DEF LifeInv
<1>20. calls' = calls /\ wait_list' = wait_list
  BY <1>1 DEF mutexVars
<1>21. OnlyTable'
  BY <1>20 DEF LifeInv, OnlyTable
<1>22. OnList' = (OnList \cup W) \ {curr_task}
  BY <1>2, <1>12, <1>20 DEF OnList
<1>23. \A t \in Tasks \ {curr_task} : /\ state'[t] = "CREATED" <=> state[t] = "CREATED"
                                      /\ state'[t] = "ZOMBIE" <=> state[t] = "ZOMBIE"
                                      /\ state'[t] = "WAITING" <=> state[t] = "WAITING" /\ t \notin W
  BY <1>5, <1>14, <1>15
<1>24. Placed'
  BY <1>5, <1>13, <1>22, <1>23 DEF LifeInv, Placed
<1>25. \A t \in Tasks : pc'[t] = IF t = curr_task THEN "gone" ELSE pc[t]
  BY <1>1, <1>3 DEF Goto
<1>26. LifeTypeOK'
  <2>1. move_child' \in [Tasks -> BOOLEAN] /\ pc' \in [Tasks -> Steps]
    BY <1>1, <1>3 DEF LifeInv, LifeTypeOK, Goto, Steps
  <2> QED BY <1>1, <1>19, <2>1 DEF LifeInv, LifeTypeOK, MutexCore
<1>27. CallsMatch'
  BY <1>1, <1>20, <1>25 DEF LifeInv, CallsMatch, InSection
<1>28. WhereStates'
  BY <1>1, <1>2, <1>13, <1>23, <1>25 DEF LifeInv, WhereStates
<1>29. ForkSlots'
  <2> SUFFICES ASSUME NEW s \in Tasks
               PROVE  /\ pc'[s] \in Forking => child[s] \in Slots /\ ~named[child[s]]
                      /\ pc'[s] = "fork_start" =>
                            /\ child[s] \in Slots /\ named[child[s]]
                            /\ state'[child[s]] = "CREATED" /\ parent[child[s]] = s
                      /\ \A t \in Tasks : pc'[s] \in Forking /\ pc'[t] \in Forking => s = t
    BY <1>1 DEF ForkSlots
  <2>1. \A t \in Tasks : pc'[t] \in Forking => pc[t] \in Forking
    BY <1>25 DEF Forking
  <2>2. ASSUME pc'[s] = "fork_start"
        PROVE  /\ child[s] \in Slots /\ named[child[s]]
               /\ state'[child[s]] = "CREATED" /\ parent[child[s]] = s
    <3>1. pc[s] = "fork_start"
      BY <1>25, <2>2
    <3>2. /\ child[s] \in Slots /\ named[child[s]]
          /\ state[child[s]] = "CREATED" /\ parent[child[s]] = s
      BY <3>1 DEF LifeInv, ForkSlots
    <3>3. child[s] # curr_task
      BY <1>2, <3>2
    <3> QED BY <1>23, <3>2, <3>3 DEF Slots
  <2> QED BY <2>1, <2>2 DEF LifeInv, ForkSlots
<1>30. FirstStays'
  <2>1. curr_task # First
    BY <1>1 DEF LifeInv, FirstStays, Leaving
  <2> QED BY <1>1, <1>25, <2>1, SchedAssumption DEF LifeInv, FirstStays
<1>31. ParentCanReap'
  BY <1>1, <1>25 DEF LifeInv, ParentCanReap, Slots
<1> QED BY <1>19, <1>21, <1>24, <1>26, <1>27, <1>28, <1>29, <1>30, <1>31 DEF LifeInv
-----------------------------------------------------------------------------
\* The scheduler runs other processes: nothing happens to the table of processes.
LEMMA UserStepInv ==
  ASSUME LifeInv, UserStep \/ UNCHANGED allVars PROVE LifeInv'
<1>1. UNCHANGED <<mutexVars, lifeVars>>
  BY DEF UserStep, allVars, vars
<1>2. SchedInv' /\ QueuesKept /\ Queued' = Queued
  <2>1. ASSUME UNCHANGED schedVars PROVE QueuesKept /\ Queued' = Queued /\ SchedInv'
    BY <2>1, StutterInv DEF LifeInv, MutexCore, schedVars, Queued
  <2> QED BY <2>1, YieldInv, MsleepInv, TickInv DEF UserStep, allVars, vars, LifeInv, MutexCore
<1>3. MutexCore'
  <2>1. [SchedNext]_schedVars
    BY DEF UserStep, allVars, vars, SchedNext
  <2> QED BY <1>1, <2>1, SchedStepInv DEF LifeInv
<1>4. /\ calls' = calls /\ wait_list' = wait_list
      /\ UNCHANGED <<pc, named, parent, child, move_child>>
  BY <1>1 DEF mutexVars, lifeVars
<1>5. PlacesKept
  BY <1>2, <1>4 DEF PlacesKept, QueuesKept, OnList
<1>6. Placed' /\ SameStates
  BY <1>2, <1>5, PlacedKept DEF LifeInv
<1>7. OnlyTable' /\ CallsMatch' /\ LifeTypeOK'
  BY <1>3, <1>4 DEF LifeInv, OnlyTable, CallsMatch, LifeTypeOK, MutexCore
<1>8. WhereStates' /\ FirstStays' /\ ParentCanReap'
  BY <1>4, <1>6 DEF LifeInv, WhereStates, FirstStays, ParentCanReap, SameStates
<1>9. ForkSlots'
  <2>1. \A s \in Tasks : child[s] \in Slots => (state'[child[s]] = "CREATED" <=> state[child[s]] = "CREATED")
    BY <1>6 DEF SameStates, Slots
  <2> QED BY <1>4, <2>1 DEF LifeInv, ForkSlots
<1> QED BY <1>3, <1>6, <1>7, <1>8, <1>9 DEF LifeInv

\* A process whose name stays a name is left as it was.
LEMMA ExecveStep == ASSUME EmptyName = FALSE, LifeInv, sys_execve PROVE UNCHANGED allVars
<1>1. Running(curr_task) /\ UNCHANGED <<vars, pc, parent, child, move_child>>
  BY DEF sys_execve, At
<1>2. curr_task \in Tasks /\ named[curr_task] /\ named \in [Tasks -> BOOLEAN]
  BY <1>1, Runner DEF LifeInv, LifeTypeOK
<1>3. named' = [named EXCEPT ![curr_task] = TRUE]
  BY DEF sys_execve
<1>4. named' = named
  BY <1>2, <1>3
<1> QED BY <1>1, <1>4 DEF allVars, lifeVars

LEMMA LifeNextInv ==
  ASSUME RacyFork = FALSE, EmptyName = FALSE, LifeInv, [LifeNext]_allVars PROVE LifeInv'
<1>1. CASE UserStep \/ sys_execve \/ UNCHANGED allVars
  BY <1>1, UserStepInv, ExecveStep
<1> USE DEF Steps, InSection, Forking, Leaving
<1>2. CASE ForkStep
  <2>1. ASSUME ForkLock PROVE LifeInv'
    BY <2>1, LockTableInv DEF ForkLock
  <2>2. ASSUME FreeLock PROVE LifeInv'
    BY <2>2, LockTableInv DEF FreeLock
  <2> QED BY <1>2, <2>1, <2>2, ForkAllocInv, ForkInitInv, ForkFreeInv, ForkStartInv DEF ForkStep
<1>3. CASE WaitStep
  <2>1. ASSUME WaitLock PROVE LifeInv'
    BY <2>1, LockTableInv DEF WaitLock
  <2>2. ASSUME WaitUnlock PROVE LifeInv'
    BY <2>2, UnlockTableInv DEF WaitUnlock
  <2> QED BY <1>3, <2>1, <2>2, WaitScanInv, WaitBlockInv DEF WaitStep
<1>4. CASE ExitStep
  <2>1. ASSUME ExitLock PROVE LifeInv'
    BY <2>1, LockTableInv DEF ExitLock
  <2>2. ASSUME ExitUnlock PROVE LifeInv'
    BY <2>2, UnlockTableInv DEF ExitUnlock
  <2> QED BY <1>4, <2>1, <2>2, ExitScanInv, ExitFinalInv DEF ExitStep
<1> QED BY <1>1, <1>2, <1>3, <1>4 DEF LifeNext
-----------------------------------------------------------------------------
THEOREM LifeInvariant ==
  ASSUME RacyFork = FALSE, EmptyName = FALSE PROVE LifeSpec => []LifeInv
<1>1. LifeInit => LifeInv
  BY LifeInitInv
<1>2. LifeInv /\ [LifeNext]_allVars => LifeInv'
  BY LifeNextInv
<1> QED BY <1>1, <1>2, PTL DEF LifeSpec

\* Every variable of the process table keeps its type: no step is reached that the code
\* does not have.
THEOREM LifeTypeCorrect ==
  ASSUME RacyFork = FALSE, EmptyName = FALSE PROVE LifeSpec => []LifeTypeOK
<1>1. LifeInv => LifeTypeOK
  BY DEF LifeInv
<1> QED BY <1>1, LifeInvariant, PTL

\* Somebody can reap every process: its parent is the first task or has not passed on its
\* children yet.
THEOREM ParentsCanReap ==
  ASSUME RacyFork = FALSE, EmptyName = FALSE PROVE LifeSpec => []ParentCanReap
<1>1. LifeInv => ParentCanReap
  BY DEF LifeInv
<1> QED BY <1>1, LifeInvariant, PTL

\* A slot that can be given away is linked nowhere, holds no mutex and is nobody's parent,
\* as long as every sys_execve leaves its process a name.
THEOREM FreeSlotsUnused ==
  ASSUME RacyFork = FALSE, EmptyName = FALSE PROVE LifeSpec => []FreeSlotIsUnused
<1>1. ASSUME LifeInv, NEW c \in Slots, ~named[c]
      PROVE  /\ ~Linked(c) /\ c # curr_task
             /\ calls[c][TableMutex] = 0
             /\ pc[c] = "gone" /\ state[c] = "CREATED"
             /\ \A t \in Tasks : parent[t] # c
  <2>1. c \in Tasks /\ c # First /\ c # NoTask
    BY MutexAssumption DEF Slots, AllTasks
  <2>2. state[c] = "CREATED" /\ pc[c] = "gone"
    BY <1>1, <2>1 DEF LifeInv, WhereStates
  <2>3. c \notin OnList
    BY <1>1, <2>1, <2>2 DEF LifeInv, Placed
  <2>4. ~Linked(c)
    BY <2>3, LifeAssumption DEF Linked, OnList, Queued
  <2>5. c # curr_task
    BY <1>1, <2>1, <2>2, Runner DEF Running
  <2>6. calls[c][TableMutex] = 0
    BY <1>1, <2>1, <2>2 DEF LifeInv, CallsMatch, InSection
  <2>7. ASSUME NEW t \in Tasks PROVE parent[t] # c
    <3>1. CASE t = First \/ ~named[t]
      BY <1>1, <2>1, <3>1 DEF LifeInv, FirstStays, WhereStates
    <3>2. CASE t # First /\ named[t]
      BY <1>1, <2>1, <3>2 DEF LifeInv, ParentCanReap, Slots
    <3> QED BY <3>1, <3>2
  <2> QED BY <2>2, <2>4, <2>5, <2>6, <2>7
<1>2. LifeInv => FreeSlotIsUnused
  BY <1>1 DEF FreeSlotIsUnused
<1> QED BY <1>2, LifeInvariant, PTL

\* A process is linked once, and nowhere only while it has not started, blocks in sys_wait
\* or is a zombie.
THEOREM LifeLinkedOnce ==
  ASSUME RacyFork = FALSE, EmptyName = FALSE PROVE LifeSpec => []LinkedUnlessBlocked
<1>1. ASSUME LifeInv PROVE LinkedUnlessBlocked
  <2>1. RunNodeLinkedOnce
    BY <1>1 DEF LifeInv, MutexCore, Apart
  <2>2. \A t \in Range(wait_list[TableMutex]) : t \notin Range(ready_list) \cup Range(sleep_list)
    BY <1>1, LifeAssumption DEF LifeInv, MutexCore, Apart
  <2>3. \A m \in Mutexes \ {TableMutex} : Range(wait_list[m]) = {}
    BY <1>1 DEF LifeInv, OnlyTable, Range
  <2>4. \A t \in Tasks : Linked(t) <=> t \in OnList
    BY <2>3, LifeAssumption DEF Linked, OnList, Queued
  <2> QED BY <1>1, <2>1, <2>2, <2>4 DEF LinkedUnlessBlocked, LifeInv, Placed
<1> QED BY <1>1, LifeInvariant, PTL
=============================================================================
