---------------------------- MODULE SchedProofs ----------------------------
(***************************************************************************)
(* The scheduler's invariants hold for every number of tasks, every time   *)
(* slice and every set of delays; and its lists are what list.c makes.     *)
(***************************************************************************)
EXTENDS Sched, List, TLAPS

\* The inductive invariant: the parts need one another.  A created task is on no list
\* because of OthersAreReady and SleepersAreCounted, which is what keeps task_start from
\* linking a task twice; RunsHead is what makes the removal of the running task legal.
SchedInv ==
    /\ SchedTypeOK
    /\ RunNodeLinkedOnce
    /\ RunsHead
    /\ SleepersAreCounted
    /\ OthersAreReady

Queued == Range(ready_list) \cup Range(sleep_list)

\* What a scheduler step does to the places where a task can be, for the modules built on
\* it: nobody drops out of the two lists, whoever joins them has just been created, and the
\* state of a task that is on neither is left alone.
QueuesKept ==
    /\ Queued \subseteq Queued'
    /\ \A t \in Queued' \ Queued : state[t] = "CREATED"
    /\ \A t \in Tasks \ Queued' : state'[t] = state[t]
-----------------------------------------------------------------------------
(* Lists.                                                                  *)

\* Linking a task that is not on the list keeps it without repetition.
LEMMA AppendList ==
  ASSUME NEW S, NEW list \in Seq(S), NEW t \in S, IsInjective(list), t \notin Range(list)
  PROVE  /\ Append(list, t) \in Seq(S)
         /\ IsInjective(Append(list, t))
         /\ Range(Append(list, t)) = Range(list) \cup {t}
         /\ Append(list, t) # <<>>
         /\ list # <<>> => Append(list, t)[1] = list[1]
         /\ list = <<>> => Append(list, t)[1] = t
  BY DEF IsInjective, Range

\* Unlinking a task takes exactly it off the list.
LEMMA RemoveList ==
  ASSUME NEW S, NEW list \in Seq(S), NEW t, IsInjective(list), t \in Range(list)
  PROVE  /\ ListRemove(list, t) \in Seq(S)
         /\ IsInjective(ListRemove(list, t))
         /\ Range(ListRemove(list, t)) = Range(list) \ {t}
         /\ Len(ListRemove(list, t)) = Len(list) - 1
<1> DEFINE k == CHOOSE k \in DOMAIN list : list[k] = t
           rest == [i \in 1 .. Len(list) - 1 |-> IF i < k THEN list[i] ELSE list[i + 1]]
<1>1. k \in 1 .. Len(list) /\ list[k] = t
  BY DEF Range
<1>2. rest = ListRemove(list, t)
  BY DEF ListRemove
<1> HIDE DEF k
<1>3. Len(list) - 1 \in Nat
  BY <1>1
<1>4. rest \in Seq(S) /\ Len(rest) = Len(list) - 1
  BY <1>1, <1>3
<1>5. IsInjective(rest)
  BY <1>1, <1>3 DEF IsInjective
<1>6. Range(rest) = Range(list) \ {t}
  <2>1. ASSUME NEW i \in 1 .. Len(list) - 1 PROVE rest[i] \in Range(list) \ {t}
    BY <1>1, <2>1 DEF Range, IsInjective
  <2>2. ASSUME NEW j \in 1 .. Len(list), list[j] # t PROVE list[j] \in Range(rest)
    <3>1. CASE j < k
      <4>1. j \in 1 .. Len(list) - 1 /\ rest[j] = list[j]
        BY <1>1, <3>1
      <4> QED BY <4>1 DEF Range
    <3>2. CASE j > k
      <4>1. j - 1 \in 1 .. Len(list) - 1 /\ rest[j - 1] = list[j]
        BY <1>1, <3>2
      <4> QED BY <4>1 DEF Range
    <3> QED BY <1>1, <2>2, <3>1, <3>2
  <2> QED BY <2>1, <2>2 DEF Range
<1> QED BY <1>2, <1>4, <1>5, <1>6

\* Taking the head off a list.
LEMMA TailList ==
  ASSUME NEW S, NEW list \in Seq(S), IsInjective(list), list # <<>>
  PROVE  /\ Head(list) \in Range(list) /\ Head(list) \in S
         /\ Tail(list) \in Seq(S)
         /\ IsInjective(Tail(list))
         /\ Range(Tail(list)) = Range(list) \ {Head(list)}
<1> DEFINE n == Len(list)
           tail == Tail(list)
<1>1. n \in Nat /\ n >= 1 /\ Head(list) = list[1] /\ list \in [1 .. n -> S]
  OBVIOUS
<1>2. tail \in Seq(S) /\ Len(tail) = n - 1 /\ DOMAIN tail = 1 .. n - 1
  BY <1>1
<1>3. \A i \in 1 .. n - 1 : tail[i] = list[i + 1]
  BY <1>1
<1>4. \A i, j \in 1 .. n : list[i] = list[j] => i = j
  BY <1>1 DEF IsInjective
<1>5. Range(list) = {list[i] : i \in 1 .. n} /\ Range(tail) = {tail[i] : i \in 1 .. n - 1}
  BY <1>1, <1>2 DEF Range
<1> HIDE DEF n, tail
<1>6. IsInjective(tail)
  BY <1>1, <1>2, <1>3, <1>4 DEF IsInjective
<1>7. Range(tail) = Range(list) \ {list[1]}
  <2>1. ASSUME NEW i \in 1 .. n - 1 PROVE tail[i] \in Range(list) \ {list[1]}
    <3>1. i + 1 \in 1 .. n /\ 1 \in 1 .. n /\ i + 1 # 1
      BY <1>1, <2>1
    <3> QED BY <1>3, <1>4, <1>5, <2>1, <3>1
  <2>2. ASSUME NEW j \in 1 .. n, j # 1 PROVE list[j] \in Range(tail)
    <3>1. j - 1 \in 1 .. n - 1 /\ tail[j - 1] = list[j]
      BY <1>1, <1>3, <2>2
    <3> QED BY <1>5, <3>1
  <2> QED BY <1>5, <2>1, <2>2
<1>8. list[1] \in Range(list) /\ list[1] \in S
  BY <1>1, <1>5
<1> QED BY <1>1, <1>2, <1>6, <1>7, <1>8 DEF tail

\* Queueing a list of tasks behind another one with which it shares nobody.
LEMMA ConcatList ==
  ASSUME NEW S, NEW s \in Seq(S), NEW t \in Seq(S), IsInjective(s), IsInjective(t),
         Range(s) \cap Range(t) = {}
  PROVE  /\ s \o t \in Seq(S)
         /\ IsInjective(s \o t)
         /\ Range(s \o t) = Range(s) \cup Range(t)
<1>1. s \o t \in Seq(S) /\ Len(s \o t) = Len(s) + Len(t)
  OBVIOUS
<1>2. \A i \in 1 .. Len(s) + Len(t) :
        (s \o t)[i] = IF i <= Len(s) THEN s[i] ELSE t[i - Len(s)]
  OBVIOUS
<1>3. \A i \in 1 .. Len(s) : s[i] \in Range(s)
  BY DEF Range
<1>4. \A i \in 1 .. Len(t) : t[i] \in Range(t)
  BY DEF Range
<1>5. IsInjective(s \o t)
  <2> SUFFICES ASSUME NEW i \in 1 .. Len(s) + Len(t), NEW j \in 1 .. Len(s) + Len(t),
                      (s \o t)[i] = (s \o t)[j]
               PROVE  i = j
    BY <1>1 DEF IsInjective
  <2>1. CASE i <= Len(s) /\ j <= Len(s)
    BY <1>2, <2>1 DEF IsInjective
  <2>2. CASE i > Len(s) /\ j > Len(s)
    <3>1. i - Len(s) \in 1 .. Len(t) /\ j - Len(s) \in 1 .. Len(t)
      BY <2>2
    <3>2. t[i - Len(s)] = t[j - Len(s)]
      BY <1>2, <2>2
    <3>3. i - Len(s) = j - Len(s)
      BY <3>1, <3>2 DEF IsInjective
    <3> QED BY <3>3
  <2>3. CASE i <= Len(s) /\ j > Len(s)
    BY <1>2, <1>3, <1>4, <2>3
  <2>4. CASE i > Len(s) /\ j <= Len(s)
    BY <1>2, <1>3, <1>4, <2>4
  <2> QED BY <2>1, <2>2, <2>3, <2>4
<1>6. Range(s \o t) = Range(s) \cup Range(t)
  <2>1. ASSUME NEW x \in Range(s \o t) PROVE x \in Range(s) \cup Range(t)
    <3>1. PICK i \in 1 .. Len(s) + Len(t) : (s \o t)[i] = x
      BY <1>1 DEF Range
    <3> QED BY <1>2, <1>3, <1>4, <3>1
  <2>2. ASSUME NEW x \in Range(s) PROVE x \in Range(s \o t)
    <3>1. PICK i \in 1 .. Len(s) : s[i] = x
      BY DEF Range
    <3>2. i \in 1 .. Len(s) + Len(t) /\ (s \o t)[i] = x
      BY <1>2, <3>1
    <3> QED BY <1>1, <3>2 DEF Range
  <2>3. ASSUME NEW x \in Range(t) PROVE x \in Range(s \o t)
    <3>1. PICK i \in 1 .. Len(t) : t[i] = x
      BY DEF Range
    <3>2. i + Len(s) \in 1 .. Len(s) + Len(t) /\ (s \o t)[i + Len(s)] = x
      BY <1>2, <3>1
    <3> QED BY <1>1, <3>2 DEF Range
  <2> QED BY <2>1, <2>2, <2>3
<1> QED BY <1>1, <1>5, <1>6

\* The sublist for S of a list holds exactly S, nobody twice.
LEMMA SublistList ==
  ASSUME NEW list, NEW S, NEW sub \in Sublists(list, S), IsInjective(list), Len(list) \in Nat
  PROVE  /\ sub \in Seq(S)
         /\ IsInjective(sub)
         /\ Range(sub) = S
<1>1. PICK n \in 0 .. Len(list) : sub \in [1 .. n -> S]
  BY DEF Sublists
<1>2. S \subseteq Range(sub) /\ \A i, j \in DOMAIN sub : i < j => Before(list, sub[i], sub[j])
  BY DEF Sublists
<1>3. sub \in Seq(S)
  BY <1>1
<1>4. \A x : ~Before(list, x, x)
  BY DEF Before, IsInjective
<1>5. IsInjective(sub)
  BY <1>1, <1>2, <1>4 DEF IsInjective
<1> QED BY <1>1, <1>2, <1>3, <1>5 DEF Range

\* Unlinking a task leaves the order of the others alone.
LEMMA RemoveKeepsOrder ==
  ASSUME NEW S, NEW list \in Seq(S), NEW x, x \in Range(list),
         NEW s, NEW t, s # x, t # x, Before(list, s, t)
  PROVE  Before(ListRemove(list, x), s, t)
<1> DEFINE k == CHOOSE k \in DOMAIN list : list[k] = x
           rest == [i \in 1 .. Len(list) - 1 |-> IF i < k THEN list[i] ELSE list[i + 1]]
           at(i) == IF i < k THEN i ELSE i - 1
<1>1. k \in 1 .. Len(list) /\ list[k] = x
  BY DEF Range
<1>2. rest = ListRemove(list, x)
  BY DEF ListRemove
<1> HIDE DEF k
<1>3. PICK i, j \in 1 .. Len(list) : i < j /\ list[i] = s /\ list[j] = t
  BY DEF Before
<1>4. i # k /\ j # k
  BY <1>1, <1>3
<1>5. at(i) \in 1 .. Len(list) - 1 /\ at(j) \in 1 .. Len(list) - 1 /\ at(i) < at(j)
  BY <1>1, <1>3, <1>4
<1>6. rest[at(i)] = s /\ rest[at(j)] = t
  BY <1>1, <1>3, <1>4, <1>5
<1> HIDE DEF at
<1>7. Before(rest, s, t)
  BY <1>5, <1>6 DEF Before
<1> QED BY <1>2, <1>7

\* Queueing behind a list leaves its order alone.
LEMMA ConcatKeepsOrder ==
  ASSUME NEW S, NEW list \in Seq(S), NEW more \in Seq(S), NEW s, NEW t, Before(list, s, t)
  PROVE  Before(list \o more, s, t)
<1>1. PICK i, j \in 1 .. Len(list) : i < j /\ list[i] = s /\ list[j] = t
  BY DEF Before
<1>2. i \in DOMAIN (list \o more) /\ j \in DOMAIN (list \o more)
  OBVIOUS
<1>3. (list \o more)[i] = s /\ (list \o more)[j] = t
  BY <1>1
<1> QED BY <1>1, <1>2, <1>3 DEF Before
-----------------------------------------------------------------------------
(* The scheduling helpers.                                                 *)

\* What task_dispatch establishes from a list whose tasks are READY, the running one
\* excepted as long as it has kept its place.
LEMMA DispatchFollowsHead ==
  ASSUME NEW ready \in Seq(Tasks), NEW st \in [AllTasks -> TaskStates],
         curr_task \in AllTasks, Dispatch(ready, st),
         \A t \in Range(ready) : t # curr_task => st[t] = "READY",
         curr_task \in Range(ready) =>
            \/ st[curr_task] = "READY"
            \/ st[curr_task] = "RUNNING" /\ ready[1] = curr_task
  PROVE  /\ ready_list' = ready
         /\ curr_task' \in AllTasks
         /\ state' \in [AllTasks -> TaskStates]
         /\ RunsHead'
         /\ OthersAreReady'
         /\ \A t \in Tasks : t \notin Range(ready) => state'[t] = st[t]
         /\ \A t \in Range(ready) : state'[t] \in {"RUNNING", "READY"}
<1> DEFINE to == NextRun(ready)
<1>1. /\ ready_list' = ready
      /\ curr_task' = to
      /\ state' = IF to # curr_task THEN [st EXCEPT ![to] = "RUNNING"] ELSE st
  BY DEF Dispatch
<1>2. ready # <<>> => to = ready[1] /\ to \in Range(ready) /\ to \in Tasks
  BY DEF NextRun, Range
<1>3. ready = <<>> => to = Idle /\ Range(ready) = {}
  BY DEF NextRun, Range
<1>4. Idle \notin Tasks /\ to \in AllTasks
  BY <1>2, <1>3, SchedAssumption DEF AllTasks
<1>5. Range(ready) \subseteq Tasks
  BY DEF Range
<1>6. state' \in [AllTasks -> TaskStates]
  BY <1>1, <1>4 DEF TaskStates
<1>7. RunsHead'
  BY <1>1, <1>2, <1>3 DEF RunsHead
<1>8. \A t \in AllTasks : state'[t] = IF t = to /\ to # curr_task THEN "RUNNING" ELSE st[t]
  BY <1>1, <1>4
<1>9. \A t \in Range(ready) : state'[t] \in {"RUNNING", "READY"}
  BY <1>5, <1>8 DEF AllTasks
<1>10. \A t \in Range(ready) \ {to} : state'[t] = "READY"
  BY <1>2, <1>3, <1>5, <1>8 DEF AllTasks
<1>11. OthersAreReady'
  BY <1>1, <1>2, <1>3, <1>4, <1>9, <1>10 DEF OthersAreReady, Running
<1>12. \A t \in Tasks : t \notin Range(ready) => state'[t] = st[t]
  BY <1>2, <1>3, <1>4, <1>8 DEF AllTasks
<1> HIDE DEF to
<1> QED BY <1>1, <1>4, <1>6, <1>7, <1>9, <1>11, <1>12

\* The list after the running task has been taken off it.
LEMMA BlockCurrentList ==
  ASSUME SchedInv, Running(curr_task)
  PROVE  /\ SetBlock(ready_list, curr_task) \in Seq(Tasks)
         /\ IsInjective(SetBlock(ready_list, curr_task))
         /\ Range(SetBlock(ready_list, curr_task)) = Range(ready_list) \ {curr_task}
         /\ curr_task \in Range(ready_list)
<1>1. curr_task # Idle /\ ready_list # <<>> /\ curr_task = ready_list[1]
  BY SchedAssumption DEF Running, SchedInv, RunsHead
<1>2. curr_task \in Range(ready_list)
  BY <1>1 DEF Range, SchedInv, SchedTypeOK
<1> QED BY <1>1, <1>2, RemoveList DEF SetBlock, SchedInv, SchedTypeOK, RunNodeLinkedOnce

\* The list after the running task has gone to its tail.
LEMMA RotateList ==
  ASSUME SchedInv, Running(curr_task)
  PROVE  LET list == SetReady(SetBlock(ready_list, curr_task), curr_task) IN
         list \in Seq(Tasks) /\ IsInjective(list) /\ Range(list) = Range(ready_list)
<1>1. curr_task # Idle /\ curr_task \in Tasks
  BY SchedAssumption DEF Running
<1> DEFINE rest == SetBlock(ready_list, curr_task)
<1>2. /\ rest \in Seq(Tasks) /\ IsInjective(rest)
      /\ Range(rest) = Range(ready_list) \ {curr_task} /\ curr_task \in Range(ready_list)
  BY BlockCurrentList
<1> HIDE DEF rest
<1>3. /\ Append(rest, curr_task) \in Seq(Tasks) /\ IsInjective(Append(rest, curr_task))
      /\ Range(Append(rest, curr_task)) = Range(rest) \cup {curr_task}
  BY <1>1, <1>2, AppendList
<1>4. SetReady(rest, curr_task) = Append(rest, curr_task)
  BY <1>1 DEF SetReady
<1> QED BY <1>2, <1>3, <1>4 DEF rest

\* The running task leaves the ready list: what a blocking handler establishes.
LEMMA BlockCurrentKeeps ==
  ASSUME SchedInv, Running(curr_task), NEW st \in [AllTasks -> TaskStates],
         \A t \in Tasks \ {curr_task} : st[t] = state[t],
         BlockCurrent(st)
  PROVE  /\ ready_list' \in Seq(Tasks) /\ IsInjective(ready_list')
         /\ Range(ready_list') = Range(ready_list) \ {curr_task}
         /\ curr_task' \in AllTasks
         /\ state' \in [AllTasks -> TaskStates]
         /\ RunsHead' /\ OthersAreReady'
         /\ \A t \in Tasks : t \notin Range(ready_list') => state'[t] = st[t]
         /\ \A t \in Range(ready_list') : state'[t] \in {"RUNNING", "READY"}
<1> DEFINE list == SetBlock(ready_list, curr_task)
<1>1. /\ list \in Seq(Tasks) /\ IsInjective(list)
      /\ Range(list) = Range(ready_list) \ {curr_task}
  BY BlockCurrentList
<1>2. Range(list) \subseteq Tasks
  BY <1>1 DEF Range
<1>3. \A t \in Range(list) : st[t] = "READY"
  BY <1>1, <1>2 DEF SchedInv, OthersAreReady
<1>4. curr_task \in AllTasks /\ Dispatch(list, st)
  BY DEF SchedInv, SchedTypeOK, BlockCurrent
<1> HIDE DEF list
<1> QED BY <1>1, <1>3, <1>4, DispatchFollowsHead
-----------------------------------------------------------------------------
(* The handlers.                                                           *)

LEMMA InitInv == SchedInit => SchedInv
<1> SUFFICES ASSUME SchedInit PROVE SchedInv
  OBVIOUS
<1> USE SchedAssumption DEF SchedInit
<1>1. Range(ready_list) = {First} /\ Range(sleep_list) = {}
  BY DEF Range
<1>2. SchedTypeOK
  BY DEF SchedTypeOK, AllTasks, TaskStates
<1>3. RunNodeLinkedOnce
  BY <1>1 DEF RunNodeLinkedOnce, IsInjective
<1>4. RunsHead
  BY DEF RunsHead
<1>5. SleepersAreCounted /\ OthersAreReady
  BY <1>1 DEF SleepersAreCounted, OthersAreReady, AllTasks
<1> QED BY <1>2, <1>3, <1>4, <1>5 DEF SchedInv

\* A task that is neither queued nor asleep is queued by the running task, which keeps the
\* CPU: task_start, and the wake-ups of unlock and notify when they interrupt a task.
LEMMA StartInv ==
  ASSUME SchedInv, NEW t \in Tasks, task_start(t)
  PROVE  /\ SchedInv' /\ QueuesKept
         /\ Queued' = Queued \cup {t}
         /\ \A u \in Tasks : state'[u] = IF u = t THEN "READY" ELSE state[u]
<1> USE DEF SchedInv
<1>1. t # Idle /\ ready_list' = Append(ready_list, t)
  BY SchedAssumption DEF task_start, SetReady
<1>2. t \notin Range(ready_list) /\ t \notin Range(sleep_list) /\ t # curr_task
  BY DEF task_start, OthersAreReady, SleepersAreCounted, Running
<1>3. /\ ready_list' \in Seq(Tasks) /\ IsInjective(ready_list')
      /\ Range(ready_list') = Range(ready_list) \cup {t}
  BY <1>1, <1>2, AppendList DEF SchedTypeOK, RunNodeLinkedOnce
<1>4. ready_list # <<>> /\ ready_list' # <<>> /\ ready_list'[1] = ready_list[1]
  BY <1>1, <1>2, AppendList, SchedAssumption
     DEF SchedTypeOK, RunNodeLinkedOnce, RunsHead, task_start, Running
<1>5. \A u \in AllTasks : state'[u] = IF u = t THEN "READY" ELSE state[u]
  BY <1>1 DEF task_start, MarkReady
<1>6. UNCHANGED <<sleep_list, curr_task, sleep_ticks, slice_ticks>>
  BY DEF task_start
<1>7. SchedTypeOK'
  <2>1. state' \in [AllTasks -> TaskStates]
    BY <1>1 DEF task_start, MarkReady, SchedTypeOK, TaskStates
  <2> QED BY <1>3, <1>6, <2>1 DEF SchedTypeOK
<1>8. RunNodeLinkedOnce'
  BY <1>2, <1>3, <1>6 DEF RunNodeLinkedOnce
<1>9. RunsHead'
  BY <1>4, <1>6 DEF RunsHead
<1>10. SleepersAreCounted'
  BY <1>2, <1>5, <1>6 DEF SleepersAreCounted, AllTasks
<1>11. OthersAreReady'
  <2>1. Range(ready_list) \subseteq AllTasks
    BY DEF SchedTypeOK, AllTasks, Range
  <2>2. t \in AllTasks
    BY DEF AllTasks
  <2> QED BY <1>2, <1>3, <1>5, <1>6, <2>1, <2>2 DEF OthersAreReady, Running, AllTasks
<1>12. QueuesKept
  BY <1>3, <1>5, <1>6 DEF QueuesKept, Queued, task_start, AllTasks
<1>13. Queued' = Queued \cup {t}
  BY <1>3, <1>6 DEF Queued
<1>14. \A u \in Tasks : state'[u] = IF u = t THEN "READY" ELSE state[u]
  BY <1>5 DEF AllTasks
<1> QED BY <1>7, <1>8, <1>9, <1>10, <1>11, <1>12, <1>13, <1>14

LEMMA YieldInv == ASSUME SchedInv, sys_yield PROVE SchedInv' /\ QueuesKept /\ Queued' = Queued
<1> DEFINE list == SetReady(SetBlock(ready_list, curr_task), curr_task)
           st == MarkReady(state, {curr_task})
<1>1. Running(curr_task) /\ curr_task \in Tasks /\ curr_task # Idle
  BY SchedAssumption DEF sys_yield, Running
<1>2. list \in Seq(Tasks) /\ IsInjective(list) /\ Range(list) = Range(ready_list)
  BY <1>1, RotateList
<1>3. \A t \in AllTasks : st[t] = IF t = curr_task THEN "READY" ELSE state[t]
  BY <1>1 DEF MarkReady
<1>4. st \in [AllTasks -> TaskStates]
  BY <1>1 DEF MarkReady, SchedInv, SchedTypeOK, TaskStates
<1>5. Range(list) \subseteq Tasks
  BY <1>2 DEF Range
<1>6. \A t \in Range(list) : st[t] = "READY"
  BY <1>2, <1>3, <1>5 DEF SchedInv, OthersAreReady, AllTasks
<1>7. curr_task \in AllTasks /\ Dispatch(list, st) /\ UNCHANGED <<sleep_list, sleep_ticks, slice_ticks>>
  BY DEF SchedInv, SchedTypeOK, sys_yield
<1> HIDE DEF list, st
<1>8. /\ ready_list' = list /\ curr_task' \in AllTasks /\ state' \in [AllTasks -> TaskStates]
      /\ RunsHead' /\ OthersAreReady'
      /\ \A t \in Tasks : t \notin Range(list) => state'[t] = st[t]
      /\ \A t \in Range(list) : state'[t] \in {"RUNNING", "READY"}
  BY <1>2, <1>4, <1>6, <1>7, DispatchFollowsHead
<1>9. SchedTypeOK'
  BY <1>2, <1>7, <1>8 DEF SchedInv, SchedTypeOK
<1>10. RunNodeLinkedOnce'
  BY <1>2, <1>7, <1>8 DEF SchedInv, RunNodeLinkedOnce
<1>11. \A t \in Tasks : state'[t] = "SLEEP" <=> state[t] = "SLEEP"
  <2>1. curr_task \in Range(ready_list)
    BY <1>1, BlockCurrentList
  <2> QED BY <1>2, <1>3, <1>8, <2>1 DEF SchedInv, OthersAreReady, AllTasks, Running
<1>12. SleepersAreCounted'
  BY <1>7, <1>11 DEF SchedInv, SleepersAreCounted
<1>13. QueuesKept /\ Queued' = Queued
  <2>1. curr_task \in Range(ready_list)
    BY <1>1, BlockCurrentList
  <2>2. Queued' = Queued
    BY <1>2, <1>7, <1>8 DEF Queued
  <2> QED BY <1>2, <1>3, <1>7, <1>8, <2>1, <2>2 DEF QueuesKept, Queued, AllTasks
<1> QED BY <1>8, <1>9, <1>10, <1>12, <1>13 DEF SchedInv

\* The delay computed by sys_msleep is at least one tick: no argument of msleep wraps.
LEMMA DelayIsPositive ==
  ASSUME NEW ms \in MsArgs PROVE Ticks(ms) \in Nat /\ Ticks(ms) > 0
<1> DEFINE atLeast == IF ms < TickMs THEN TickMs ELSE ms
           sum == atLeast + (TickMs - 1)
<1>1. ms \in Nat /\ TickMs \in Nat \ {0} /\ Word \in Nat /\ 2 * ms < Word /\ 2 * TickMs <= Word
  BY SchedAssumption
<1>2. atLeast \in Nat /\ atLeast >= TickMs /\ 2 * atLeast <= Word
  BY <1>1
<1>3. sum \in Nat /\ sum >= TickMs /\ sum < Word
  BY <1>1, <1>2
<1> HIDE DEF sum
<1>4. sum % Word = sum
  BY <1>1, <1>3
<1>5. sum \div TickMs \in Nat /\ sum \div TickMs > 0
  BY <1>1, <1>3
<1> QED BY <1>4, <1>5 DEF Ticks, sum

LEMMA MsleepInv ==
  ASSUME SchedInv, NEW ms \in MsArgs, sys_msleep(ms) PROVE SchedInv' /\ QueuesKept /\ Queued' = Queued
<1>1. Running(curr_task) /\ curr_task \in Tasks /\ curr_task # Idle
  BY SchedAssumption DEF sys_msleep, Running
<1>2. Ticks(ms) \in Nat /\ Ticks(ms) > 0
  BY DelayIsPositive
<1> DEFINE st == [state EXCEPT ![curr_task] = "SLEEP"]
<1>3. /\ BlockCurrent(st)
      /\ sleep_list' = Append(sleep_list, curr_task)
      /\ sleep_ticks' = [sleep_ticks EXCEPT ![curr_task] = Ticks(ms)]
      /\ slice_ticks' = slice_ticks
  BY <1>2 DEF sys_msleep
<1>4. \A t \in AllTasks : st[t] = IF t = curr_task THEN "SLEEP" ELSE state[t]
  BY DEF SchedInv, SchedTypeOK
<1>5. st \in [AllTasks -> TaskStates] /\ \A t \in Tasks \ {curr_task} : st[t] = state[t]
  BY <1>4 DEF SchedInv, SchedTypeOK, TaskStates, AllTasks
<1> HIDE DEF st
<1>6. /\ ready_list' \in Seq(Tasks) /\ IsInjective(ready_list')
      /\ Range(ready_list') = Range(ready_list) \ {curr_task}
      /\ curr_task' \in AllTasks
      /\ state' \in [AllTasks -> TaskStates]
      /\ RunsHead' /\ OthersAreReady'
      /\ \A t \in Tasks : t \notin Range(ready_list') => state'[t] = st[t]
      /\ \A t \in Range(ready_list') : state'[t] \in {"RUNNING", "READY"}
  BY <1>1, <1>3, <1>5, BlockCurrentKeeps
<1>7. curr_task \in Range(ready_list)
  BY <1>1, BlockCurrentList
<1>8. curr_task \notin Range(sleep_list)
  BY <1>7 DEF SchedInv, RunNodeLinkedOnce
<1>9. /\ sleep_list' \in Seq(Tasks) /\ IsInjective(sleep_list')
      /\ Range(sleep_list') = Range(sleep_list) \cup {curr_task}
  BY <1>1, <1>3, <1>8, AppendList DEF SchedInv, SchedTypeOK, RunNodeLinkedOnce
<1>10. sleep_ticks' \in [AllTasks -> Nat]
  BY <1>2, <1>3 DEF SchedInv, SchedTypeOK
<1>11. SchedTypeOK'
  BY <1>3, <1>6, <1>9, <1>10 DEF SchedInv, SchedTypeOK
<1>12. RunNodeLinkedOnce'
  BY <1>6, <1>9 DEF SchedInv, RunNodeLinkedOnce
<1>13. SleepersAreCounted'
  <2> SUFFICES ASSUME NEW t \in Tasks
               PROVE  /\ t \in Range(sleep_list') <=> state'[t] = "SLEEP"
                      /\ t \in Range(sleep_list') => sleep_ticks'[t] > 0
    BY DEF SleepersAreCounted
  <2>1. CASE t = curr_task
    BY <1>1, <1>2, <1>3, <1>4, <1>6, <1>9, <2>1 DEF SchedInv, SchedTypeOK, AllTasks
  <2>2. CASE t # curr_task
    <3>1. t \in Range(sleep_list') <=> t \in Range(sleep_list)
      BY <1>9, <2>2
    <3>2. sleep_ticks'[t] = sleep_ticks[t]
      BY <1>3, <2>2 DEF SchedInv, SchedTypeOK, AllTasks
    <3>3. state'[t] = "SLEEP" <=> state[t] = "SLEEP"
      BY <1>5, <1>6, <2>2 DEF SchedInv, OthersAreReady
    <3> QED BY <3>1, <3>2, <3>3 DEF SchedInv, SleepersAreCounted
  <2> QED BY <2>1, <2>2
<1>14. QueuesKept /\ Queued' = Queued
  <2>1. Queued' = Queued
    BY <1>6, <1>7, <1>9 DEF Queued
  <2> QED BY <1>5, <1>6, <1>7, <1>9, <2>1 DEF QueuesKept, Queued
<1> QED BY <1>6, <1>11, <1>12, <1>13, <1>14 DEF SchedInv

LEMMA TickInv == ASSUME SchedInv, task_time_tick PROVE SchedInv' /\ QueuesKept /\ Queued' = Queued
<1> DEFINE rotated == IF SliceOver THEN SetReady(SetBlock(ready_list, curr_task), curr_task)
                                   ELSE ready_list
           woken == Due \cup (IF SliceOver THEN {curr_task} ELSE {})
           st == MarkReady(state, woken)
<1>1. PICK due \in Sublists(sleep_list, Due) : Dispatch(rotated \o due, st)
  BY DEF task_time_tick
<1>2. /\ slice_ticks' = [slice_ticks EXCEPT ![curr_task] = IF SliceOver THEN TimeSlice ELSE @ - 1]
      /\ sleep_ticks' = [t \in AllTasks |-> IF t \in Range(sleep_list) THEN sleep_ticks[t] - 1
                                                                       ELSE sleep_ticks[t]]
      /\ sleep_list' \in Sublists(sleep_list, Range(sleep_list) \ Due)
  BY DEF task_time_tick
<1>3. rotated \in Seq(Tasks) /\ IsInjective(rotated) /\ Range(rotated) = Range(ready_list)
  <2>1. CASE ~SliceOver
    BY <2>1 DEF SchedInv, SchedTypeOK, RunNodeLinkedOnce
  <2>2. CASE SliceOver /\ Running(curr_task)
    BY <2>2, RotateList
  <2>3. CASE curr_task = Idle
    BY <2>3 DEF SetReady, SetBlock, SchedInv, SchedTypeOK, RunNodeLinkedOnce
  <2> QED BY <2>1, <2>2, <2>3 DEF SchedInv, SchedTypeOK, AllTasks, Running
<1>4. Range(sleep_list) \subseteq Tasks /\ Range(ready_list) \subseteq Tasks /\ Due \subseteq Range(sleep_list)
  BY DEF SchedInv, SchedTypeOK, Range, Due
<1>5. Len(sleep_list) \in Nat /\ IsInjective(sleep_list)
  BY DEF SchedInv, SchedTypeOK, RunNodeLinkedOnce
<1>6. due \in Seq(Due) /\ IsInjective(due) /\ Range(due) = Due
  BY <1>5, SublistList
<1>7. due \in Seq(Tasks)
  BY <1>4, <1>6
<1>8. /\ sleep_list' \in Seq(Range(sleep_list) \ Due) /\ IsInjective(sleep_list')
      /\ Range(sleep_list') = Range(sleep_list) \ Due
  BY <1>2, <1>5, SublistList
<1>9. sleep_list' \in Seq(Tasks)
  BY <1>4, <1>8
<1>10. Range(rotated) \cap Range(due) = {}
  BY <1>3, <1>4, <1>6 DEF SchedInv, RunNodeLinkedOnce
<1>11. /\ rotated \o due \in Seq(Tasks) /\ IsInjective(rotated \o due)
       /\ Range(rotated \o due) = Range(ready_list) \cup Due
  BY <1>3, <1>6, <1>7, <1>10, ConcatList
<1>12. Idle \notin Tasks
  BY SchedAssumption
<1>13. \A t \in AllTasks : st[t] = IF t \in woken \ {Idle} THEN "READY" ELSE state[t]
  BY DEF MarkReady
<1>14. st \in [AllTasks -> TaskStates]
  BY DEF MarkReady, SchedInv, SchedTypeOK, TaskStates
<1>15. \A t \in Range(rotated \o due) : t # curr_task => st[t] = "READY"
  BY <1>4, <1>11, <1>12, <1>13 DEF SchedInv, OthersAreReady, AllTasks
<1>16. curr_task \in Range(rotated \o due) =>
          \/ st[curr_task] = "READY"
          \/ st[curr_task] = "RUNNING" /\ (rotated \o due)[1] = curr_task
  <2> SUFFICES ASSUME curr_task \in Range(rotated \o due)
               PROVE  \/ st[curr_task] = "READY"
                      \/ st[curr_task] = "RUNNING" /\ (rotated \o due)[1] = curr_task
    OBVIOUS
  <2>1. Running(curr_task)
    BY <1>4, <1>11 DEF Running
  <2>2. CASE SliceOver
    BY <1>12, <1>13, <2>1, <2>2 DEF Running, AllTasks
  <2>3. CASE ~SliceOver
    <3>1. rotated = ready_list /\ ready_list # <<>> /\ ready_list[1] = curr_task
      BY <1>12, <2>1, <2>3 DEF Running, SchedInv, RunsHead
    <3>2. (rotated \o due)[1] = curr_task
      BY <1>7, <3>1 DEF SchedInv, SchedTypeOK
    <3>3. st[curr_task] \in {"READY", "RUNNING"}
      BY <1>13, <2>1 DEF Running, AllTasks, SchedInv, OthersAreReady
    <3> QED BY <3>2, <3>3
  <2> QED BY <2>2, <2>3
<1>17. curr_task \in AllTasks
  BY DEF SchedInv, SchedTypeOK
<1> HIDE DEF rotated, st, woken
<1>18. /\ ready_list' = rotated \o due /\ curr_task' \in AllTasks
       /\ state' \in [AllTasks -> TaskStates] /\ RunsHead' /\ OthersAreReady'
       /\ \A t \in Tasks : t \notin Range(rotated \o due) => state'[t] = st[t]
       /\ \A t \in Range(rotated \o due) : state'[t] \in {"RUNNING", "READY"}
  BY <1>1, <1>11, <1>14, <1>15, <1>16, <1>17, DispatchFollowsHead
<1>19. SchedTypeOK'
  <2>1. slice_ticks' \in [AllTasks -> 1 .. TimeSlice]
    BY <1>2, <1>17, SchedAssumption DEF SchedInv, SchedTypeOK, SliceOver
  <2>2. sleep_ticks' \in [AllTasks -> Nat]
    BY <1>2, <1>4 DEF SchedInv, SchedTypeOK, SleepersAreCounted, AllTasks
  <2> QED BY <1>9, <1>11, <1>18, <2>1, <2>2 DEF SchedTypeOK
<1>20. RunNodeLinkedOnce'
  <2>1. Range(ready_list') \cap Range(sleep_list') = {}
    BY <1>8, <1>11, <1>18 DEF SchedInv, RunNodeLinkedOnce
  <2> QED BY <1>8, <1>11, <1>18, <2>1 DEF RunNodeLinkedOnce
<1>21. SleepersAreCounted'
  <2> SUFFICES ASSUME NEW t \in Tasks
               PROVE  /\ t \in Range(sleep_list') <=> state'[t] = "SLEEP"
                      /\ t \in Range(sleep_list') => sleep_ticks'[t] > 0
    BY DEF SleepersAreCounted
  <2>1. t \in Range(sleep_list') => sleep_ticks'[t] > 0
    BY <1>2, <1>8 DEF SchedInv, SchedTypeOK, SleepersAreCounted, Due, AllTasks
  <2>2. CASE t \in Range(rotated \o due)
    <3>1. t \notin Range(sleep_list')
      BY <1>8, <1>11, <2>2 DEF SchedInv, RunNodeLinkedOnce
    <3> QED BY <1>18, <2>1, <2>2, <3>1
  <2>3. CASE t \notin Range(rotated \o due)
    <3>1. t \notin Due /\ t \in AllTasks
      BY <1>11, <2>3 DEF AllTasks
    <3>2. state'[t] = st[t]
      BY <1>18, <2>3
    <3>3. curr_task # t
      BY <1>11, <1>12, <2>3, BlockCurrentList DEF Running
    <3>4. st[t] = state[t]
      BY <1>13, <3>1, <3>3 DEF woken
    <3>5. t \in Range(sleep_list') <=> t \in Range(sleep_list)
      BY <1>8, <3>1
    <3> QED BY <2>1, <3>2, <3>4, <3>5 DEF SchedInv, SleepersAreCounted
  <2> QED BY <2>2, <2>3
<1>22. QueuesKept /\ Queued' = Queued
  <2>1. Queued' = Queued
    BY <1>4, <1>8, <1>11, <1>18 DEF Queued
  <2>2. \A t \in Tasks \ Queued : t \notin woken
    BY <1>4, <1>12, BlockCurrentList DEF woken, Queued, Running
  <2> QED BY <1>4, <1>11, <1>13, <1>18, <2>1, <2>2 DEF QueuesKept, Queued, AllTasks
<1> QED BY <1>18, <1>19, <1>20, <1>21, <1>22 DEF SchedInv

LEMMA StutterInv == ASSUME SchedInv, UNCHANGED schedVars PROVE SchedInv' /\ QueuesKept
BY DEF schedVars, SchedInv, SchedTypeOK, RunNodeLinkedOnce, RunsHead, SleepersAreCounted,
       OthersAreReady, Running, QueuesKept, Queued

LEMMA NextInv == SchedInv /\ [SchedNext]_schedVars => SchedInv' /\ QueuesKept
BY StartInv, YieldInv, MsleepInv, TickInv, StutterInv DEF SchedNext
-----------------------------------------------------------------------------
(* What the mutex and the semaphore do to the scheduler.                   *)

\* The running task leaves the CPU for a wait list: nobody else changes place.
LEMMA BlockInv ==
  ASSUME SchedInv, Running(curr_task), BlockCurrent(state),
         UNCHANGED <<sleep_list, sleep_ticks, slice_ticks>>
  PROVE  /\ SchedInv'
         /\ curr_task \in Queued
         /\ Queued' = Queued \ {curr_task}
         /\ \A t \in Tasks \ Queued' : state'[t] = state[t]
<1>1. state \in [AllTasks -> TaskStates]
  BY DEF SchedInv, SchedTypeOK
<1>2. /\ ready_list' \in Seq(Tasks) /\ IsInjective(ready_list')
      /\ Range(ready_list') = Range(ready_list) \ {curr_task}
      /\ curr_task' \in AllTasks /\ state' \in [AllTasks -> TaskStates]
      /\ RunsHead' /\ OthersAreReady'
      /\ \A t \in Tasks : t \notin Range(ready_list') => state'[t] = state[t]
      /\ \A t \in Range(ready_list') : state'[t] \in {"RUNNING", "READY"}
  BY <1>1, BlockCurrentKeeps
<1>3. curr_task \in Range(ready_list)
  BY BlockCurrentList
<1>4. SchedTypeOK' /\ RunNodeLinkedOnce'
  BY <1>2 DEF SchedInv, SchedTypeOK, RunNodeLinkedOnce
<1>5. SleepersAreCounted'
  BY <1>2, <1>3 DEF SchedInv, SleepersAreCounted, OthersAreReady, RunNodeLinkedOnce, Running
<1>6. Queued' = Queued \ {curr_task}
  BY <1>2, <1>3 DEF Queued, SchedInv, RunNodeLinkedOnce
<1> QED BY <1>2, <1>3, <1>4, <1>5, <1>6 DEF SchedInv, Queued

\* A task that waits on no list of the scheduler is made ready by a task or an interrupt
\* handler: it joins the queue and nobody else changes place.
LEMMA WakeInv ==
  ASSUME SchedInv, NEW t \in Tasks, t \notin Queued,
         Dispatch(SetReady(ready_list, t), MarkReady(state, {t})),
         UNCHANGED <<sleep_list, sleep_ticks, slice_ticks>>
  PROVE  /\ SchedInv'
         /\ Range(ready_list') = Range(ready_list) \cup {t}
         /\ Queued' = Queued \cup {t}
         /\ \A u \in Tasks \ Queued' : state'[u] = state[u]
<1> DEFINE list == SetReady(ready_list, t)
           st == MarkReady(state, {t})
<1>1. t # Idle /\ Idle \notin Tasks /\ list = Append(ready_list, t)
  BY SchedAssumption DEF SetReady
<1>2. t \notin Range(ready_list) /\ t \notin Range(sleep_list)
  BY DEF Queued
<1>3. /\ list \in Seq(Tasks) /\ IsInjective(list)
      /\ Range(list) = Range(ready_list) \cup {t}
      /\ ready_list # <<>> => list[1] = ready_list[1]
  BY <1>1, <1>2, AppendList DEF SchedInv, SchedTypeOK, RunNodeLinkedOnce
<1>4. \A u \in AllTasks : st[u] = IF u = t THEN "READY" ELSE state[u]
  BY <1>1 DEF MarkReady
<1>5. st \in [AllTasks -> TaskStates]
  BY <1>4 DEF MarkReady, SchedInv, SchedTypeOK, TaskStates
<1>6. curr_task \in AllTasks /\ Dispatch(list, st)
  BY DEF SchedInv, SchedTypeOK
<1> HIDE DEF list, st
<1>7. Range(ready_list) \subseteq Tasks /\ Range(list) \subseteq Tasks /\ Tasks \subseteq AllTasks
  BY <1>3 DEF SchedInv, SchedTypeOK, Range, AllTasks
<1>8. \A u \in Range(list) : u # curr_task => st[u] = "READY"
  BY <1>3, <1>4, <1>7 DEF SchedInv, OthersAreReady
<1>9. curr_task \in Range(list) =>
         st[curr_task] = "READY" \/ (st[curr_task] = "RUNNING" /\ list[1] = curr_task)
  BY <1>1, <1>3, <1>4, <1>7 DEF SchedInv, RunsHead, OthersAreReady, Running
<1>10. /\ ready_list' = list /\ curr_task' \in AllTasks /\ state' \in [AllTasks -> TaskStates]
       /\ RunsHead' /\ OthersAreReady'
       /\ \A u \in Tasks : u \notin Range(list) => state'[u] = st[u]
       /\ \A u \in Range(list) : state'[u] \in {"RUNNING", "READY"}
  BY <1>3, <1>5, <1>8, <1>9, <1>6, DispatchFollowsHead
<1>11. SchedTypeOK' /\ RunNodeLinkedOnce'
  BY <1>2, <1>3, <1>10 DEF SchedInv, SchedTypeOK, RunNodeLinkedOnce
<1>12. SleepersAreCounted'
  BY <1>2, <1>3, <1>4, <1>7, <1>10 DEF SchedInv, SleepersAreCounted, RunNodeLinkedOnce
<1>13. \A u \in Tasks : u \notin Range(list) => state'[u] = state[u]
  BY <1>3, <1>4, <1>7, <1>10
<1> QED BY <1>3, <1>10, <1>11, <1>12, <1>13 DEF SchedInv, Queued
-----------------------------------------------------------------------------
THEOREM SchedInvariant == SchedSpec => []SchedInv
<1>1. SchedInit => SchedInv
  BY InitInv
<1>2. SchedInv /\ [SchedNext]_schedVars => SchedInv'
  BY NextInv
<1> QED BY <1>1, <1>2, PTL DEF SchedSpec

\* Every variable of the scheduler keeps its type: no time slice runs past 0.
THEOREM SchedTypeCorrect == SchedSpec => []SchedTypeOK
<1>1. SchedInv => SchedTypeOK
  BY DEF SchedInv
<1> QED BY <1>1, SchedInvariant, PTL

\* run_node is linked into one list, once.
THEOREM LinkedOnce == SchedSpec => []RunNodeLinkedOnce
<1>1. SchedInv => RunNodeLinkedOnce
  BY DEF SchedInv
<1> QED BY <1>1, SchedInvariant, PTL

\* Between handlers the CPU runs the head of the ready list.
THEOREM HeadRuns == SchedSpec => []RunsHead
<1>1. SchedInv => RunsHead
  BY DEF SchedInv
<1> QED BY <1>1, SchedInvariant, PTL

\* The sleep list holds the sleeping tasks, each with ticks left to count.
THEOREM SleepersCounted == SchedSpec => []SleepersAreCounted
<1>1. SchedInv => SleepersAreCounted
  BY DEF SchedInv
<1> QED BY <1>1, SchedInvariant, PTL

\* The tasks queued behind the running one are READY.
THEOREM QueuedAreReady == SchedSpec => []OthersAreReady
<1>1. SchedInv => OthersAreReady
  BY DEF SchedInv
<1> QED BY <1>1, SchedInvariant, PTL

\* Nobody on the ready list is overtaken, the running task excepted.
THEOREM NobodyOvertakes == SchedSpec => NoOvertaking
<1> DEFINE Fair(s, t) == /\ s # curr_task
                         /\ Before(ready_list, s, t)
                         /\ {s, t} \subseteq Range(ready_list')
                         => Before(ready_list', s, t)
<1>1. ASSUME SchedInv, [SchedNext]_schedVars, NEW s \in Tasks, NEW t \in Tasks
      PROVE  Fair(s, t)
  <2> SUFFICES ASSUME s # curr_task, Before(ready_list, s, t), {s, t} \subseteq Range(ready_list')
               PROVE  Before(ready_list', s, t)
    OBVIOUS
  <2>1. ready_list \in Seq(Tasks) /\ IsInjective(ready_list)
    BY <1>1 DEF SchedInv, SchedTypeOK, RunNodeLinkedOnce
  <2>2. t # curr_task
    BY <1>1, <2>1 DEF Before, IsInjective, SchedInv, RunsHead
  <2>3. Running(curr_task) => /\ SetBlock(ready_list, curr_task) \in Seq(Tasks)
                              /\ Before(SetBlock(ready_list, curr_task), s, t)
    <3> SUFFICES ASSUME Running(curr_task)
                 PROVE  /\ SetBlock(ready_list, curr_task) \in Seq(Tasks)
                        /\ Before(SetBlock(ready_list, curr_task), s, t)
      OBVIOUS
    <3>1. curr_task \in Range(ready_list) /\ SetBlock(ready_list, curr_task) \in Seq(Tasks)
      BY <1>1, BlockCurrentList
    <3>2. SetBlock(ready_list, curr_task) = ListRemove(ready_list, curr_task)
      BY SchedAssumption DEF SetBlock, Running
    <3> QED BY <2>1, <2>2, <3>1, <3>2, RemoveKeepsOrder
  <2>4. ASSUME NEW list \in Seq(Tasks), NEW u \in Tasks, Before(list, s, t)
        PROVE  SetReady(list, u) \in Seq(Tasks) /\ Before(SetReady(list, u), s, t)
    <3>1. SetReady(list, u) = list \o <<u>>
      BY <2>4, SchedAssumption DEF SetReady
    <3>2. <<u>> \in Seq(Tasks)
      BY <2>4
    <3>3. Before(list \o <<u>>, s, t)
      BY <2>4, <3>2, ConcatKeepsOrder
    <3>4. list \o <<u>> \in Seq(Tasks)
      BY <2>4, <3>2
    <3> QED BY <3>1, <3>3, <3>4
  <2>5. ASSUME NEW u \in Tasks, task_start(u) PROVE Before(ready_list', s, t)
    BY <2>1, <2>4, <2>5 DEF task_start
  <2>6. CASE sys_yield
    BY <2>3, <2>4, <2>6 DEF sys_yield, Dispatch, Running
  <2>7. ASSUME NEW ms \in MsArgs, sys_msleep(ms) PROVE Before(ready_list', s, t)
    BY <2>3, <2>7 DEF sys_msleep, BlockCurrent, Dispatch
  <2>8. CASE task_time_tick
    <3> DEFINE rotated == IF SliceOver THEN SetReady(SetBlock(ready_list, curr_task), curr_task)
                                       ELSE ready_list
    <3>1. PICK due \in Sublists(sleep_list, Due) : ready_list' = rotated \o due
      BY <2>8 DEF task_time_tick, Dispatch
    <3>2. due \in Seq(Tasks)
      <4>1. Len(sleep_list) \in Nat /\ IsInjective(sleep_list) /\ Due \subseteq Tasks
        BY <1>1 DEF SchedInv, SchedTypeOK, RunNodeLinkedOnce, Due, Range
      <4>2. due \in Seq(Due)
        BY <4>1, SublistList
      <4> QED BY <4>1, <4>2
    <3>3. rotated \in Seq(Tasks) /\ Before(rotated, s, t)
      <4>1. CASE Running(curr_task)
        BY <2>1, <2>3, <2>4, <4>1 DEF Running
      <4>2. CASE curr_task = Idle
        BY <2>1, <4>2 DEF SetReady, SetBlock
      <4> QED BY <1>1, <4>1, <4>2 DEF SchedInv, SchedTypeOK, AllTasks, Running
    <3> HIDE DEF rotated
    <3> QED BY <3>1, <3>2, <3>3, ConcatKeepsOrder
  <2>9. CASE UNCHANGED schedVars
    BY <2>9 DEF schedVars
  <2> QED BY <1>1, <2>5, <2>6, <2>7, <2>8, <2>9 DEF SchedNext
<1>2. SchedInv /\ [SchedNext]_schedVars => [\A s, t \in Tasks : Fair(s, t)]_schedVars
  BY <1>1
<1> QED BY <1>2, SchedInvariant, PTL DEF SchedSpec, NoOvertaking

\* No started task falls off the ready and the sleep list, whatever delays tasks ask for.
THEOREM NobodyLost == SchedSpec => []NoTaskLost
<1>1. SchedInit => NoTaskLost
  BY SchedAssumption DEF SchedInit, NoTaskLost, AllTasks, Range
<1>2. SchedInv /\ NoTaskLost /\ [SchedNext]_schedVars => NoTaskLost'
  BY NextInv DEF NoTaskLost, QueuesKept, Queued
<1> QED BY <1>1, <1>2, SchedInvariant, PTL DEF SchedSpec
-----------------------------------------------------------------------------
(* The lists themselves: the pointer-level functions of tools/list.c do to *)
(* the sequence of a list's nodes what Sched and the other modules take    *)
(* them for, for every list and every number of nodes, and write no node   *)
(* of another list.                                                        *)

\* A list that is the sequence s.
Holds(m, s) == m \in Memories /\ Represents(m, s)
-----------------------------------------------------------------------------
\* list_insert_last (list.c:46): a node that is on no list becomes the last one.
THEOREM InsertLastAppends ==
  ASSUME NEW s \in Seq(Nodes), IsInjective(s), NEW m, Holds(m, s),
         NEW node \in Nodes, node \notin Range(s)
  PROVE  /\ Holds(list_insert_last(m, node), Append(s, node))
         /\ LeavesOthers(m, list_insert_last(m, node), s, {node})
<1> DEFINE new == list_insert_last(m, node)
           t == Append(s, node)
           k == Len(s)
<1>1. k \in Nat /\ (s = <<>> <=> k = 0)
  OBVIOUS
<1>2. \A i \in 1 .. k : s[i] \in Nodes /\ s[i] # node /\ s[i] \in Range(s)
  BY DEF Range
<1>3. \A i, j \in 1 .. k : s[i] = s[j] => i = j
  BY DEF IsInjective
<1>4. Len(t) = k + 1 /\ t # <<>> /\ t[k + 1] = node /\ \A i \in 1 .. k : t[i] = s[i]
  OBVIOUS
<1>5. m \in Memories /\ m.count = k
  BY DEF Holds, Represents
<1>6. /\ m.first = IF k = 0 THEN Null ELSE s[1]
      /\ m.last = IF k = 0 THEN Null ELSE s[k]
  BY <1>1 DEF Holds, Represents
<1>7. \A i \in 1 .. k : m.next[s[i]] = IF i = k THEN Null ELSE s[i + 1]
  BY DEF Holds, Represents
<1>8. \A i \in 1 .. k : m.pre[s[i]] = IF i = 1 THEN Null ELSE s[i - 1]
  BY DEF Holds, Represents
<1>9. k # 0 => m.last \in Nodes /\ m.last = s[k] /\ s[k] \in Range(s)
  BY <1>1, <1>2, <1>6
<1>10. /\ new \in Memories /\ new.count = k + 1
       /\ new.first = IF k = 0 THEN node ELSE m.first
       /\ new.last = node
  BY <1>1, <1>5, <1>9 DEF list_insert_last, list_is_empty, Memories, Pointers
<1>11. \A n \in Nodes : new.pre[n] = IF n = node THEN m.last ELSE m.pre[n]
  BY <1>5 DEF list_insert_last, Memories
<1>12. \A n \in Nodes : new.next[n] = IF k # 0 /\ n = s[k] THEN node
                                      ELSE IF n = node THEN Null ELSE m.next[n]
  BY <1>5, <1>9 DEF list_insert_last, list_is_empty, Memories
<1> HIDE DEF new, t, k
<1>13. ASSUME NEW i \in 1 .. k + 1 PROVE new.next[t[i]] = IF i = k + 1 THEN Null ELSE t[i + 1]
  <2>1. CASE i = k + 1
    BY <1>1, <1>4, <1>9, <1>12, <2>1
  <2>2. CASE i = k
    BY <1>1, <1>2, <1>4, <1>12, <2>2
  <2>3. CASE i < k
    <3>1. i \in 1 .. k /\ i + 1 \in 1 .. k /\ k \in 1 .. k
      BY <1>1, <2>3
    <3>2. t[i] = s[i] /\ t[i + 1] = s[i + 1] /\ s[i] # s[k] /\ s[i] # node /\ s[i] \in Nodes
      BY <1>1, <1>2, <1>3, <1>4, <2>3, <3>1
    <3>3. new.next[s[i]] = m.next[s[i]]
      BY <1>12, <3>2
    <3> QED BY <1>1, <1>7, <2>3, <3>1, <3>2, <3>3
  <2> QED BY <1>1, <2>1, <2>2, <2>3
<1>14. ASSUME NEW i \in 1 .. k + 1 PROVE new.pre[t[i]] = IF i = 1 THEN Null ELSE t[i - 1]
  <2>1. CASE i = k + 1
    BY <1>1, <1>4, <1>6, <1>11, <2>1
  <2>2. CASE i \in 1 .. k
    <3>1. t[i] = s[i] /\ new.pre[s[i]] = m.pre[s[i]]
      BY <1>2, <1>4, <1>11, <2>2
    <3>2. i # 1 => t[i - 1] = s[i - 1]
      BY <1>1, <1>4, <2>2
    <3> QED BY <1>8, <2>2, <3>1, <3>2
  <2> QED BY <1>1, <2>1, <2>2
<1>15. Holds(new, t)
  <2>1. new.first = t[1] /\ new.last = t[k + 1]
    BY <1>1, <1>4, <1>6, <1>10
  <2> QED BY <1>4, <1>10, <1>13, <1>14, <2>1 DEF Holds, Represents
<1>16. LeavesOthers(m, new, s, {node})
  BY <1>9, <1>11, <1>12 DEF LeavesOthers
<1> QED BY <1>15, <1>16 DEF new, t

\* list_insert_first (list.c:18): a node that is on no list becomes the first one.
THEOREM InsertFirstPrepends ==
  ASSUME NEW s \in Seq(Nodes), IsInjective(s), NEW m, Holds(m, s),
         NEW node \in Nodes, node \notin Range(s)
  PROVE  /\ Holds(list_insert_first(m, node), <<node>> \o s)
         /\ LeavesOthers(m, list_insert_first(m, node), s, {node})
<1> DEFINE new == list_insert_first(m, node)
           t == <<node>> \o s
           k == Len(s)
<1>1. k \in Nat /\ (s = <<>> <=> k = 0)
  OBVIOUS
<1>2. \A i \in 1 .. k : s[i] \in Nodes /\ s[i] # node /\ s[i] \in Range(s)
  BY DEF Range
<1>3. \A i, j \in 1 .. k : s[i] = s[j] => i = j
  BY DEF IsInjective
<1>4. Len(t) = k + 1 /\ t # <<>> /\ t[1] = node /\ \A i \in 2 .. k + 1 : t[i] = s[i - 1]
  OBVIOUS
<1>5. m \in Memories /\ m.count = k
  BY DEF Holds, Represents
<1>6. /\ m.first = IF k = 0 THEN Null ELSE s[1]
      /\ m.last = IF k = 0 THEN Null ELSE s[k]
  BY <1>1 DEF Holds, Represents
<1>7. \A i \in 1 .. k : m.next[s[i]] = IF i = k THEN Null ELSE s[i + 1]
  BY DEF Holds, Represents
<1>8. \A i \in 1 .. k : m.pre[s[i]] = IF i = 1 THEN Null ELSE s[i - 1]
  BY DEF Holds, Represents
<1>9. k # 0 => m.first \in Nodes /\ m.first = s[1] /\ s[1] \in Range(s)
  BY <1>1, <1>2, <1>6
<1>10. /\ new \in Memories /\ new.count = k + 1
       /\ new.first = node
       /\ new.last = IF k = 0 THEN node ELSE m.last
  BY <1>1, <1>5, <1>9 DEF list_insert_first, list_is_empty, Memories, Pointers
<1>11. \A n \in Nodes : new.next[n] = IF n = node THEN m.first ELSE m.next[n]
  BY <1>5 DEF list_insert_first, Memories
<1>12. \A n \in Nodes : new.pre[n] = IF k # 0 /\ n = s[1] THEN node
                                     ELSE IF n = node THEN Null ELSE m.pre[n]
  BY <1>5, <1>9 DEF list_insert_first, list_is_empty, Memories
<1> HIDE DEF new, t, k
<1>13. ASSUME NEW i \in 1 .. k + 1 PROVE new.next[t[i]] = IF i = k + 1 THEN Null ELSE t[i + 1]
  <2>1. CASE i = 1
    <3>1. new.next[t[i]] = m.first
      BY <1>4, <1>11, <2>1
    <3>2. k # 0 => t[i + 1] = s[1]
      BY <1>1, <1>4, <2>1
    <3> QED BY <1>1, <1>6, <2>1, <3>1, <3>2
  <2>2. CASE i # 1
    <3>1. i - 1 \in 1 .. k /\ t[i] = s[i - 1]
      BY <1>1, <1>4, <2>2
    <3>2. new.next[t[i]] = m.next[s[i - 1]]
      BY <1>2, <1>11, <3>1
    <3>3. i # k + 1 => t[i + 1] = s[i]
      BY <1>1, <1>4, <2>2
    <3> QED BY <1>1, <1>7, <3>1, <3>2, <3>3
  <2> QED BY <2>1, <2>2
<1>14. ASSUME NEW i \in 1 .. k + 1 PROVE new.pre[t[i]] = IF i = 1 THEN Null ELSE t[i - 1]
  <2>1. CASE i = 1
    BY <1>1, <1>2, <1>4, <1>12, <2>1
  <2>2. CASE i = 2
    BY <1>1, <1>2, <1>4, <1>12, <2>2
  <2>3. CASE i > 2
    <3>1. i - 1 \in 1 .. k /\ 1 \in 1 .. k /\ t[i] = s[i - 1] /\ t[i - 1] = s[i - 2]
      BY <1>1, <1>4, <2>3
    <3>2. s[i - 1] \in Nodes /\ s[i - 1] # node /\ s[i - 1] # s[1]
      BY <1>1, <1>2, <1>3, <2>3, <3>1
    <3>3. new.pre[s[i - 1]] = m.pre[s[i - 1]]
      BY <1>12, <3>2
    <3> QED BY <1>1, <1>8, <2>3, <3>1, <3>3
  <2> QED BY <1>1, <2>1, <2>2, <2>3
<1>15. Holds(new, t)
  <2>1. new.first = t[1] /\ new.last = t[k + 1]
    BY <1>1, <1>4, <1>6, <1>10
  <2> QED BY <1>4, <1>10, <1>13, <1>14, <2>1 DEF Holds, Represents
<1>16. LeavesOthers(m, new, s, {node})
  BY <1>9, <1>11, <1>12 DEF LeavesOthers
<1> QED BY <1>15, <1>16 DEF new, t

\* list_remove_first (list.c:74): the first node leaves, the others keep their order.
THEOREM RemoveFirstTakesHead ==
  ASSUME NEW s \in Seq(Nodes), IsInjective(s), s # <<>>, NEW m, Holds(m, s)
  PROVE  /\ m.first = Head(s)
         /\ Holds(list_remove_first(m), Tail(s))
         /\ LeavesOthers(m, list_remove_first(m), s, {})
<1> DEFINE new == list_remove_first(m)
           t == Tail(s)
           k == Len(s)
<1>1. k \in Nat /\ k # 0 /\ Head(s) = s[1]
  OBVIOUS
<1>2. \A i \in 1 .. k : s[i] \in Nodes /\ s[i] # Null /\ s[i] \in Range(s)
  <2>1. \A i \in 1 .. k : s[i] \in Nodes /\ s[i] \in Range(s)
    BY DEF Range
  <2> QED BY <2>1, ListAssumption
<1>3. \A i, j \in 1 .. k : s[i] = s[j] => i = j
  BY DEF IsInjective
<1>4. Len(t) = k - 1 /\ (t = <<>> <=> k = 1) /\ \A i \in 1 .. k - 1 : t[i] = s[i + 1]
  <2>1. Len(t) = k - 1 /\ t \in Seq(Nodes) /\ \A i \in 1 .. k - 1 : t[i] = s[i + 1]
    BY <1>1
  <2> HIDE DEF t, k
  <2> QED BY <1>1, <2>1
<1>5. m \in Memories /\ m.count = k /\ m.first = s[1] /\ m.last = s[k]
  BY DEF Holds, Represents
<1>6. \A i \in 1 .. k : m.next[s[i]] = IF i = k THEN Null ELSE s[i + 1]
  BY DEF Holds, Represents
<1>7. \A i \in 1 .. k : m.pre[s[i]] = IF i = 1 THEN Null ELSE s[i - 1]
  BY DEF Holds, Represents
<1>8. /\ s[1] \in Nodes /\ s[1] \in Range(s)
      /\ m.next[s[1]] = IF k = 1 THEN Null ELSE s[2]
      /\ k # 1 => s[2] \in Nodes /\ s[2] # Null /\ s[2] \in Range(s)
  <2> HIDE DEF k
  <2>1. 1 \in 1 .. k /\ (k # 1 => 2 \in 1 .. k) /\ 1 + 1 = 2
    BY <1>1
  <2>2. m.next[s[1]] = IF 1 = k THEN Null ELSE s[1 + 1]
    BY <1>6, <2>1
  <2> QED BY <1>2, <2>1, <2>2
<1>9. /\ new \in Memories /\ new.count = k - 1
      /\ new.first = IF k = 1 THEN Null ELSE s[2]
      /\ new.last = IF k = 1 THEN Null ELSE s[k]
  BY <1>1, <1>5, <1>8 DEF list_remove_first, list_is_empty, Memories, Pointers
<1>10. \A n \in Nodes : new.next[n] = IF n = s[1] THEN Null ELSE m.next[n]
  BY <1>1, <1>5, <1>8 DEF list_remove_first, list_is_empty, Memories
<1>11. \A n \in Nodes : new.pre[n] = IF n = s[1] \/ (k # 1 /\ n = s[2]) THEN Null ELSE m.pre[n]
  BY <1>1, <1>5, <1>8 DEF list_remove_first, list_is_empty, Memories
<1> HIDE DEF new, t, k
<1>12. ASSUME NEW i \in 1 .. k - 1
       PROVE  /\ i + 1 \in 1 .. k /\ t[i] = s[i + 1] /\ s[i + 1] # s[1] /\ s[i + 1] \in Nodes
              /\ i # k - 1 => t[i + 1] = s[i + 2]
              /\ i # 1 => t[i - 1] = s[i]
  <2>1. i + 1 \in 1 .. k /\ 1 \in 1 .. k /\ t[i] = s[i + 1]
    BY <1>1, <1>4
  <2>2. s[i + 1] # s[1] /\ s[i + 1] \in Nodes
    BY <1>1, <1>2, <1>3, <2>1
  <2>3. i # k - 1 => t[i + 1] = s[i + 2]
    BY <1>1, <1>4
  <2>4. i # 1 => t[i - 1] = s[i]
    BY <1>1, <1>4
  <2> QED BY <2>1, <2>2, <2>3, <2>4
<1>13. ASSUME NEW i \in 1 .. k - 1 PROVE new.next[t[i]] = IF i = k - 1 THEN Null ELSE t[i + 1]
  <2>1. new.next[t[i]] = m.next[s[i + 1]]
    BY <1>10, <1>12
  <2> QED BY <1>1, <1>6, <1>12, <2>1
<1>14. ASSUME NEW i \in 1 .. k - 1 PROVE new.pre[t[i]] = IF i = 1 THEN Null ELSE t[i - 1]
  <2>1. CASE i = 1
    BY <1>1, <1>11, <1>12, <2>1
  <2>2. CASE i # 1
    <3>1. 2 \in 1 .. k /\ s[i + 1] # s[2]
      BY <1>1, <1>3, <1>12, <2>2
    <3>2. new.pre[t[i]] = m.pre[s[i + 1]]
      BY <1>11, <1>12, <3>1
    <3> QED BY <1>1, <1>7, <1>12, <2>2, <3>2
  <2> QED BY <2>1, <2>2
<1>15. Holds(new, t)
  <2>1. k # 1 => t[1] = s[2] /\ t[k - 1] = s[k]
    BY <1>1, <1>4
  <2> QED BY <1>1, <1>4, <1>9, <1>13, <1>14, <2>1 DEF Holds, Represents
<1>16. LeavesOthers(m, new, s, {})
  BY <1>8, <1>10, <1>11 DEF LeavesOthers
<1> QED BY <1>1, <1>5, <1>15, <1>16 DEF new, t

\* list_remove (list.c:110): a node of the list leaves, the others keep their order.  The
\* code does not look whether the node is on the list; that it is, is an assumption.
THEOREM RemoveUnlinks ==
  ASSUME NEW s \in Seq(Nodes), IsInjective(s), NEW m, Holds(m, s),
         NEW node \in Range(s)
  PROVE  /\ Holds(list_remove(m, node), ListRemove(s, node))
         /\ LeavesOthers(m, list_remove(m, node), s, {})
<1> DEFINE new == list_remove(m, node)
           t == ListRemove(s, node)
           k == Len(s)
           p == CHOOSE p \in DOMAIN s : s[p] = node
<1>1. k \in Nat /\ DOMAIN s = 1 .. k /\ (s = <<>> <=> k = 0)
  OBVIOUS
<1>2. \A i \in 1 .. k : s[i] \in Nodes /\ s[i] # Null /\ s[i] \in Range(s)
  <2>1. \A i \in 1 .. k : s[i] \in Nodes /\ s[i] \in Range(s)
    BY DEF Range
  <2> QED BY <2>1, ListAssumption
<1>3. \A i, j \in 1 .. k : s[i] = s[j] => i = j
  BY DEF IsInjective
<1>4. p \in 1 .. k /\ s[p] = node
  BY <1>1 DEF Range
<1>5. /\ Len(t) = k - 1
      /\ \A i \in 1 .. k - 1 : t[i] = IF i < p THEN s[i] ELSE s[i + 1]
  <2>1. k - 1 \in Nat
    BY <1>1, <1>4
  <2>2. t = [i \in 1 .. k - 1 |-> IF i < p THEN s[i] ELSE s[i + 1]]
    BY DEF ListRemove
  <2> HIDE DEF t, k, p
  <2> QED BY <2>1, <2>2
<1>6. t = <<>> <=> k = 1
  <2>1. t \in Seq(Nodes)
    BY RemoveList
  <2> HIDE DEF t, k, p
  <2> QED BY <1>1, <1>4, <1>5, <2>1
<1>7. m \in Memories /\ m.count = k
  BY DEF Holds, Represents
<1>8. k # 0 => m.first = s[1] /\ m.last = s[k]
  BY <1>1 DEF Holds, Represents
<1>9. \A i \in 1 .. k : m.next[s[i]] = IF i = k THEN Null ELSE s[i + 1]
  BY DEF Holds, Represents
<1>10. \A i \in 1 .. k : m.pre[s[i]] = IF i = 1 THEN Null ELSE s[i - 1]
  BY DEF Holds, Represents
<1> HIDE DEF k, p, t
<1>11. /\ m.next[node] = IF p = k THEN Null ELSE s[p + 1]
       /\ m.pre[node] = IF p = 1 THEN Null ELSE s[p - 1]
       /\ node \in Nodes
  BY <1>2, <1>4, <1>9, <1>10
<1>12. /\ m.next[node] \in Nodes /\ m.next[node] # Null <=> p # k
       /\ m.pre[node] \in Nodes /\ m.pre[node] # Null <=> p # 1
  <2>1. p # k => p + 1 \in 1 .. k
    BY <1>1, <1>4
  <2>2. p # 1 => p - 1 \in 1 .. k
    BY <1>1, <1>4
  <2> QED BY <1>2, <1>11, <2>1, <2>2, ListAssumption
<1>13. (node = m.first <=> p = 1) /\ (node = m.last <=> p = k)
  <2>1. 1 \in 1 .. k /\ k \in 1 .. k /\ k # 0
    BY <1>1, <1>4
  <2> QED BY <1>3, <1>4, <1>8, <2>1
<1>14. /\ new \in Memories /\ new.count = k - 1
       /\ new.first = IF p = 1 THEN m.next[node] ELSE m.first
       /\ new.last = IF p = k THEN m.pre[node] ELSE m.last
  BY <1>1, <1>7, <1>11, <1>12, <1>13 DEF list_remove, Memories, Pointers
<1>15. \A n \in Nodes : new.next[n] = IF n = node THEN Null
                                      ELSE IF p # 1 /\ n = s[p - 1] THEN m.next[node]
                                      ELSE m.next[n]
  BY <1>7, <1>11, <1>12 DEF list_remove, Memories
<1>16. \A n \in Nodes : new.pre[n] = IF n = node THEN Null
                                     ELSE IF p # k /\ n = s[p + 1] THEN m.pre[node]
                                     ELSE m.pre[n]
  BY <1>7, <1>11, <1>12 DEF list_remove, Memories
<1> HIDE DEF new
<1>17. ASSUME NEW i \in 1 .. k - 1 PROVE new.next[t[i]] = IF i = k - 1 THEN Null ELSE t[i + 1]
  <2>1. CASE i + 1 = p
    <3>1. i \in 1 .. k /\ t[i] = s[p - 1] /\ p # 1 /\ s[p - 1] = s[i] /\ i # p
      BY <1>1, <1>4, <1>5, <2>1
    <3>2. new.next[t[i]] = m.next[node]
      BY <1>2, <1>3, <1>4, <1>15, <3>1
    <3>3. i # k - 1 => t[i + 1] = s[p + 1]
      BY <1>1, <1>4, <1>5, <2>1
    <3> QED BY <1>1, <1>4, <1>11, <2>1, <3>2, <3>3
  <2>2. CASE i + 1 < p
    <3>1. i \in 1 .. k /\ p - 1 \in 1 .. k /\ t[i] = s[i] /\ t[i + 1] = s[i + 1] /\ i # k - 1
      BY <1>1, <1>4, <1>5, <2>2
    <3>2. s[i] \in Nodes /\ s[i] # node /\ s[i] # s[p - 1]
      BY <1>1, <1>2, <1>3, <1>4, <2>2, <3>1
    <3>3. new.next[s[i]] = m.next[s[i]]
      BY <1>15, <3>2
    <3> QED BY <1>1, <1>9, <3>1, <3>3
  <2>3. CASE i >= p
    <3>1. i + 1 \in 1 .. k /\ t[i] = s[i + 1] /\ (i # k - 1 => t[i + 1] = s[i + 2])
      BY <1>1, <1>4, <1>5, <2>3
    <3>2. s[i + 1] \in Nodes /\ s[i + 1] # node
      BY <1>2, <1>3, <1>4, <2>3, <3>1
    <3>3. p # 1 => s[i + 1] # s[p - 1]
      <4>1. p # 1 => p - 1 \in 1 .. k /\ p - 1 # i + 1
        BY <1>1, <1>4, <2>3
      <4> QED BY <1>3, <3>1, <4>1
    <3>4. new.next[s[i + 1]] = m.next[s[i + 1]]
      BY <1>15, <3>2, <3>3
    <3> QED BY <1>1, <1>9, <3>1, <3>4
  <2> QED BY <1>1, <1>4, <2>1, <2>2, <2>3
<1>18. ASSUME NEW i \in 1 .. k - 1 PROVE new.pre[t[i]] = IF i = 1 THEN Null ELSE t[i - 1]
  <2>1. CASE i = p
    <3>1. i + 1 \in 1 .. k /\ t[i] = s[p + 1] /\ p # k /\ s[p + 1] # node
      BY <1>1, <1>3, <1>4, <1>5, <2>1
    <3>2. new.pre[t[i]] = m.pre[node]
      BY <1>2, <1>16, <2>1, <3>1
    <3>3. i # 1 => t[i - 1] = s[p - 1]
      BY <1>1, <1>4, <1>5, <2>1
    <3> QED BY <1>11, <2>1, <3>2, <3>3
  <2>2. CASE i < p
    <3>1. i \in 1 .. k /\ t[i] = s[i] /\ (i # 1 => t[i - 1] = s[i - 1])
      BY <1>1, <1>4, <1>5, <2>2
    <3>2. s[i] \in Nodes /\ s[i] # node
      BY <1>2, <1>3, <1>4, <2>2, <3>1
    <3>3. p # k => s[i] # s[p + 1]
      <4>1. p # k => p + 1 \in 1 .. k /\ p + 1 # i
        BY <1>1, <1>4, <2>2
      <4> QED BY <1>3, <3>1, <4>1
    <3>4. new.pre[s[i]] = m.pre[s[i]]
      BY <1>16, <3>2, <3>3
    <3> QED BY <1>10, <3>1, <3>4
  <2>3. CASE i > p
    <3>1. i + 1 \in 1 .. k /\ p + 1 \in 1 .. k /\ t[i] = s[i + 1] /\ t[i - 1] = s[i] /\ i # 1
      BY <1>1, <1>4, <1>5, <2>3
    <3>2. s[i + 1] \in Nodes /\ s[i + 1] # node /\ s[i + 1] # s[p + 1]
      BY <1>1, <1>2, <1>3, <1>4, <2>3, <3>1
    <3>3. new.pre[s[i + 1]] = m.pre[s[i + 1]]
      BY <1>16, <3>2
    <3>4. i + 1 # 1 /\ i + 1 - 1 = i
      BY <1>1, <1>4, <2>3
    <3> QED BY <1>10, <3>1, <3>3, <3>4
  <2> QED BY <1>1, <1>4, <2>1, <2>2, <2>3
<1>19. Holds(new, t)
  <2>1. CASE k = 1
    <3>1. t = <<>> /\ p = 1
      BY <1>1, <1>4, <1>6, <2>1
    <3> QED BY <1>5, <1>11, <1>14, <1>17, <1>18, <2>1, <3>1 DEF Holds, Represents
  <2>2. CASE k # 1
    <3>1. new.first = t[1]
      BY <1>1, <1>4, <1>5, <1>8, <1>11, <1>14, <2>2
    <3>2. new.last = t[k - 1]
      BY <1>1, <1>4, <1>5, <1>8, <1>11, <1>14, <2>2
    <3> QED BY <1>5, <1>6, <1>14, <1>17, <1>18, <2>2, <3>1, <3>2 DEF Holds, Represents
  <2> QED BY <2>1, <2>2
<1>20. LeavesOthers(m, new, s, {})
  <2>1. p # 1 => s[p - 1] \in Range(s)
    BY <1>1, <1>2, <1>4
  <2>2. p # k => s[p + 1] \in Range(s)
    BY <1>1, <1>2, <1>4
  <2> QED BY <1>15, <1>16, <2>1, <2>2 DEF LeavesOthers
<1> QED BY <1>19, <1>20 DEF new, t
=============================================================================
