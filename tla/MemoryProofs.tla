---------------------------- MODULE MemoryProofs ----------------------------
(***************************************************************************)
(* No page of memory has two owners, none in use is given back, and no     *)
(* page is mapped where one is mapped already, for any number of           *)
(* processes, pages and descriptors, programs and heaps of any size.       *)
(***************************************************************************)
EXTENDS Memory, FiniteSetTheorems, WellFoundedInduction, TLAPS

\* Where a process is, by what the step is about: the slot it allocates, the child whose
\* space it copies, the child it reaps, a space that is not, or no longer, anybody's.
Forking == {"fork_desc", "fork_stack", "fork_dir", "fork_failed"}
Copying == {"fork_copy", "copy", "undo_copy", "copy_failed"}
Reaping == {"reap", "reap_stack"}
Building == {"copy", "undo_copy", "load", "stack", "undo_exec", "drop_old"}

TaskTs == [named : BOOLEAN, state : {"free", "created", "running", "zombie"},
           parent : Procs \cup {NoProc}, sel : 0 .. LastDesc, esp0 : 0 .. LastPage,
           cr3 : Bad .. LastPage, heap : Nat, program : 0 .. LastPage]

Ops == [pc : {"user", "grow"} \cup Forking \cup Copying \cup Reaping \cup Building,
        child : Procs \cup {NoProc}, sel : 0 .. LastDesc, dir : 0 .. LastPage,
        want : SUBSET (0 .. LastV), held : 0 .. LastPage, end : Nat]

MemoryTypeOK ==
    /\ bits \subseteq Pages
    /\ lost \subseteq Pages
    /\ gdt \subseteq 1 .. LastDesc
    /\ task \in [Procs -> TaskTs]
    /\ tabs \in [Pages -> [Tables -> 0 .. LastPage]]
    /\ maps \in [Pages -> [Vaddrs -> 0 .. LastPage]]
    /\ op \in [Procs -> Ops]
-----------------------------------------------------------------------------
(* Who is where.                                                           *)

CallersRun ==
    \A p \in Procs : ~At(p, "user") => task[p].state = "running" /\ task[p].cr3 \in Pages

OneAtATime ==
    \A p, q \in Procs :
        \/ op[p].pc \in Forking /\ op[q].pc \in Forking
        \/ op[p].pc \in Reaping /\ op[q].pc \in Reaping
        \/ op[p].pc \in Copying /\ op[q].pc \in Copying /\ op[p].child = op[q].child
        => p = q

ChildAsFork ==
    \A p \in Procs : op[p].pc \in Forking =>
        /\ op[p].child \in Slots
        /\ task[op[p].child].state = "free"
        /\ op[p].pc \in {"fork_desc", "fork_stack"} => task[op[p].child].esp0 = None
        /\ At(p, "fork_dir") => task[op[p].child].esp0 \in Pages

ChildAsCopy ==
    \A p \in Procs : op[p].pc \in Copying =>
        op[p].child \in Slots /\ task[op[p].child].state = "created"

ChildAsZombie ==
    \A p \in Procs : op[p].pc \in Reaping =>
        /\ op[p].child \in Slots
        /\ task[op[p].child].state = "zombie"
        /\ task[op[p].child].cr3 = op[p].dir

\* A stack without a task is of a fork that has not come to task_init's end.
FreeSlots ==
    /\ \A c \in Procs : task[c].named <=> task[c].state # "free"
    /\ \A c \in Procs : task[c].state = "free" => task[c].cr3 = None
    /\ \A c \in Procs : task[c].state = "free" /\ task[c].esp0 # None =>
          \E p \in Procs : op[p].pc \in {"fork_dir", "fork_failed"} /\ op[p].child = c

SpacesByState ==
    /\ \A c \in Procs : task[c].state = "created" => task[c].cr3 \in Pages
    /\ \A c \in Procs : task[c].state = "running" => task[c].cr3 # None
    /\ \A c \in Procs : task[c].state = "zombie" =>
          task[c].cr3 \in Pages \/ \E p \in Procs : At(p, "reap_stack") /\ op[p].child = c

DirWhen ==
    \A p \in Procs : op[p].dir # None <=> op[p].pc \in Building \cup {"grow", "reap"}

DirPrivate ==
    \A p \in Procs : op[p].pc \in Building =>
        /\ \A q \in Procs : task[q].cr3 # op[p].dir
        /\ \A q \in Procs : q # p => op[q].dir # op[p].dir

DirOwn == \A p \in Procs : At(p, "grow") => op[p].dir = task[p].cr3

Cr3Apart == \A q, r \in Procs : q # r /\ task[q].cr3 \in Pages => task[q].cr3 # task[r].cr3

Wants ==
    \A p \in Procs :
        /\ op[p].pc \notin Mapping => op[p].want = {} /\ op[p].held = None
        /\ op[p].want = {} => op[p].held = None

Control ==
    /\ CallersRun /\ OneAtATime /\ ChildAsFork /\ ChildAsCopy /\ ChildAsZombie
    /\ FreeSlots /\ SpacesByState /\ DirWhen /\ DirPrivate /\ DirOwn /\ Cr3Apart /\ Wants
-----------------------------------------------------------------------------
(* The pages.                                                              *)

StackPages == {x \in Pages : \E q \in Procs \ Released : task[q].esp0 = x}
HeldPages == {x \in Pages : \E q \in Procs : op[q].held = x}
TablePages == {x \in Pages : \E d \in Pages, t \in Tables : tabs[d][t] = x}
MappedPages == {x \in Pages : \E d \in Pages, v \in Vaddrs : maps[d][v] = x}

\* Five disjoint sets have the pages b that are allocated, all but those in l.
Split(S, H, D, T, M, b, l) ==
    /\ S \cap H = {} /\ S \cap D = {} /\ S \cap T = {} /\ S \cap M = {}
    /\ H \cap D = {} /\ H \cap T = {} /\ H \cap M = {}
    /\ D \cap T = {} /\ D \cap M = {}
    /\ T \cap M = {}
    /\ S \cup H \cup D \cup T \cup M \subseteq b
    /\ b \subseteq S \cup H \cup D \cup T \cup M \cup l

PagesSplit == Split(StackPages, HeldPages, Spaces, TablePages, MappedPages, bits, lost)

\* ... and in each set every page has one use.
OneStack ==
    \A q, r \in Procs \ Released : task[q].esp0 = task[r].esp0 /\ task[q].esp0 # None => q = r
OneHeld == \A q, r \in Procs : op[q].held = op[r].held /\ op[q].held # None => q = r
OneTable ==
    \A d, e \in Pages : \A t, u \in Tables :
        tabs[d][t] = tabs[e][u] /\ tabs[d][t] # None => d = e /\ t = u
OneAddress ==
    \A d, e \in Pages : \A v, w \in Vaddrs :
        maps[d][v] = maps[e][w] /\ maps[d][v] # None => d = e /\ v = w

ReleasedFree == \A q \in Released : task[q].esp0 \notin bits

\* Nothing is in the directory d.
Clear(d) ==
    /\ \A t \in Tables : tabs[d][t] = None
    /\ \A v \in Vaddrs : maps[d][v] = None

ClearElsewhere ==
    /\ \A d \in Pages \ Spaces : Clear(d)
    /\ \A c \in Procs : task[c].state = "created" => Clear(task[c].cr3)

TableBeneath == \A d \in Pages : \A v \in Vaddrs : maps[d][v] # None => tabs[d][Table(v)] # None

Owners ==
    /\ PagesSplit /\ OneStack /\ OneHeld /\ OneTable /\ OneAddress /\ ReleasedFree
    /\ ClearElsewhere /\ TableBeneath

MemInv == MemoryTypeOK /\ Control /\ Owners
-----------------------------------------------------------------------------
(* What is mapped where: in the space of a program, pages up to its heap's *)
(* end, and the stack; a call that is mapping pages has not mapped yet     *)
(* those it still wants.                                                   *)

Below(d, n) == \A v \in MappedIn(d) : v < UpPages(n) \/ v = StackV

\* Only a task that runs, or has run, has a program.
ProgramWhen(q) == task[q].state \in {"free", "created"} => task[q].program = None

HeapRight(q) ==
    task[q].program = task[q].cr3 /\ task[q].cr3 \in Pages =>
        /\ task[q].heap >= UserBase * PageUnits
        /\ ~At(q, "grow") => Below(task[q].cr3, task[q].heap)

WantsNew(q) == op[q].pc \in Mapping => op[q].want \subseteq Vaddrs \ MappedIn(op[q].dir)

LoadsBelow(q) ==
    At(q, "load") =>
        /\ op[q].end >= UserBase * PageUnits
        /\ UpPages(op[q].end) <= StackV
        /\ \A v \in op[q].want \cup MappedIn(op[q].dir) : v < UpPages(op[q].end)

StackLast(q) ==
    At(q, "stack") =>
        /\ task[q].program = op[q].dir
        /\ task[q].heap >= UserBase * PageUnits
        /\ op[q].want \subseteq {StackV}
        /\ Below(op[q].dir, task[q].heap)

GrowsAbove(q) ==
    At(q, "grow") =>
        LET new == NewPages(task[q].heap, op[q].end) IN
        /\ task[q].program = task[q].cr3
        /\ task[q].heap <= op[q].end
        /\ op[q].end <= StackV * PageUnits
        /\ op[q].want \subseteq new
        /\ \A v \in MappedIn(op[q].dir) :
              v < UpPages(task[q].heap) \/ v = StackV \/ v \in new \ op[q].want

HeapOf(q) ==
    /\ ProgramWhen(q) /\ HeapRight(q) /\ WantsNew(q) /\ LoadsBelow(q) /\ StackLast(q)
    /\ GrowsAbove(q)

HeapInv == \A q \in Procs : HeapOf(q)
-----------------------------------------------------------------------------
(* Arithmetic.                                                             *)

\* A set of numbers that is not empty has a least one: the intervals 0 .. i are finite sets,
\* of which there is a minimal one.
LEMMA LeastIn ==
  ASSUME NEW S \in SUBSET Nat, S # {}
  PROVE  Least(S) \in S /\ \A y \in S : Least(S) <= y
<1> DEFINE Initial == {0 .. i : i \in S}
<1>1. Initial \subseteq FiniteSubsetsOf(Nat) /\ Initial # {}
  <2>1. \A i \in S : 0 .. i \in SUBSET Nat /\ IsFiniteSet(0 .. i)
    BY FS_Interval
  <2> QED BY <2>1 DEF FiniteSubsetsOf
<1>2. PICK m \in Initial : \A b \in Initial : ~(<<b, m>> \in StrictSubsetOrdering(Nat))
  BY <1>1, WFMin, FS_StrictSubsetOrderingWellFounded, Zenon
<1>3. PICK i \in S : m = 0 .. i
  OBVIOUS
<1>4. \A j \in S : i <= j
  <2>1. TAKE j \in S
  <2>2. CASE j < i
    <3>1. 0 .. j \subseteq 0 .. i /\ i \in 0 .. i /\ i \notin 0 .. j
      BY <2>2
    <3>2. <<0 .. j, 0 .. i>> \in StrictSubsetOrdering(Nat)
      BY <3>1 DEF StrictSubsetOrdering
    <3> QED BY <1>2, <1>3, <3>2
  <2> QED BY <2>2
<1> QED BY <1>4 DEF Least

\* UpPages rounds up.
LEMMA RoundsUp ==
  ASSUME NEW n \in Nat
  PROVE  /\ UpPages(n) \in Nat
         /\ \A k \in Nat : n <= k * PageUnits <=> UpPages(n) <= k
<1> DEFINE a == n + PageUnits - 1
           q == a \div PageUnits
<1>1. PageUnits \in Nat \ {0} /\ a \in Nat
  BY MemoryAssumption
<1>2. q \in Nat /\ PageUnits * q <= a /\ a < PageUnits * q + PageUnits
  BY <1>1
<1>3. \A k \in Nat : n <= k * PageUnits <=> q <= k
  <2>1. TAKE k \in Nat
  <2> HIDE DEF q
  <2>2. CASE q <= k
    <3>1. PageUnits * q <= PageUnits * k
      BY <1>1, <1>2, <2>2
    <3> QED BY <1>1, <1>2, <2>2, <3>1
  <2>3. CASE k + 1 <= q
    <3>1. PageUnits * (k + 1) <= PageUnits * q
      BY <1>1, <1>2, <2>3
    <3>2. PageUnits * (k + 1) = k * PageUnits + PageUnits
      BY <1>1
    <3> QED BY <1>1, <1>2, <2>3, <3>1, <3>2
  <2> QED BY <1>2, <2>2, <2>3
<1> QED BY <1>2, <1>3 DEF UpPages

LEMMA RoundsUpMonotonic ==
  ASSUME NEW m \in Nat, NEW n \in Nat, m <= n
  PROVE  UpPages(m) <= UpPages(n)
<1>1. UpPages(n) * PageUnits \in Nat
  BY RoundsUp, MemoryAssumption
<1>2. n <= UpPages(n) * PageUnits
  BY RoundsUp
<1> QED BY <1>1, <1>2, RoundsUp

\* Whole pages can be taken out.
LEMMA RoundsUpBehind ==
  ASSUME NEW k \in Nat, NEW n \in Nat
  PROVE  k + UpPages(n) <= UpPages(k * PageUnits + n)
<1> DEFINE m == k * PageUnits + n
<1>1. PageUnits \in Nat \ {0} /\ m \in Nat
  BY MemoryAssumption
<1>2. UpPages(m) \in Nat /\ m <= UpPages(m) * PageUnits /\ UpPages(n) \in Nat
  BY <1>1, RoundsUp
<1>3. UpPages(m) >= k
  <2>1. CASE UpPages(m) + 1 <= k
    <3>1. (UpPages(m) + 1) * PageUnits <= k * PageUnits
      BY <1>1, <1>2, <2>1
    <3> QED BY <1>1, <1>2, <3>1
  <2> QED BY <1>2, <2>1
<1>4. n <= (UpPages(m) - k) * PageUnits
  BY <1>1, <1>2
<1>5. UpPages(n) <= UpPages(m) - k
  <2>1. UpPages(m) - k \in Nat
    BY <1>2, <1>3
  <2> QED BY <2>1, <1>4, RoundsUp
<1> QED BY <1>2, <1>5
-----------------------------------------------------------------------------
(* The five sets.                                                          *)

\* A page that was free gets a use, ...
LEMMA SplitTake ==
  ASSUME NEW S, NEW H, NEW D, NEW T, NEW M, NEW b, NEW l, Split(S, H, D, T, M, b, l),
         NEW x, x \notin b
  PROVE  /\ Split(S \cup {x}, H, D, T, M, b \cup {x}, l)
         /\ Split(S, H \cup {x}, D, T, M, b \cup {x}, l)
         /\ Split(S, H, D \cup {x}, T, M, b \cup {x}, l)
         /\ Split(S, H, D, T \cup {x}, M, b \cup {x}, l)
BY DEF Split

\* ... a page is released, ...
LEMMA SplitGive ==
  ASSUME NEW S, NEW H, NEW D, NEW T, NEW M, NEW b, NEW l, Split(S, H, D, T, M, b, l), NEW x
  PROVE  /\ x \in S => Split(S \ {x}, H, D, T, M, b \ {x}, l)
         /\ x \in D => Split(S, H, D \ {x}, T, M, b \ {x}, l)
         /\ x \in T => Split(S, H, D, T \ {x}, M, b \ {x}, l)
         /\ x \in M => Split(S, H, D, T, M \ {x}, b \ {x}, l)
BY DEF Split

\* ... lost, ...
LEMMA SplitLose ==
  ASSUME NEW S, NEW H, NEW D, NEW T, NEW M, NEW b, NEW l, Split(S, H, D, T, M, b, l), NEW x
  PROVE  /\ x \in H => Split(S, H \ {x}, D, T, M, b, l \cup {x})
         /\ x \in D => Split(S, H, D \ {x}, T, M, b, l \cup {x})
BY DEF Split

\* ... or mapped.
LEMMA SplitMove ==
  ASSUME NEW S, NEW H, NEW D, NEW T, NEW M, NEW b, NEW l, Split(S, H, D, T, M, b, l),
         NEW x \in H
  PROVE  Split(S, H \ {x}, D, T, M \cup {x}, b, l)
BY DEF Split

\* NewPage is a page that is free.
LEMMA FreshPage ==
  ASSUME bits \subseteq Pages, ~Shortage
  PROVE  NewPage \in Pages \ bits
<1>1. Pages \ bits # {}
  BY DEF Shortage
<1>2. Pages \ bits \in SUBSET Nat
  BY DEF Pages
<1> QED BY <1>1, <1>2, LeastIn DEF NewPage

\* What is in the five sets is allocated.
LEMMA UsedAllocated ==
  ASSUME MemInv
  PROVE  /\ \A q \in Procs \ Released : task[q].esp0 # None => task[q].esp0 \in bits
         /\ \A q \in Procs : op[q].held # None => op[q].held \in bits
         /\ \A q \in Procs : op[q].dir # None => op[q].dir \in bits
         /\ \A q \in Procs : task[q].cr3 \in Pages => task[q].cr3 \in bits
         /\ \A d \in Pages, t \in Tables : tabs[d][t] # None => tabs[d][t] \in bits
         /\ \A d \in Pages, v \in Vaddrs : maps[d][v] # None => maps[d][v] \in bits
<1>1. StackPages \cup HeldPages \cup Spaces \cup TablePages \cup MappedPages \subseteq bits
  BY DEF MemInv, Owners, PagesSplit, Split
<1>2. Pages = {x \in 0 .. LastPage : x # None} /\ None \notin Pages /\ Bad \notin Pages
  BY MemoryAssumption DEF Pages, None, Bad
<1>3. /\ \A q \in Procs : task[q].esp0 \in 0 .. LastPage /\ op[q].held \in 0 .. LastPage
      /\ \A q \in Procs : op[q].dir \in 0 .. LastPage
  BY DEF MemInv, MemoryTypeOK, TaskTs, Ops
<1>4. /\ \A d \in Pages, t \in Tables : tabs[d][t] \in 0 .. LastPage
      /\ \A d \in Pages, v \in Vaddrs : maps[d][v] \in 0 .. LastPage
  BY DEF MemInv, MemoryTypeOK
<1>5. \A q \in Procs \ Released : task[q].esp0 # None => task[q].esp0 \in bits
  BY <1>1, <1>2, <1>3 DEF StackPages
<1>6. \A q \in Procs : op[q].held # None => op[q].held \in bits
  BY <1>1, <1>2, <1>3 DEF HeldPages
<1>7. \A q \in Procs : op[q].dir # None => op[q].dir \in bits
  BY <1>1, <1>2, <1>3 DEF Spaces
<1>8. \A q \in Procs : task[q].cr3 \in Pages => task[q].cr3 \in bits
  BY <1>1, <1>2 DEF Spaces
<1>9. \A d \in Pages, t \in Tables : tabs[d][t] # None => tabs[d][t] \in bits
  BY <1>1, <1>2, <1>4 DEF TablePages
<1>10. \A d \in Pages, v \in Vaddrs : maps[d][v] # None => maps[d][v] \in bits
  BY <1>1, <1>2, <1>4 DEF MappedPages
<1> QED BY <1>5, <1>6, <1>7, <1>8, <1>9, <1>10
-----------------------------------------------------------------------------
(* Steps of one process that change of the tasks nothing that Control is   *)
(* about.                                                                  *)

SameTasks ==
    \A q \in Procs :
        /\ task'[q].named = task[q].named /\ task'[q].state = task[q].state
        /\ task'[q].esp0 = task[q].esp0 /\ task'[q].cr3 = task[q].cr3

\* Nobody begins to fork or to reap, and who is doing it goes on with the same child.
SameChild(p) ==
    /\ op'[p].pc \in Forking =>
          /\ op[p].pc \in Forking
          /\ op'[p].child = op[p].child
          /\ op'[p].pc \in {"fork_desc", "fork_stack"} => task[op[p].child].esp0 = None
          /\ ~At(p, "fork_dir")'
    /\ op[p].pc \in {"fork_dir", "fork_failed"} /\ task[op[p].child].esp0 # None =>
          op'[p].pc = "fork_failed"
    /\ op'[p].pc \in Copying => op[p].pc \in Copying /\ op'[p].child = op[p].child
    /\ op'[p].pc \in Reaping => op'[p].pc = op[p].pc /\ op'[p].child = op[p].child
    /\ op[p].pc = "reap_stack" => op'[p].pc = "reap_stack"

\* A space of no task's stays private.
SameSpace(p) ==
    /\ op'[p].dir # None <=> op'[p].pc \in Building \cup {"grow", "reap"}
    /\ op'[p].pc \in Building =>
          \/ op[p].pc \in Building /\ op'[p].dir = op[p].dir
          \/ op'[p].dir \in Pages \ bits
    /\ op'[p].pc = "reap" => op'[p].dir = op[p].dir
    /\ op'[p].pc = "grow" => op'[p].dir = task[p].cr3

LEMMA CallerMoves ==
  ASSUME MemInv, NEW p \in Procs, \A q \in Procs : q # p => op'[q] = op[q], SameTasks,
         task[p].state = "running", task[p].cr3 \in Pages,
         SameChild(p), SameSpace(p),
         op'[p].pc \notin Mapping => op'[p].want = {} /\ op'[p].held = None,
         op'[p].want = {} => op'[p].held = None
  PROVE  Control'
<1>1. \A q \in Procs : q # p => op'[q] = op[q]
  OBVIOUS
<1>2. Control /\ MemoryTypeOK
  BY DEF MemInv
<1>3. CallersRun'
  BY <1>1, <1>2 DEF Control, CallersRun, At, SameTasks
<1>4. OneAtATime'
  BY <1>1, <1>2 DEF Control, OneAtATime, SameChild, Forking, Copying, Reaping
<1>5. ChildAsFork'
  BY <1>1, <1>2 DEF Control, ChildAsFork, SameChild, SameTasks, Slots, At
<1>6. ChildAsCopy'
  BY <1>1, <1>2 DEF Control, ChildAsCopy, SameChild, SameTasks, Slots
<1>7. ChildAsZombie'
  <2>1. \A q \in Procs : op'[q].pc \in Reaping =>
           op'[q].pc = op[q].pc /\ op'[q].child = op[q].child /\ op'[q].dir = op[q].dir
    <3>1. op'[p].pc = "reap_stack" => op'[p].dir = None
      BY DEF SameSpace, Building
    <3>2. op[p].pc = "reap_stack" => op[p].dir = None
      BY <1>2 DEF Control, DirWhen, Building
    <3> QED BY <1>1, <3>1, <3>2 DEF SameChild, SameSpace, Reaping
  <2> QED BY <1>2, <2>1 DEF Control, ChildAsZombie, SameTasks, Slots
<1>8. FreeSlots'
  <2>1. \A c \in Procs : task[c].state = "free" /\ task[c].esp0 # None =>
           \E q \in Procs : op'[q].pc \in {"fork_dir", "fork_failed"} /\ op'[q].child = c
    <3>1. TAKE c \in Procs
    <3>2. HAVE task[c].state = "free" /\ task[c].esp0 # None
    <3>3. PICK q \in Procs : op[q].pc \in {"fork_dir", "fork_failed"} /\ op[q].child = c
      BY <1>2, <3>2 DEF Control, FreeSlots
    <3>4. op'[q].pc \in {"fork_dir", "fork_failed"} /\ op'[q].child = c
      BY <1>1, <3>2, <3>3 DEF SameChild, Forking
    <3> QED BY <3>4
  <2>2. \A c \in Procs : task'[c].named <=> task'[c].state # "free"
    BY <1>2 DEF Control, FreeSlots, SameTasks
  <2>3. \A c \in Procs : task'[c].state = "free" => task'[c].cr3 = None
    BY <1>2 DEF Control, FreeSlots, SameTasks
  <2>4. \A c \in Procs : task'[c].state = "free" /\ task'[c].esp0 # None =>
           \E q \in Procs : op'[q].pc \in {"fork_dir", "fork_failed"} /\ op'[q].child = c
    BY <2>1 DEF SameTasks
  <2> QED BY <2>2, <2>3, <2>4 DEF FreeSlots
<1>9. SpacesByState'
  <2>1. \A c, q \in Procs : At(q, "reap_stack") /\ op[q].child = c =>
           At(q, "reap_stack")' /\ op'[q].child = c
    BY <1>1 DEF SameChild, At, Reaping
  <2> QED BY <1>2, <2>1 DEF Control, SpacesByState, SameTasks
<1>10. DirWhen'
  BY <1>1, <1>2 DEF Control, DirWhen, SameSpace
<1>11. DirPrivate'
  <2>1. CASE op'[p].dir = op[p].dir /\ op[p].pc \in Building
    BY <1>1, <1>2, <2>1 DEF Control, DirPrivate, SameTasks
  <2>2. CASE op'[p].dir \in Pages \ bits
    <3>1. \A q \in Procs : task'[q].cr3 # op'[p].dir
      BY <2>2, UsedAllocated DEF SameTasks
    <3>2. \A q \in Procs : q # p => op'[q].dir # op'[p].dir
      <4>1. op'[p].dir # None
        BY <2>2 DEF Pages, None
      <4> QED BY <1>1, <2>2, <4>1, UsedAllocated
    <3> QED BY <1>1, <1>2, <3>1, <3>2 DEF Control, DirPrivate, SameTasks
  <2>3. CASE op'[p].pc \notin Building
    <3>1. ASSUME NEW q \in Procs, q # p, op[q].pc \in Building
          PROVE  op'[p].dir # op[q].dir
      <4>1. op[q].dir # None
        BY <1>2, <3>1 DEF Control, DirWhen
      <4>2. task[p].cr3 # op[q].dir /\ op[p].dir # op[q].dir
        BY <1>2, <3>1 DEF Control, DirPrivate
      <4> QED BY <2>3, <4>1, <4>2 DEF SameSpace
    <3> QED BY <1>1, <1>2, <2>3, <3>1 DEF Control, DirPrivate, SameTasks
  <2> QED BY <2>1, <2>2, <2>3 DEF SameSpace
<1>12. DirOwn'
  BY <1>1, <1>2 DEF Control, DirOwn, SameSpace, SameTasks, At
<1>13. Cr3Apart'
  BY <1>1, <1>2 DEF Control, Cr3Apart, SameTasks
<1>14. Wants'
  BY <1>1, <1>2 DEF Control, Wants
<1> QED BY <1>3, <1>4, <1>5, <1>6, <1>7, <1>8, <1>9, <1>10, <1>11, <1>12, <1>13, <1>14 DEF Control
\* What such a step leaves of the five sets.
LEMMA StacksKept ==
  ASSUME MemInv, NEW p \in Procs, \A q \in Procs : q # p => op'[q] = op[q], SameTasks,
         HalfReleased \subseteq {p}, ~At(p, "fork_failed"),
         At(p, "fork_failed")' => op'[p].child \in Procs /\ task[op'[p].child].esp0 = None
  PROVE  StackPages' = StackPages /\ OneStack' /\ ReleasedFree'
<1>1. \A q \in Procs : q # p => op'[q] = op[q]
  OBVIOUS
<1>2. HalfReleased = {}
  BY DEF HalfReleased
<1>3. HalfReleased' = {}
  <2>1. ASSUME NEW q \in Procs, op'[q].pc = "fork_failed" PROVE task'[op'[q].child].esp0 = None
    <3>1. CASE q = p
      BY <2>1, <3>1 DEF At, SameTasks
    <3>2. CASE q # p
      <4>1. op[q].pc = "fork_failed" /\ op[q].child \in Procs
        BY <1>1, <2>1, <3>2 DEF MemInv, Control, ChildAsFork, Forking, Slots
      <4>2. task[op[q].child].esp0 = None
        BY <1>2, <4>1 DEF HalfReleased, At
      <4> QED BY <1>1, <3>2, <4>1, <4>2 DEF SameTasks
    <3> QED BY <3>1, <3>2
  <2> QED BY <2>1 DEF HalfReleased, At
<1>4. Released = {} /\ Released' = {}
  BY <1>2, <1>3 DEF Released
<1>5. StackPages' = StackPages
  BY <1>4 DEF StackPages, SameTasks
<1>6. OneStack'
  BY <1>4 DEF OneStack, SameTasks, MemInv, Owners
<1> QED BY <1>4, <1>5, <1>6 DEF ReleasedFree

LEMMA HeldChanges ==
  ASSUME MemInv, NEW p \in Procs, \A q \in Procs : q # p => op'[q] = op[q]
  PROVE  /\ op'[p].held = op[p].held => HeldPages' = HeldPages /\ OneHeld'
         /\ op'[p].held = None => HeldPages' = HeldPages \ {op[p].held} /\ OneHeld'
         /\ op[p].held = None /\ op'[p].held \in Pages \ bits =>
               HeldPages' = HeldPages \cup {op'[p].held} /\ OneHeld'
<1>1. \A q \in Procs : q # p => op'[q] = op[q]
  OBVIOUS
<1>2. OneHeld /\ \A q \in Procs : op[q].held # None => op[q].held \in bits
  BY UsedAllocated DEF MemInv, Owners
<1>3. None \notin Pages
  BY DEF None, Pages
<1>4. ASSUME op'[p].held = op[p].held PROVE HeldPages' = HeldPages /\ OneHeld'
  <2>1. \A q \in Procs : op'[q].held = op[q].held
    BY <1>1, <1>4
  <2>2. HeldPages' = HeldPages
    BY <2>1 DEF HeldPages
  <2>3. OneHeld'
    BY <1>2, <2>1 DEF OneHeld
  <2> QED BY <2>2, <2>3
<1>5. ASSUME op'[p].held = None PROVE HeldPages' = HeldPages \ {op[p].held} /\ OneHeld'
  <2>1. OneHeld'
    BY <1>1, <1>2, <1>5 DEF OneHeld
  <2>2. \A x \in Pages : (\E q \in Procs : op'[q].held = x)
                         <=> (\E q \in Procs : op[q].held = x) /\ x # op[p].held
    BY <1>1, <1>2, <1>3, <1>5 DEF OneHeld
  <2> QED BY <1>5, <2>1, <2>2 DEF HeldPages
<1>6. ASSUME op[p].held = None, op'[p].held \in Pages \ bits
      PROVE  HeldPages' = HeldPages \cup {op'[p].held} /\ OneHeld'
  <2>1. OneHeld'
    BY <1>1, <1>2, <1>6 DEF OneHeld
  <2>2. \A x \in Pages : (\E q \in Procs : op'[q].held = x)
                         <=> (\E q \in Procs : op[q].held = x) \/ x = op'[p].held
    BY <1>1, <1>2, <1>3, <1>6
  <2>3. \A x : x \in HeldPages' <=> x \in HeldPages \/ x = op'[p].held
    BY <1>6, <2>2 DEF HeldPages
  <2>4. HeldPages' = HeldPages \cup {op'[p].held}
    BY <2>3
  <2> QED BY <2>1, <2>4
<1> QED BY <1>4, <1>5, <1>6

LEMMA SpacesChange ==
  ASSUME MemInv, NEW p \in Procs, \A q \in Procs : q # p => op'[q] = op[q],
         \A q \in Procs : task'[q].cr3 = task[q].cr3
  PROVE  /\ op'[p].dir = op[p].dir => Spaces' = Spaces
         /\ op[p].dir = None /\ op'[p].dir \in Pages => Spaces' = Spaces \cup {op'[p].dir}
         /\ op[p].pc \in Building /\ op'[p].dir = None => Spaces' = Spaces \ {op[p].dir}
         /\ At(p, "grow") /\ op'[p].dir = None => Spaces' = Spaces
<1>1. \A q \in Procs : q # p => op'[q] = op[q]
  OBVIOUS
<1>2. DirPrivate /\ DirOwn
  BY DEF MemInv, Control
<1>3. Spaces = {x \in {task[q].cr3 : q \in Procs} \cup {op[q].dir : q \in Procs} :
                   x # None /\ x # Bad}
  BY DEF Spaces
<1>4. Spaces' = {x \in {task[q].cr3 : q \in Procs} \cup {op'[q].dir : q \in Procs} :
                   x # None /\ x # Bad}
  BY DEF Spaces
<1>5. \A x : x \in Spaces' <=> /\ x # None /\ x # Bad
                              /\ \E q \in Procs : x = task[q].cr3 \/ x = op'[q].dir
  BY <1>4
<1>6. \A x : x \in Spaces <=> /\ x # None /\ x # Bad
                             /\ \E q \in Procs : x = task[q].cr3 \/ x = op[q].dir
  BY <1>3
<1>7. ASSUME op'[p].dir = op[p].dir PROVE Spaces' = Spaces
  <2>1. \A q \in Procs : op'[q].dir = op[q].dir
    BY <1>1, <1>7
  <2> QED BY <1>3, <1>4, <2>1
<1>8. ASSUME op[p].dir = None, op'[p].dir \in Pages
      PROVE  Spaces' = Spaces \cup {op'[p].dir}
  <2>1. op'[p].dir # None /\ op'[p].dir # Bad
    BY <1>8, MemoryAssumption DEF None, Bad, Pages
  <2> QED BY <1>1, <1>5, <1>6, <1>8, <2>1
<1>9. ASSUME op[p].pc \in Building, op'[p].dir = None PROVE Spaces' = Spaces \ {op[p].dir}
  <2>1. /\ \A q \in Procs : task[q].cr3 # op[p].dir
        /\ \A q \in Procs : q # p => op[q].dir # op[p].dir
    BY <1>2, <1>9 DEF DirPrivate
  <2>2. \A x : x \in Spaces' => x \in Spaces /\ x # op[p].dir
    BY <1>1, <1>5, <1>6, <1>9, <2>1
  <2>3. \A x : x \in Spaces /\ x # op[p].dir => x \in Spaces'
    BY <1>1, <1>5, <1>6
  <2> QED BY <2>2, <2>3
<1>10. ASSUME At(p, "grow"), op'[p].dir = None PROVE Spaces' = Spaces
  <2>1. op[p].dir = task[p].cr3
    BY <1>2, <1>10 DEF DirOwn
  <2>2. \A x : x \in Spaces' => x \in Spaces
    BY <1>1, <1>5, <1>6, <1>10
  <2>3. \A x : x \in Spaces => x \in Spaces'
    BY <1>1, <1>5, <1>6, <2>1
  <2> QED BY <2>2, <2>3
<1> QED BY <1>7, <1>8, <1>9, <1>10

LEMMA ClearKept ==
  ASSUME MemInv, SameTasks, UNCHANGED <<tabs, maps>>, Spaces \subseteq Spaces'
  PROVE  ClearElsewhere' /\ TableBeneath'
<1>1. ClearElsewhere /\ TableBeneath /\ \A d : Clear(d)' <=> Clear(d)
  BY DEF MemInv, Owners, Clear
<1>2. \A d \in Pages \ Spaces' : Clear(d)'
  BY <1>1 DEF ClearElsewhere
<1>3. (\A c \in Procs : task[c].state = "created" => Clear(task[c].cr3))'
  BY <1>1 DEF ClearElsewhere, SameTasks, Clear
<1>4. TableBeneath'
  BY <1>1 DEF TableBeneath
<1> QED BY <1>2, <1>3, <1>4 DEF ClearElsewhere
LEMMA TablesKept ==
  ASSUME MemInv, UNCHANGED <<tabs, maps>>
  PROVE  TablePages' = TablePages /\ MappedPages' = MappedPages /\ OneTable' /\ OneAddress'
BY DEF MemInv, Owners, TablePages, MappedPages, OneTable, OneAddress
-----------------------------------------------------------------------------
(* Mapping.                                                                *)

\* The space that a step fills is private, or of the process itself.
LEMMA NotCreated ==
  ASSUME MemInv, NEW p \in Procs, op[p].pc \in Mapping
  PROVE  \A c \in Procs : task[c].state = "created" => task[c].cr3 # op[p].dir
<1>1. At(p, "grow") => op[p].dir = task[p].cr3
  BY DEF MemInv, Control, DirOwn
<1>2. ~At(p, "grow") => \A c \in Procs : task[c].cr3 # op[p].dir
  BY DEF MemInv, Control, DirPrivate, Mapping, Building, At
<1>3. \A c \in Procs : task[c].state = "created" => c # p /\ task[c].cr3 \in Pages
  BY DEF MemInv, Control, SpacesByState, CallersRun, Mapping, At
<1> QED BY <1>1, <1>2, <1>3 DEF MemInv, Control, Cr3Apart

LEMMA map_page_Inv ==
  ASSUME MemInv, NEW p \in Procs, map_page(p), HalfReleased \subseteq {p}
  PROVE  MemInv'
<1>1. /\ op[p].pc \in Mapping /\ op[p].want # {} /\ op[p].held = None
      /\ UNCHANGED <<gdt, task, tabs, maps, lost>>
  BY DEF map_page
<1>2. MemoryTypeOK /\ op[p] \in Ops /\ Control /\ Owners
  BY DEF MemInv, MemoryTypeOK
<1>3. task[p].state = "running" /\ task[p].cr3 \in Pages /\ SameTasks
  BY <1>1, <1>2 DEF Mapping, Control, CallersRun, At, SameTasks
<1>4. ~At(p, "fork_failed") /\ op[p].dir # None
  BY <1>1, <1>2 DEF At, Mapping, Control, DirWhen, Building
<1>5. CASE ~Shortage /\ bits' = bits \cup {NewPage} /\ op' = [op EXCEPT ![p].held = NewPage]
  <2>1. NewPage \in Pages \ bits
    BY <1>2, <1>5, FreshPage DEF MemoryTypeOK
  <2>2. op'[p] = [op[p] EXCEPT !.held = NewPage] /\ \A q \in Procs : q # p => op'[q] = op[q]
    BY <1>2, <1>5 DEF MemoryTypeOK
  <2>3. /\ op'[p].pc = op[p].pc /\ op'[p].child = op[p].child /\ op'[p].dir = op[p].dir
        /\ op'[p].want = op[p].want /\ op'[p].held = NewPage
    BY <1>2, <2>2 DEF Ops
  <2>4. MemoryTypeOK'
    <3>1. op'[p] \in Ops
      BY <1>2, <2>1, <2>2 DEF Ops, Pages
    <3> QED BY <1>1, <1>2, <1>5, <2>1, <2>2, <3>1 DEF MemoryTypeOK
  <2>5. Control'
    <3>1. SameChild(p)
      BY <1>1, <2>3 DEF SameChild, At, Mapping, Forking, Copying, Reaping
    <3>2. SameSpace(p)
      BY <1>1, <1>2, <2>3 DEF SameSpace, Mapping, Building, Control, DirWhen, DirOwn, At
    <3> QED BY <1>1, <1>3, <2>2, <2>3, <3>1, <3>2, CallerMoves
  <2>6. StackPages' = StackPages /\ OneStack' /\ ReleasedFree'
    BY <1>3, <1>4, <2>2, <2>3, StacksKept DEF At
  <2>7. HeldPages' = HeldPages \cup {NewPage} /\ OneHeld'
    BY <1>1, <2>1, <2>2, <2>3, HeldChanges
  <2>8. Spaces' = Spaces
    BY <1>1, <2>2, <2>3, SpacesChange
  <2>9. TablePages' = TablePages /\ MappedPages' = MappedPages /\ OneTable' /\ OneAddress'
    BY <1>1, TablesKept
  <2>10. ClearElsewhere' /\ TableBeneath'
    BY <1>1, <1>3, <2>8, ClearKept
  <2>11. PagesSplit'
    <3>1. Split(StackPages, HeldPages \cup {NewPage}, Spaces, TablePages, MappedPages,
                bits \cup {NewPage}, lost)
      BY <1>2, <2>1, SplitTake DEF Owners, PagesSplit
    <3> QED BY <1>1, <1>5, <2>6, <2>7, <2>8, <2>9, <3>1 DEF PagesSplit
  <2> QED BY <2>4, <2>5, <2>6, <2>7, <2>9, <2>10, <2>11 DEF MemInv, Owners
<1>6. CASE Shortage /\ bits' = bits /\ op' = [op EXCEPT ![p] = WithoutPage(@)]
  <2>1. op'[p] = WithoutPage(op[p]) /\ \A q \in Procs : q # p => op'[q] = op[q]
    BY <1>2, <1>6 DEF MemoryTypeOK
  <2>2. /\ op'[p].pc = IF At(p, "copy") THEN "undo_copy" ELSE op[p].pc
        /\ op'[p].child = op[p].child /\ op'[p].dir = op[p].dir
        /\ op'[p].want = {} /\ op'[p].held = None
        /\ op'[p] \in Ops
    <3>1. CASE At(p, "copy")
      <4>1. op'[p] = [op[p] EXCEPT !.pc = "undo_copy", !.want = {}, !.held = None]
        BY <2>1, <3>1 DEF WithoutPage, Failed, At
      <4>2. op'[p] = [pc |-> "undo_copy", child |-> op[p].child, sel |-> op[p].sel, dir |-> op[p].dir,
                      want |-> {}, held |-> None, end |-> op[p].end]
        BY <1>2, <4>1 DEF Ops
      <4>3. op'[p] \in Ops
        BY <1>2, <4>2, MemoryAssumption DEF Ops, Copying, None
      <4> QED BY <3>1, <4>2, <4>3 DEF At
    <3>2. CASE ~At(p, "copy")
      <4>1. op'[p] = [op[p] EXCEPT !.want = {}]
        BY <2>1, <3>2 DEF WithoutPage, At
      <4> QED BY <1>1, <1>2, <3>2, <4>1 DEF Ops
    <3> QED BY <3>1, <3>2
  <2>3. MemoryTypeOK'
    BY <1>1, <1>2, <1>6, <2>1, <2>2 DEF MemoryTypeOK
  <2>4. Control'
    <3>1. SameChild(p)
      BY <1>1, <2>2 DEF SameChild, At, Mapping, Forking, Copying, Reaping
    <3>2. SameSpace(p)
      BY <1>1, <1>2, <2>2 DEF SameSpace, Mapping, Building, Control, DirWhen, DirOwn, At
    <3> QED BY <1>1, <1>3, <2>1, <2>2, <3>1, <3>2, CallerMoves
  <2>5. StackPages' = StackPages /\ OneStack' /\ ReleasedFree'
    <3>1. ~At(p, "fork_failed")'
      BY <1>1, <2>2 DEF At, Mapping
    <3> QED BY <1>3, <1>4, <2>1, <3>1, StacksKept
  <2>6. HeldPages' = HeldPages /\ OneHeld'
    BY <1>1, <2>1, <2>2, HeldChanges
  <2>7. Spaces' = Spaces
    BY <1>1, <2>1, <2>2, SpacesChange
  <2>8. TablePages' = TablePages /\ MappedPages' = MappedPages /\ OneTable' /\ OneAddress'
    BY <1>1, TablesKept
  <2>9. ClearElsewhere' /\ TableBeneath'
    BY <1>1, <1>3, <2>7, ClearKept
  <2>10. PagesSplit'
    BY <1>1, <1>2, <1>6, <2>5, <2>6, <2>7, <2>8 DEF PagesSplit, Owners
  <2> QED BY <2>3, <2>4, <2>5, <2>6, <2>8, <2>9, <2>10 DEF MemInv, Owners
<1> QED BY <1>5, <1>6 DEF map_page
LEMMA map_table_Inv ==
  ASSUME MemInv, NEW p \in Procs, map_table(p), HalfReleased \subseteq {p}
  PROVE  MemInv'
<1> DEFINE d == op[p].dir
           v == Least(op[p].want)
<1>1. MemoryTypeOK /\ op[p] \in Ops /\ Control /\ Owners
  BY DEF MemInv, MemoryTypeOK
<1>2. op[p].held # None /\ op[p].pc \in Mapping /\ op[p].want # {}
      /\ UNCHANGED <<gdt, task, maps>>
  BY <1>1 DEF map_table, Control, Wants
<1>3. task[p].state = "running" /\ task[p].cr3 \in Pages /\ SameTasks
  BY <1>1, <1>2 DEF Mapping, Control, CallersRun, At, SameTasks
<1>4. ~At(p, "fork_failed") /\ d # None /\ d \in Pages
  <2>1. d # None
    BY <1>1, <1>2 DEF Mapping, Control, DirWhen, Building
  <2> QED BY <1>1, <1>2, <2>1 DEF At, Mapping, Ops, Pages, None
<1>5. CASE ~Shortage /\ bits' = bits \cup {NewPage}
           /\ tabs' = [tabs EXCEPT ![d][Table(v)] = NewPage] /\ UNCHANGED <<op, lost>>
  <2>1. NewPage \in Pages \ bits
    BY <1>1, <1>5, FreshPage DEF MemoryTypeOK
  <2>2. v \in Vaddrs /\ Table(v) \in Tables /\ tabs[d][Table(v)] = None
    <3>1. op[p].want \in SUBSET (0 .. LastV)
      BY <1>1 DEF Ops
    <3>2. v \in 0 .. LastV
      <4>1. op[p].want \in SUBSET Nat
        BY <3>1
      <4> QED BY <1>2, <3>1, <4>1, LeastIn
    <3>3. ~HasTable(d, v)
      BY DEF map_table
    <3> QED BY <3>2, <3>3, MemoryAssumption DEF HasTable, Vaddrs, Tables
  <2> HIDE DEF v
  <2>3. /\ tabs'[d][Table(v)] = NewPage
        /\ \A e \in Pages, t \in Tables : e # d \/ t # Table(v) => tabs'[e][t] = tabs[e][t]
    BY <1>1, <1>4, <1>5, <2>2 DEF MemoryTypeOK
  <2>4. MemoryTypeOK'
    <3>1. tabs' \in [Pages -> [Tables -> 0 .. LastPage]]
      BY <1>1, <1>4, <1>5, <2>1, <2>2 DEF MemoryTypeOK, Pages
    <3> QED BY <1>1, <1>2, <1>5, <2>1, <3>1 DEF MemoryTypeOK
  <2>5. Control'
    BY <1>1, <1>2, <1>5 DEF Control, CallersRun, OneAtATime, ChildAsFork, ChildAsCopy, ChildAsZombie,
       FreeSlots, SpacesByState, DirWhen, DirPrivate, DirOwn, Cr3Apart, Wants, At
  <2>6. StackPages' = StackPages /\ HeldPages' = HeldPages /\ Spaces' = Spaces
        /\ MappedPages' = MappedPages
    BY <1>2, <1>5 DEF StackPages, HeldPages, Spaces, MappedPages, Released, HalfReleased, At
  <2>7. OneStack' /\ OneHeld' /\ OneAddress'
    BY <1>1, <1>2, <1>5 DEF Owners, OneStack, OneHeld, OneAddress, Released, HalfReleased, At
  <2>8. ReleasedFree'
    BY <1>4 , <1>2, <1>5 DEF ReleasedFree, Released, HalfReleased, At
  <2>9. TablePages' = TablePages \cup {NewPage}
    <3>1. \A x \in Pages : (\E e \in Pages, t \in Tables : tabs'[e][t] = x)
                          <=> (\E e \in Pages, t \in Tables : tabs[e][t] = x) \/ x = NewPage
      BY <1>4, <2>2, <2>3 DEF Pages, None
    <3>2. \A x : x \in TablePages' <=> x \in TablePages \/ x = NewPage
      BY <2>1, <3>1 DEF TablePages
    <3> QED BY <3>2
  <2>10. OneTable'
    <3>1. \A e \in Pages, t \in Tables : tabs[e][t] # NewPage
      BY <2>1, UsedAllocated DEF Pages, None
    <3>2. OneTable
      BY <1>1 DEF Owners
    <3> QED BY <2>2, <2>3, <3>1, <3>2 DEF OneTable
  <2>11. ClearElsewhere'
    <3>1. \A c \in Procs : task[c].state = "created" => task[c].cr3 # d
      BY <1>2, NotCreated
    <3>2. d \in Spaces
      BY <1>4 DEF Spaces, None, Bad, Pages
    <3>3. \A e \in Pages : e # d /\ Clear(e) => Clear(e)'
      BY <1>2, <2>2, <2>3 DEF Clear
    <3>4. \A e \in Pages \ Spaces' : Clear(e)'
      BY <1>1, <2>6, <3>2, <3>3 DEF Owners, ClearElsewhere
    <3>5. (\A c \in Procs : task[c].state = "created" => Clear(task[c].cr3))'
      <4>1. \A c \in Procs : task[c].state = "created" => Clear(task[c].cr3) /\ task[c].cr3 \in Pages
        BY <1>1 DEF Owners, ClearElsewhere, Control, SpacesByState
      <4> QED BY <1>2, <2>3, <3>1, <4>1 DEF Clear
    <3> QED BY <3>4, <3>5 DEF ClearElsewhere
  <2>12. TableBeneath'
    <3>1. TableBeneath /\ NewPage # None
      BY <1>1, <2>1 DEF Owners, Pages, None
    <3>2. \A w \in Vaddrs : Table(w) \in Tables
      BY DEF Tables
    <3> QED BY <1>2, <2>3, <3>1, <3>2 DEF TableBeneath
  <2>13. PagesSplit'
    <3>1. Split(StackPages, HeldPages, Spaces, TablePages \cup {NewPage}, MappedPages,
                bits \cup {NewPage}, lost)
      BY <1>1, <2>1, SplitTake DEF Owners, PagesSplit
    <3> QED BY <1>5, <2>6, <2>9, <3>1 DEF PagesSplit
  <2> QED BY <2>4, <2>5, <2>7, <2>8, <2>10, <2>11, <2>12, <2>13 DEF MemInv, Owners
<1>6. CASE Shortage /\ lost' = lost \cup {op[p].held} /\ op' = [op EXCEPT ![p] = Failed(@)]
           /\ UNCHANGED <<bits, tabs>>
  <2>1. op'[p] = Failed(op[p]) /\ \A q \in Procs : q # p => op'[q] = op[q]
    BY <1>1, <1>6 DEF MemoryTypeOK
  <2>2. /\ op'[p].pc = CASE At(p, "copy") -> "undo_copy" [] At(p, "grow") -> "user"
                          [] OTHER -> "undo_exec"
        /\ op'[p].dir = IF At(p, "grow") THEN None ELSE op[p].dir
        /\ At(p, "copy") => op'[p].child = op[p].child
        /\ op'[p].want = {} /\ op'[p].held = None
        /\ op'[p] \in Ops
    <3>1. CASE At(p, "copy")
      <4>1. op'[p] = [op[p] EXCEPT !.pc = "undo_copy", !.want = {}, !.held = None]
        BY <2>1, <3>1 DEF Failed, At
      <4>2. op'[p] = [pc |-> "undo_copy", child |-> op[p].child, sel |-> op[p].sel, dir |-> op[p].dir,
                      want |-> {}, held |-> None, end |-> op[p].end]
        BY <1>1, <4>1 DEF Ops
      <4>3. op'[p] \in Ops
        BY <1>1, <4>2, MemoryAssumption DEF Ops, Copying, None
      <4> QED BY <3>1, <4>2, <4>3 DEF At
    <3>2. CASE At(p, "load") \/ At(p, "stack")
      <4>1. op'[p] = [op[p] EXCEPT !.pc = "undo_exec", !.want = {}, !.held = None]
        BY <2>1, <3>2 DEF Failed, At
      <4>2. op'[p] = [pc |-> "undo_exec", child |-> op[p].child, sel |-> op[p].sel, dir |-> op[p].dir,
                      want |-> {}, held |-> None, end |-> op[p].end]
        BY <1>1, <4>1 DEF Ops
      <4>3. op'[p] \in Ops
        BY <1>1, <4>2, MemoryAssumption DEF Ops, Building, None
      <4> QED BY <3>2, <4>2, <4>3 DEF At
    <3>3. CASE At(p, "grow")
      <4>1. op'[p] = User
        BY <2>1, <3>3 DEF Failed, At
      <4> QED BY <3>3, <4>1, MemoryAssumption DEF Ops, User, None, At
    <3> QED BY <1>2, <3>1, <3>2, <3>3 DEF Mapping, At
  <2>3. MemoryTypeOK'
    <3>1. op[p].held \in Pages
      BY <1>1, <1>2 DEF Ops, Pages, None
    <3> QED BY <1>1, <1>2, <1>6, <2>1, <2>2, <3>1 DEF MemoryTypeOK
  <2>4. Control'
    <3>1. SameChild(p)
      BY <1>2, <2>2 DEF SameChild, At, Mapping, Forking, Copying, Reaping
    <3>2. SameSpace(p)
      BY <1>1, <1>2, <1>4, <2>2 DEF SameSpace, Mapping, Building, At
    <3> QED BY <1>2, <1>3, <2>1, <2>2, <3>1, <3>2, CallerMoves
  <2>5. StackPages' = StackPages /\ OneStack' /\ ReleasedFree'
    <3>1. ~At(p, "fork_failed")'
      BY <2>2 DEF At
    <3> QED BY <1>3, <1>4, <2>1, <3>1, StacksKept
  <2>6. HeldPages' = HeldPages \ {op[p].held} /\ OneHeld'
    BY <2>1, <2>2, HeldChanges
  <2>7. Spaces' = Spaces
    BY <1>2, <2>1, <2>2, SpacesChange
  <2>8. TablePages' = TablePages /\ MappedPages' = MappedPages /\ OneTable' /\ OneAddress'
    BY <1>2, <1>6, TablesKept
  <2>9. ClearElsewhere' /\ TableBeneath'
    BY <1>2, <1>3, <1>6, <2>7, ClearKept
  <2>10. PagesSplit'
    <3>1. op[p].held \in HeldPages
      BY <1>1, <1>2 DEF HeldPages, Ops, Pages, None
    <3>2. Split(StackPages, HeldPages \ {op[p].held}, Spaces, TablePages, MappedPages,
                bits, lost \cup {op[p].held})
      BY <1>1, <3>1, SplitLose DEF Owners, PagesSplit
    <3> QED BY <1>6, <2>5, <2>6, <2>7, <2>8, <3>2 DEF PagesSplit
  <2> QED BY <2>3, <2>4, <2>5, <2>6, <2>8, <2>9, <2>10 DEF MemInv, Owners
<1> QED BY <1>5, <1>6 DEF map_table
LEMMA map_enter_Inv ==
  ASSUME MemInv, NEW p \in Procs, map_enter(p), HalfReleased \subseteq {p}
  PROVE  MemInv'
<1> DEFINE d == op[p].dir
           v == Least(op[p].want)
           x == op[p].held
<1>1. MemoryTypeOK /\ op[p] \in Ops /\ Control /\ Owners
  BY DEF MemInv, MemoryTypeOK
<1>2. /\ x # None /\ op[p].pc \in Mapping /\ op[p].want # {}
      /\ maps' = [maps EXCEPT ![d][v] = x]
      /\ op' = [op EXCEPT ![p].want = @ \ {v}, ![p].held = None]
      /\ UNCHANGED <<bits, gdt, task, tabs, lost>>
  BY <1>1 DEF map_enter, Control, Wants
<1>3. task[p].state = "running" /\ task[p].cr3 \in Pages /\ SameTasks
  BY <1>1, <1>2 DEF Mapping, Control, CallersRun, At, SameTasks
<1>4. ~At(p, "fork_failed") /\ d # None /\ d \in Pages /\ x \in Pages /\ x \in bits
  <2>1. d # None
    BY <1>1, <1>2 DEF Mapping, Control, DirWhen, Building
  <2> QED BY <1>1, <1>2, <2>1, UsedAllocated DEF At, Mapping, Ops, Pages, None
<1>5. v \in Vaddrs /\ Table(v) \in Tables /\ tabs[d][Table(v)] # None /\ maps[d][v] = None
  <2>1. op[p].want \in SUBSET (0 .. LastV) /\ op[p].want \in SUBSET Nat
    BY <1>1 DEF Ops
  <2>2. v \in 0 .. LastV
    BY <1>2, <2>1, LeastIn
  <2>3. ~Present(d, v) /\ HasTable(d, v)
    BY DEF map_enter
  <2> QED BY <2>2, <2>3, MemoryAssumption DEF HasTable, Present, Vaddrs, Tables
<1> HIDE DEF v
<1>6. /\ op'[p].pc = op[p].pc /\ op'[p].child = op[p].child /\ op'[p].dir = op[p].dir
      /\ op'[p].want = op[p].want \ {v} /\ op'[p].held = None /\ op'[p] \in Ops
      /\ \A q \in Procs : q # p => op'[q] = op[q]
  <2>1. op'[p] = [op[p] EXCEPT !.want = @ \ {v}, !.held = None]
    BY <1>1, <1>2 DEF MemoryTypeOK
  <2>2. op'[p] = [pc |-> op[p].pc, child |-> op[p].child, sel |-> op[p].sel, dir |-> op[p].dir,
                  want |-> op[p].want \ {v}, held |-> None, end |-> op[p].end]
    BY <1>1, <2>1 DEF Ops
  <2>3. op'[p] \in Ops
    BY <1>1, <2>2, MemoryAssumption DEF Ops, None
  <2> QED BY <1>1, <1>2, <2>2, <2>3 DEF MemoryTypeOK
<1>7. /\ maps'[d][v] = x
      /\ \A e \in Pages, w \in Vaddrs : e # d \/ w # v => maps'[e][w] = maps[e][w]
  BY <1>1, <1>2, <1>4, <1>5 DEF MemoryTypeOK
<1>8. MemoryTypeOK'
  <2>1. maps' \in [Pages -> [Vaddrs -> 0 .. LastPage]]
    BY <1>1, <1>2, <1>4, <1>5 DEF MemoryTypeOK, Pages
  <2> QED BY <1>1, <1>2, <1>6, <2>1 DEF MemoryTypeOK
<1>9. Control'
  <2>1. SameChild(p)
    BY <1>2, <1>6 DEF SameChild, At, Mapping, Forking, Copying, Reaping
  <2>2. SameSpace(p)
    BY <1>1, <1>2, <1>6 DEF SameSpace, Mapping, Building, Control, DirWhen, DirOwn, At
  <2> QED BY <1>2, <1>3, <1>6, <2>1, <2>2, CallerMoves
<1>10. StackPages' = StackPages /\ OneStack' /\ ReleasedFree'
  BY <1>3, <1>4, <1>6, StacksKept DEF At
<1>11. HeldPages' = HeldPages \ {x} /\ OneHeld'
  BY <1>6, HeldChanges
<1>12. Spaces' = Spaces
  BY <1>2, <1>6, SpacesChange
<1>13. TablePages' = TablePages /\ OneTable'
  BY <1>1, <1>2 DEF TablePages, OneTable, Owners
<1>14. MappedPages' = MappedPages \cup {x}
  <2>1. \A y \in Pages : (\E e \in Pages, w \in Vaddrs : maps'[e][w] = y)
                        <=> (\E e \in Pages, w \in Vaddrs : maps[e][w] = y) \/ y = x
    BY <1>4, <1>5, <1>7 DEF Pages, None
  <2>2. \A y : y \in MappedPages' <=> y \in MappedPages \/ y = x
    BY <1>4, <2>1 DEF MappedPages
  <2> QED BY <2>2
<1>15. x \in HeldPages
  BY <1>4 DEF HeldPages
<1>16. OneAddress'
  <2>1. x \notin MappedPages
    BY <1>1, <1>15 DEF Owners, PagesSplit, Split
  <2>2. \A e \in Pages, w \in Vaddrs : maps[e][w] # x
    BY <1>4, <2>1 DEF MappedPages
  <2>3. OneAddress
    BY <1>1 DEF Owners
  <2> QED BY <1>5, <1>7, <2>2, <2>3 DEF OneAddress
<1>17. ClearElsewhere'
  <2>1. \A c \in Procs : task[c].state = "created" => task[c].cr3 # d
    BY <1>2, NotCreated
  <2>2. d \in Spaces
    BY <1>4 DEF Spaces, None, Bad, Pages
  <2>3. \A e \in Pages : e # d /\ Clear(e) => Clear(e)'
    BY <1>2, <1>5, <1>7 DEF Clear
  <2>4. \A e \in Pages \ Spaces' : Clear(e)'
    BY <1>1, <1>12, <2>2, <2>3 DEF Owners, ClearElsewhere
  <2>5. (\A c \in Procs : task[c].state = "created" => Clear(task[c].cr3))'
    <3>1. \A c \in Procs : task[c].state = "created" => Clear(task[c].cr3) /\ task[c].cr3 \in Pages
      BY <1>1 DEF Owners, ClearElsewhere, Control, SpacesByState
    <3> QED BY <1>2, <1>7, <2>1, <3>1 DEF Clear
  <2> QED BY <2>4, <2>5 DEF ClearElsewhere
<1>18. TableBeneath'
  <2>1. TableBeneath
    BY <1>1 DEF Owners
  <2> QED BY <1>2, <1>5, <1>7, <2>1 DEF TableBeneath
<1>19. PagesSplit'
  <2>1. Split(StackPages, HeldPages \ {x}, Spaces, TablePages, MappedPages \cup {x}, bits, lost)
    BY <1>1, <1>15, SplitMove DEF Owners, PagesSplit
  <2> QED BY <1>2, <1>10, <1>11, <1>12, <1>13, <1>14, <2>1 DEF PagesSplit
<1> QED BY <1>8, <1>9, <1>10, <1>11, <1>13, <1>16, <1>17, <1>18, <1>19 DEF MemInv, Owners
-----------------------------------------------------------------------------
(* Releasing a space.                                                      *)

\* The space that is being released is nobody's, or of a zombie.
LEMMA OnlyZombies ==
  ASSUME MemInv, NEW p \in Procs, op[p].pc \in Destroying
  PROVE  \A c \in Procs : task[c].cr3 = op[p].dir => task[c].state = "zombie"
<1>1. CASE At(p, "reap")
  <2>1. /\ op[p].child \in Procs /\ task[op[p].child].state = "zombie"
        /\ task[op[p].child].cr3 = op[p].dir
    BY <1>1 DEF MemInv, Control, ChildAsZombie, Reaping, At, Slots
  <2>2. op[p].dir \in Pages
    BY <1>1 DEF MemInv, MemoryTypeOK, Ops, Control, DirWhen, At, Pages, None
  <2> QED BY <2>1, <2>2 DEF MemInv, Control, Cr3Apart
<1>2. CASE ~At(p, "reap")
  BY <1>2 DEF MemInv, Control, DirPrivate, Destroying, Building, At
<1> QED BY <1>1, <1>2

LEMMA destroy_page_Inv ==
  ASSUME MemInv, NEW p \in Procs, destroy_page(p), HalfReleased \subseteq {p}
  PROVE  MemInv'
<1> DEFINE d == op[p].dir
           t == Least(TablesOf(d))
           v == Least(PagesUnder(d, t))
<1>1. MemoryTypeOK /\ op[p] \in Ops /\ Control /\ Owners
  BY DEF MemInv, MemoryTypeOK
<1>2. /\ op[p].pc \in Destroying /\ TablesOf(d) # {}
      /\ UNCHANGED <<gdt, task, op, lost>>
  BY DEF destroy_page
<1>3. d \in Pages /\ d \in Spaces
  <2>1. d # None
    BY <1>1, <1>2 DEF Destroying, Control, DirWhen, Building
  <2>2. d \in Pages
    BY <1>1, <2>1 DEF Ops, Pages, None
  <2> QED BY <2>1, <2>2 DEF Spaces, None, Bad, Pages
<1>4. t \in Tables /\ tabs[d][t] # None
  <2>1. Tables \subseteq Nat
    <3>1. \A w \in Vaddrs : w \in Nat /\ w \div PerTable \in Nat
      BY MemoryAssumption DEF Vaddrs
    <3> QED BY <3>1 DEF Tables, Table
  <2>2. TablesOf(d) \in SUBSET Nat
    BY <2>1 DEF TablesOf
  <2>3. t \in TablesOf(d)
    BY <1>2, <2>2, LeastIn
  <2> QED BY <2>3 DEF TablesOf
<1>5. \A c \in Procs : task[c].state = "created" => task[c].cr3 # d
  BY <1>2, OnlyZombies
<1>6. Control'
  BY <1>1, <1>2 DEF Control, CallersRun, OneAtATime, ChildAsFork, ChildAsCopy, ChildAsZombie,
     FreeSlots, SpacesByState, DirWhen, DirPrivate, DirOwn, Cr3Apart, Wants, At
<1>7. StackPages' = StackPages /\ HeldPages' = HeldPages /\ Spaces' = Spaces
      /\ OneStack' /\ OneHeld'
  BY <1>1, <1>2 DEF StackPages, HeldPages, Spaces, OneStack, OneHeld, Owners, Released,
     HalfReleased, At
<1>8. \A b : bits' = bits \ {b} => ReleasedFree'
  BY <1>1, <1>2 DEF Owners, ReleasedFree, Released, HalfReleased, At
<1>9. (\A e \in Pages : e # d /\ Clear(e) => Clear(e)') => ClearElsewhere'
  <2>1. HAVE \A e \in Pages : e # d /\ Clear(e) => Clear(e)'
  <2>2. \A e \in Pages \ Spaces' : Clear(e)'
    BY <1>1, <1>3, <1>7, <2>1 DEF Owners, ClearElsewhere
  <2>3. \A e \in Pages : e # d /\ Clear(e) => (\A u \in Tables : tabs'[e][u] = None)
                                            /\ (\A w \in Vaddrs : maps'[e][w] = None)
    BY <2>1 DEF Clear
  <2>4. (\A c \in Procs : task[c].state = "created" => Clear(task[c].cr3))'
    <3>1. \A c \in Procs : task[c].state = "created" => Clear(task[c].cr3) /\ task[c].cr3 \in Pages
      BY <1>1 DEF Owners, ClearElsewhere, Control, SpacesByState
    <3> QED BY <1>2, <1>5, <2>3, <3>1 DEF Clear
  <2> QED BY <2>2, <2>4 DEF ClearElsewhere
<1> HIDE DEF t
<1>10. CASE /\ PagesUnder(d, t) # {}
            /\ bits' = bits \ {maps[d][v]}
            /\ maps' = [maps EXCEPT ![d][v] = None] /\ UNCHANGED tabs
  <2>1. v \in Vaddrs /\ maps[d][v] \in Pages
    <3>1. PagesUnder(d, t) \in SUBSET Nat
      BY MemoryAssumption DEF PagesUnder, MappedIn, Vaddrs
    <3>2. v \in PagesUnder(d, t)
      BY <1>10, <3>1, LeastIn
    <3>3. v \in Vaddrs /\ maps[d][v] # None
      BY <3>2 DEF PagesUnder, MappedIn
    <3> QED BY <1>1, <1>3, <3>3 DEF MemoryTypeOK, Pages, None
  <2> HIDE DEF v
  <2>2. /\ maps'[d][v] = None
        /\ \A e \in Pages, w \in Vaddrs : e # d \/ w # v => maps'[e][w] = maps[e][w]
    BY <1>1, <1>3, <1>10, <2>1 DEF MemoryTypeOK
  <2>3. MemoryTypeOK'
    <3>1. maps' \in [Pages -> [Vaddrs -> 0 .. LastPage]]
      BY <1>1, <1>3, <1>10, <2>1, MemoryAssumption DEF MemoryTypeOK, None
    <3> QED BY <1>1, <1>2, <1>10, <3>1 DEF MemoryTypeOK
  <2>4. OneAddress /\ OneTable /\ TableBeneath
    BY <1>1 DEF Owners
  <2>5. MappedPages' = MappedPages \ {maps[d][v]}
    <3>1. \A y \in Pages : (\E e \in Pages, w \in Vaddrs : maps'[e][w] = y)
                          <=> (\E e \in Pages, w \in Vaddrs : maps[e][w] = y) /\ y # maps[d][v]
      BY <1>3, <2>1, <2>2, <2>4 DEF Pages, None, OneAddress
    <3>2. \A y : y \in MappedPages' <=> y \in MappedPages /\ y # maps[d][v]
      BY <3>1 DEF MappedPages
    <3> QED BY <3>2
  <2>6. OneAddress'
    BY <2>2, <2>4 DEF OneAddress
  <2>7. TablePages' = TablePages /\ OneTable'
    BY <1>10, <2>4 DEF TablePages, OneTable
  <2>8. ClearElsewhere'
    BY <1>9, <1>10, <2>2 DEF Clear
  <2>9. TableBeneath'
    BY <1>10, <2>2, <2>4 DEF TableBeneath
  <2>10. PagesSplit'
    <3>1. maps[d][v] \in MappedPages
      BY <1>3, <2>1 DEF MappedPages
    <3>2. Split(StackPages, HeldPages, Spaces, TablePages, MappedPages \ {maps[d][v]},
                bits \ {maps[d][v]}, lost)
      BY <1>1, <3>1, SplitGive DEF Owners, PagesSplit
    <3> QED BY <1>2, <1>7, <1>10, <2>5, <2>7, <3>2 DEF PagesSplit
  <2> QED BY <1>6, <1>7, <1>8, <1>10, <2>3, <2>6, <2>7, <2>8, <2>9, <2>10 DEF MemInv, Owners
<1>11. CASE /\ PagesUnder(d, t) = {}
            /\ bits' = bits \ {tabs[d][t]}
            /\ tabs' = [tabs EXCEPT ![d][t] = None] /\ UNCHANGED maps
  <2>1. /\ tabs'[d][t] = None /\ tabs[d][t] \in Pages
        /\ \A e \in Pages, u \in Tables : e # d \/ u # t => tabs'[e][u] = tabs[e][u]
    BY <1>1, <1>3, <1>4, <1>11 DEF MemoryTypeOK, Pages, None
  <2>2. MemoryTypeOK'
    <3>1. tabs' \in [Pages -> [Tables -> 0 .. LastPage]]
      BY <1>1, <1>3, <1>4, <1>11, MemoryAssumption DEF MemoryTypeOK, None
    <3> QED BY <1>1, <1>2, <1>11, <3>1 DEF MemoryTypeOK
  <2>3. OneAddress /\ OneTable /\ TableBeneath
    BY <1>1 DEF Owners
  <2>4. TablePages' = TablePages \ {tabs[d][t]}
    <3>1. \A y \in Pages : (\E e \in Pages, u \in Tables : tabs'[e][u] = y)
                          <=> (\E e \in Pages, u \in Tables : tabs[e][u] = y) /\ y # tabs[d][t]
      BY <1>3, <1>4, <2>1, <2>3 DEF Pages, None, OneTable
    <3>2. \A y : y \in TablePages' <=> y \in TablePages /\ y # tabs[d][t]
      BY <3>1 DEF TablePages
    <3> QED BY <3>2
  <2>5. OneTable'
    BY <2>1, <2>3 DEF OneTable
  <2>6. MappedPages' = MappedPages /\ OneAddress'
    BY <1>11, <2>3 DEF MappedPages, OneAddress
  <2>7. ClearElsewhere'
    BY <1>9, <1>11, <2>1 DEF Clear
  <2>8. TableBeneath'
    <3>1. \A w \in Vaddrs : Table(w) \in Tables /\ (Table(w) = t => maps[d][w] = None)
      BY <1>11 DEF PagesUnder, MappedIn, Tables
    <3> QED BY <1>3, <1>11, <2>1, <2>3, <3>1 DEF TableBeneath
  <2>9. PagesSplit'
    <3>1. tabs[d][t] \in TablePages
      BY <1>3, <1>4, <2>1 DEF TablePages
    <3>2. Split(StackPages, HeldPages, Spaces, TablePages \ {tabs[d][t]}, MappedPages,
                bits \ {tabs[d][t]}, lost)
      BY <1>1, <3>1, SplitGive DEF Owners, PagesSplit
    <3> QED BY <1>2, <1>7, <1>11, <2>4, <2>6, <3>2 DEF PagesSplit
  <2> QED BY <1>6, <1>7, <1>8, <1>11, <2>2, <2>5, <2>6, <2>7, <2>8, <2>9 DEF MemInv, Owners
<1> QED BY <1>10, <1>11 DEF destroy_page, t, v
\* An empty space's directory is released: what is common to all.
LEMMA DirectoryReleased ==
  ASSUME MemInv, NEW p \in Procs, destroy_dir(p), HalfReleased \subseteq {p},
         Spaces' = Spaces \ {op[p].dir},
         \A q \in Procs : task'[q].state = task[q].state /\ task'[q].esp0 = task[q].esp0,
         \A q \in Procs : task[q].state = "created" => task'[q].cr3 = task[q].cr3
  PROVE  Owners'
<1> DEFINE d == op[p].dir
<1>1. MemoryTypeOK /\ op[p] \in Ops /\ Control /\ Owners
  BY DEF MemInv, MemoryTypeOK
<1>2. /\ op[p].pc \in Destroying /\ TablesOf(d) = {}
      /\ bits' = bits \ {d}
      /\ maps' = [maps EXCEPT ![d] = [v \in Vaddrs |-> None]]
      /\ op' = [op EXCEPT ![p] = Destroyed(@)]
      /\ UNCHANGED <<tabs, lost>>
  BY DEF destroy_dir
<1>3. d \in Pages /\ d \in Spaces
  <2>1. d # None
    BY <1>1, <1>2 DEF Destroying, Control, DirWhen, Building
  <2>2. d \in Pages
    BY <1>1, <2>1 DEF Ops, Pages, None
  <2> QED BY <2>1, <2>2 DEF Spaces, None, Bad, Pages
<1>4. Clear(d)
  <2>1. \A t \in Tables : tabs[d][t] = None
    BY <1>2 DEF TablesOf
  <2>2. \A v \in Vaddrs : Table(v) \in Tables
    BY DEF Tables
  <2> QED BY <1>1, <1>3, <2>1, <2>2 DEF Owners, TableBeneath, Clear
<1>5. maps' = maps
  <2>1. maps[d] = [v \in Vaddrs |-> None]
    BY <1>1, <1>3, <1>4 DEF MemoryTypeOK, Clear
  <2> QED BY <1>1, <1>2, <2>1 DEF MemoryTypeOK
<1>6. op'[p] = Destroyed(op[p]) /\ \A q \in Procs : q # p => op'[q] = op[q]
  BY <1>1, <1>2 DEF MemoryTypeOK
<1>7. op'[p].pc \notin {"fork_failed"} /\ op'[p].held = None /\ op[p].held = None
  <2>1. op'[p].held = op[p].held \/ op'[p].held = None
    BY <1>1, <1>6 DEF Destroyed, Ops, User
  <2>2. op'[p].pc \in {"copy_failed", "reap_stack", "user"}
    BY <1>1, <1>6 DEF Destroyed, Ops, User
  <2>3. op[p].held = None
    BY <1>1, <1>2 DEF Control, Wants, Destroying, Mapping
  <2> QED BY <2>1, <2>2, <2>3
<1>8. HalfReleased = {} /\ Released = {} /\ HalfReleased' = {} /\ Released' = {}
  <2>1. HalfReleased = {}
    BY <1>2 DEF HalfReleased, At, Destroying
  <2>2. ASSUME NEW q \in Procs, op'[q].pc = "fork_failed" PROVE task'[op'[q].child].esp0 = None
    <3>1. op'[q] = op[q] /\ op[q].child \in Procs
      BY <1>1, <1>6, <1>7, <2>2 DEF Control, ChildAsFork, Forking, Slots
    <3> QED BY <2>1, <2>2, <3>1 DEF HalfReleased, At
  <2>3. HalfReleased' = {}
    BY <2>2 DEF HalfReleased, At
  <2> QED BY <2>1, <2>3 DEF Released
<1>9. StackPages' = StackPages /\ OneStack' /\ ReleasedFree'
  BY <1>1, <1>8 DEF StackPages, OneStack, ReleasedFree, Owners
<1>10. HeldPages' = HeldPages /\ OneHeld'
  BY <1>6, <1>7, HeldChanges
<1>11. TablePages' = TablePages /\ MappedPages' = MappedPages /\ OneTable' /\ OneAddress'
       /\ TableBeneath'
  BY <1>1, <1>2, <1>5 DEF TablePages, MappedPages, OneTable, OneAddress, TableBeneath, Owners
<1>12. ClearElsewhere'
  <2>1. \A e \in Pages \ Spaces' : Clear(e)'
    BY <1>1, <1>2, <1>3, <1>4, <1>5 DEF Owners, ClearElsewhere, Clear
  <2>2. (\A c \in Procs : task[c].state = "created" => Clear(task[c].cr3))'
    BY <1>1, <1>2, <1>5 DEF Owners, ClearElsewhere, Clear
  <2> QED BY <2>1, <2>2 DEF ClearElsewhere
<1>13. PagesSplit'
  <2>1. Split(StackPages, HeldPages, Spaces \ {d}, TablePages, MappedPages, bits \ {d}, lost)
    BY <1>1, <1>3, SplitGive DEF Owners, PagesSplit
  <2> QED BY <1>2, <1>9, <1>10, <1>11, <2>1 DEF PagesSplit
<1> QED BY <1>9, <1>10, <1>11, <1>12, <1>13 DEF Owners

LEMMA destroy_dir_Inv ==
  ASSUME MemInv, NEW p \in Procs, destroy_dir(p), HalfReleased \subseteq {p}
  PROVE  MemInv'
<1> DEFINE d == op[p].dir
           c == op[p].child
<1>1. MemoryTypeOK /\ op[p] \in Ops /\ Control /\ Owners
  BY DEF MemInv, MemoryTypeOK
<1>2. /\ op[p].pc \in Destroying
      /\ bits' = bits \ {d}
      /\ maps' = [maps EXCEPT ![d] = [v \in Vaddrs |-> None]]
      /\ op' = [op EXCEPT ![p] = Destroyed(@)]
      /\ task' = IF At(p, "reap") THEN [task EXCEPT ![c].cr3 = None] ELSE task
      /\ UNCHANGED <<gdt, tabs, lost>>
  BY DEF destroy_dir
<1>3. op'[p] = Destroyed(op[p]) /\ \A q \in Procs : q # p => op'[q] = op[q]
  BY <1>1, <1>2 DEF MemoryTypeOK
<1>4. op[p].held = None /\ op[p].want = {} /\ d # None
  BY <1>1, <1>2 DEF Control, Wants, Destroying, Mapping, DirWhen, Building
<1>5. d \in Pages /\ task[p].state = "running" /\ task[p].cr3 \in Pages
  BY <1>1, <1>2, <1>4 DEF Ops, Pages, None, Control, CallersRun, At, Destroying
<1>6. /\ op'[p].pc = CASE At(p, "undo_copy") -> "copy_failed" [] At(p, "reap") -> "reap_stack"
                       [] OTHER -> "user"
      /\ op'[p].dir = None /\ op'[p].want = {} /\ op'[p].held = None
      /\ op[p].pc \in {"undo_copy", "reap"} => op'[p].child = c
      /\ op'[p] \in Ops
  <2>1. CASE op[p].pc \in {"undo_copy", "reap"}
    <3>1. PICK x \in {"copy_failed", "reap_stack"} :
            /\ op'[p] = [op[p] EXCEPT !.pc = x, !.dir = None]
            /\ x = IF At(p, "undo_copy") THEN "copy_failed" ELSE "reap_stack"
      BY <1>3, <2>1 DEF Destroyed, At
    <3>2. op'[p] = [pc |-> x, child |-> c, sel |-> op[p].sel, dir |-> None,
                    want |-> op[p].want, held |-> op[p].held, end |-> op[p].end]
      BY <1>1, <3>1 DEF Ops
    <3>3. op'[p] \in Ops
      BY <1>1, <3>2, MemoryAssumption DEF Ops, Copying, Reaping, None
    <3> QED BY <1>4, <2>1, <3>1, <3>2, <3>3 DEF At
  <2>2. CASE op[p].pc \notin {"undo_copy", "reap"}
    <3>1. op'[p] = User
      BY <1>3, <2>2 DEF Destroyed
    <3> QED BY <2>2, <3>1, MemoryAssumption DEF Ops, User, None, At
  <2> QED BY <2>1, <2>2
<1>7. maps' \in [Pages -> [Vaddrs -> 0 .. LastPage]]
  <2>1. [v \in Vaddrs |-> None] \in [Vaddrs -> 0 .. LastPage]
    BY MemoryAssumption DEF None
  <2> QED BY <1>1, <1>2, <2>1 DEF MemoryTypeOK
<1>8. CASE ~At(p, "reap")
  <2>1. task' = task /\ SameTasks
    BY <1>2, <1>8 DEF SameTasks
  <2>2. MemoryTypeOK'
    BY <1>1, <1>2, <1>3, <1>6, <1>7, <2>1 DEF MemoryTypeOK
  <2>3. Control'
    <3>1. SameChild(p)
      BY <1>2, <1>6, <1>8 DEF SameChild, At, Destroying, Forking, Copying, Reaping
    <3>2. SameSpace(p)
      BY <1>2, <1>6, <1>8 DEF SameSpace, Building, At
    <3> QED BY <1>3, <1>5, <1>6, <2>1, <3>1, <3>2, CallerMoves
  <2>4. Spaces' = Spaces \ {d}
    <3>1. op[p].pc \in Building
      BY <1>2, <1>8 DEF Destroying, Building, At
    <3> QED BY <1>3, <1>6, <2>1, <3>1, SpacesChange
  <2>5. Owners'
    BY <2>1, <2>4, DirectoryReleased
  <2> QED BY <2>2, <2>3, <2>5 DEF MemInv
<1>9. CASE At(p, "reap")
  <2>1. c \in Slots /\ c \in Procs /\ task[c].state = "zombie" /\ task[c].cr3 = d
    BY <1>1, <1>9 DEF Control, ChildAsZombie, Reaping, At, Slots
  <2>2. /\ task' \in [Procs -> TaskTs]
        /\ \A q \in Procs : q # c => task'[q] = task[q]
        /\ \A q \in Procs : task'[q].named = task[q].named /\ task'[q].state = task[q].state
                            /\ task'[q].esp0 = task[q].esp0
        /\ task'[c].cr3 = None
    <3>1. task'[c] = [task[c] EXCEPT !.cr3 = None] /\ \A q \in Procs : q # c => task'[q] = task[q]
      BY <1>1, <1>2, <1>9, <2>1 DEF MemoryTypeOK
    <3>2. task[c] \in TaskTs
      BY <1>1, <2>1 DEF MemoryTypeOK
    <3>3. task'[c] = [named |-> task[c].named, state |-> task[c].state, parent |-> task[c].parent,
                      sel |-> task[c].sel, esp0 |-> task[c].esp0, cr3 |-> None,
                      heap |-> task[c].heap, program |-> task[c].program]
      BY <3>1, <3>2 DEF TaskTs
    <3>4. task'[c] \in TaskTs
      BY <3>2, <3>3, MemoryAssumption DEF TaskTs, None, Bad
    <3>5. task' \in [Procs -> TaskTs]
      BY <1>1, <1>2, <1>9, <2>1, <3>1, <3>4 DEF MemoryTypeOK
    <3> QED BY <3>1, <3>3, <3>5
  <2>3. MemoryTypeOK'
    BY <1>1, <1>2, <1>3, <1>6, <1>7, <2>2 DEF MemoryTypeOK
  <2>4. op'[p].pc = "reap_stack" /\ op'[p].child = c
    BY <1>6, <1>9 DEF At
  <2>5. /\ \A q \in Procs : q # p => op[q].dir # d
        /\ \A q \in Procs : q # c => task[q].cr3 # d
    <3>1. \A q \in Procs : q # c => task[q].cr3 # d
      BY <1>1, <1>5, <2>1 DEF Control, Cr3Apart
    <3>2. ASSUME NEW q \in Procs, q # p, op[q].dir = d PROVE FALSE
      <4>1. op[q].pc \in Building \cup {"grow", "reap"}
        BY <1>1, <1>4, <3>2 DEF Control, DirWhen
      <4>2. op[q].pc \notin Building
        BY <1>1, <2>1, <3>2 DEF Control, DirPrivate
      <4>3. ~At(q, "reap")
        BY <1>1, <1>9, <3>2 DEF Control, OneAtATime, Reaping, At
      <4>4. ~At(q, "grow")
        BY <1>1, <2>1, <3>1, <3>2 DEF Control, DirOwn, CallersRun, At
      <4> QED BY <4>1, <4>2, <4>3, <4>4 DEF At
    <3> QED BY <3>1, <3>2
  <2>6. Control'
    <3>1. CallersRun'
      BY <1>1, <1>3, <1>5, <1>9, <2>1, <2>2 DEF Control, CallersRun, At
    <3>2. OneAtATime'
      BY <1>1, <1>3, <1>9, <2>4 DEF Control, OneAtATime, At, Forking, Copying, Reaping
    <3>3. ChildAsFork'
      BY <1>1, <1>3, <2>2, <2>4 DEF Control, ChildAsFork, At, Forking, Slots
    <3>4. ChildAsCopy'
      BY <1>1, <1>3, <2>2, <2>4 DEF Control, ChildAsCopy, Copying, Slots
    <3>5. ChildAsZombie'
      <4>1. \A q \in Procs : q # p => op'[q].pc \notin Reaping
        BY <1>1, <1>3, <1>9 DEF Control, OneAtATime, Reaping, At
      <4> QED BY <1>6, <2>1, <2>2, <2>4, <4>1 DEF ChildAsZombie
    <3>6. FreeSlots'
      <4>1. \A q \in Procs : task[q].state = "free" /\ task[q].esp0 # None =>
               \E r \in Procs : op'[r].pc \in {"fork_dir", "fork_failed"} /\ op'[r].child = q
        <5>1. TAKE q \in Procs
        <5>2. HAVE task[q].state = "free" /\ task[q].esp0 # None
        <5>3. PICK r \in Procs : op[r].pc \in {"fork_dir", "fork_failed"} /\ op[r].child = q
          BY <1>1, <5>2 DEF Control, FreeSlots
        <5> QED BY <1>3, <1>9, <5>3 DEF At
      <4> QED BY <1>1, <2>1, <2>2, <4>1 DEF Control, FreeSlots
    <3>7. SpacesByState'
      <4>1. \A q, r \in Procs : At(r, "reap_stack") /\ op[r].child = q =>
               At(r, "reap_stack")' /\ op'[r].child = q
        BY <1>3, <1>9 DEF At
      <4>2. At(p, "reap_stack")' /\ op'[p].child = c
        BY <2>4 DEF At
      <4> QED BY <1>1, <2>1, <2>2, <4>1, <4>2 DEF Control, SpacesByState
    <3>8. DirWhen'
      BY <1>1, <1>3, <1>6, <2>4 DEF Control, DirWhen, Building
    <3>9. DirPrivate'
      <4>1. \A q \in Procs : op[q].pc \in Building => op[q].dir # None
        BY <1>1 DEF Control, DirWhen
      <4> QED BY <1>1, <1>3, <1>6, <2>2, <2>4, <4>1 DEF Control, DirPrivate, Building
    <3>10. DirOwn'
      BY <1>1, <1>3, <2>1, <2>2, <2>4 DEF Control, DirOwn, CallersRun, At
    <3>11. Cr3Apart'
      BY <1>1, <2>2 DEF Control, Cr3Apart, Pages, None
    <3>12. Wants'
      BY <1>1, <1>3, <1>6 DEF Control, Wants
    <3> QED BY <3>1, <3>2, <3>3, <3>4, <3>5, <3>6, <3>7, <3>8, <3>9, <3>10, <3>11, <3>12 DEF Control
  <2>7. Spaces' = Spaces \ {d}
    <3>1. \A x : x \in Spaces <=> /\ x # None /\ x # Bad
                                 /\ \E q \in Procs : x = task[q].cr3 \/ x = op[q].dir
      BY DEF Spaces
    <3>2. \A x : x \in Spaces' <=> /\ x # None /\ x # Bad
                                  /\ \E q \in Procs : x = task'[q].cr3 \/ x = op'[q].dir
      BY DEF Spaces
    <3>3. \A x : x \in Spaces' => x \in Spaces /\ x # d
      BY <1>3, <1>6, <2>2, <2>5, <3>1, <3>2
    <3>4. \A x : x \in Spaces /\ x # d => x \in Spaces'
      BY <1>3, <2>1, <2>2, <3>1, <3>2
    <3> QED BY <3>3, <3>4
  <2>8. Owners'
    BY <2>1, <2>2, <2>7, DirectoryReleased
  <2> QED BY <2>3, <2>6, <2>8 DEF MemInv
<1> QED BY <1>8, <1>9
-----------------------------------------------------------------------------
(* sys_fork.                                                               *)

\* Steps that leave all pages where they are.
LEMMA OwnersKept ==
  ASSUME MemInv, NEW p \in Procs, \A q \in Procs : q # p => op'[q] = op[q],
         HalfReleased \subseteq {p}, ~At(p, "fork_failed"), ~At(p, "fork_failed")',
         op'[p].held = op[p].held, Spaces' = Spaces,
         \A q \in Procs : task'[q].esp0 = task[q].esp0,
         \A q \in Procs : task'[q].state = "created" =>
             task[q].state = "created" /\ task'[q].cr3 = task[q].cr3,
         UNCHANGED <<bits, tabs, maps, lost>>
  PROVE  Owners'
<1>1. Owners /\ MemoryTypeOK /\ Control
  BY DEF MemInv
<1>2. HalfReleased = {} /\ HalfReleased' = {}
  <2>1. HalfReleased = {}
    BY DEF HalfReleased
  <2>2. ASSUME NEW q \in Procs, op'[q].pc = "fork_failed" PROVE task'[op'[q].child].esp0 = None
    <3>1. op'[q] = op[q] /\ op[q].child \in Procs
      BY <1>1, <2>2 DEF Control, ChildAsFork, Forking, Slots, At
    <3> QED BY <2>1, <2>2, <3>1 DEF HalfReleased, At
  <2> QED BY <2>1, <2>2 DEF HalfReleased, At
<1>3. Released = {} /\ Released' = {}
  BY <1>2 DEF Released
<1>4. StackPages' = StackPages /\ OneStack' /\ ReleasedFree'
  BY <1>1, <1>3 DEF StackPages, OneStack, ReleasedFree, Owners
<1>5. HeldPages' = HeldPages /\ OneHeld'
  BY HeldChanges
<1>6. TablePages' = TablePages /\ MappedPages' = MappedPages /\ OneTable' /\ OneAddress'
  BY TablesKept
<1>7. TableBeneath'
  BY <1>1 DEF TableBeneath, Owners
<1>8. ClearElsewhere'
  <2>1. \A e \in Pages \ Spaces' : Clear(e)'
    BY <1>1 DEF Owners, ClearElsewhere, Clear
  <2>2. (\A c \in Procs : task[c].state = "created" => Clear(task[c].cr3))'
    BY <1>1 DEF Owners, ClearElsewhere, Clear
  <2> QED BY <2>1, <2>2 DEF ClearElsewhere
<1>9. PagesSplit'
  BY <1>1, <1>4, <1>5, <1>6 DEF PagesSplit, Owners
<1> QED BY <1>4, <1>5, <1>6, <1>7, <1>8, <1>9 DEF Owners

LEMMA fork_alloc_Inv ==
  ASSUME MemInv, NEW p \in Procs, fork_alloc(p), HalfReleased \subseteq {p}
  PROVE  MemInv'
<1>1. MemoryTypeOK /\ op[p] \in Ops /\ Control /\ Owners
  BY DEF MemInv, MemoryTypeOK
<1>2. PICK c \in Slots : ~task[c].named
                         /\ op' = [op EXCEPT ![p] = [User EXCEPT !.pc = "fork_desc", !.child = c]]
  BY DEF fork_alloc
<1>3. /\ At(p, "user") /\ task[p].state = "running" /\ task[p].cr3 # Bad /\ ~Allocating
      /\ UNCHANGED <<bits, gdt, task, tabs, maps, lost>>
  BY DEF fork_alloc, Calls
<1>4. /\ op'[p] = [User EXCEPT !.pc = "fork_desc", !.child = c]
      /\ \A q \in Procs : q # p => op'[q] = op[q]
  BY <1>1, <1>2 DEF MemoryTypeOK
<1>5. op'[p] = [pc |-> "fork_desc", child |-> c, sel |-> None, dir |-> None, want |-> {},
                held |-> None, end |-> 0]
  BY <1>4 DEF User
<1>6. op[p].dir = None /\ op[p].held = None
  BY <1>1, <1>3 DEF Control, DirWhen, Wants, At, Building, Mapping
<1>7. c \in Procs /\ task[c].state = "free" /\ task[c].esp0 = None
  <2>1. c \in Procs /\ task[c].state = "free"
    BY <1>1, <1>2 DEF Slots, Control, FreeSlots
  <2> QED BY <1>1, <1>3, <2>1 DEF Control, FreeSlots, Allocating
<1>8. task[p].cr3 \in Pages
  <2>1. task[p].cr3 \in Bad .. LastPage /\ task[p].cr3 # None
    BY <1>1, <1>3 DEF MemoryTypeOK, TaskTs, Control, SpacesByState
  <2> QED BY <1>3, <2>1, MemoryAssumption DEF Bad, None, Pages
<1>9. MemoryTypeOK'
  <2>1. op'[p] \in Ops
    BY <1>5, <1>7, MemoryAssumption DEF Ops, Forking, None
  <2> QED BY <1>1, <1>2, <1>3, <1>4, <2>1 DEF MemoryTypeOK
<1>10. \A q \in Procs : op[q].pc \notin Forking
  BY <1>3 DEF Allocating, Forking
<1>11. Control'
  <2>1. CallersRun'
    BY <1>1, <1>3, <1>4, <1>8 DEF Control, CallersRun, At
  <2>2. OneAtATime'
    BY <1>1, <1>4, <1>5, <1>10 DEF Control, OneAtATime, Forking, Copying, Reaping
  <2>3. ChildAsFork'
    BY <1>2, <1>3, <1>4, <1>5, <1>7, <1>10 DEF ChildAsFork, At
  <2>4. ChildAsCopy'
    BY <1>1, <1>3, <1>4, <1>5 DEF Control, ChildAsCopy, Copying
  <2>5. ChildAsZombie'
    BY <1>1, <1>3, <1>4, <1>5 DEF Control, ChildAsZombie, Reaping
  <2>6. FreeSlots'
    <3>1. \A q \in Procs : ~(task[q].state = "free" /\ task[q].esp0 # None)
      BY <1>1, <1>10 DEF Control, FreeSlots, Forking
    <3> QED BY <1>1, <1>3, <3>1 DEF Control, FreeSlots
  <2>7. SpacesByState'
    <3>1. \A q, r \in Procs : At(r, "reap_stack") /\ op[r].child = q =>
             At(r, "reap_stack")' /\ op'[r].child = q
      BY <1>3, <1>4 DEF At
    <3> QED BY <1>1, <1>3, <3>1 DEF Control, SpacesByState
  <2>8. DirWhen'
    BY <1>1, <1>4, <1>5 DEF Control, DirWhen, Building
  <2>9. DirPrivate'
    <3>1. \A q \in Procs : op[q].pc \in Building => op[q].dir # None
      BY <1>1 DEF Control, DirWhen
    <3> QED BY <1>1, <1>3, <1>4, <1>5, <3>1 DEF Control, DirPrivate, Building
  <2>10. DirOwn'
    BY <1>1, <1>3, <1>4, <1>5 DEF Control, DirOwn, At
  <2>11. Cr3Apart'
    BY <1>1, <1>3 DEF Control, Cr3Apart
  <2>12. Wants'
    BY <1>1, <1>4, <1>5 DEF Control, Wants
  <2> QED BY <2>1, <2>2, <2>3, <2>4, <2>5, <2>6, <2>7, <2>8, <2>9, <2>10, <2>11, <2>12 DEF Control
<1>12. Owners'
  <2>1. Spaces' = Spaces
    BY <1>3, <1>4, <1>5, <1>6, SpacesChange
  <2> QED BY <1>3, <1>4, <1>5, <1>6, <2>1, OwnersKept DEF At
<1> QED BY <1>9, <1>11, <1>12 DEF MemInv

LEMMA fork_desc_Inv ==
  ASSUME MemInv, NEW p \in Procs, fork_desc(p), HalfReleased \subseteq {p}
  PROVE  MemInv'
<1> DEFINE free == (1 .. LastDesc) \ gdt
           c == op[p].child
<1>1. MemoryTypeOK /\ op[p] \in Ops /\ Control /\ Owners
  BY DEF MemInv, MemoryTypeOK
<1>2. /\ At(p, "fork_desc") /\ UNCHANGED <<bits, task, tabs, maps, lost>>
      /\ \/ /\ free # {} /\ gdt' = gdt \cup {Least(free)}
            /\ op' = [op EXCEPT ![p].pc = "fork_stack", ![p].sel = Least(free)]
         \/ op' = [op EXCEPT ![p].pc = "fork_failed"] /\ UNCHANGED gdt
  BY DEF fork_desc, Goto
<1>3. /\ task[p].state = "running" /\ task[p].cr3 \in Pages /\ SameTasks
      /\ c \in Procs /\ task[c].esp0 = None
  BY <1>1, <1>2 DEF Control, CallersRun, ChildAsFork, Forking, At, SameTasks, Slots
<1>4. op[p].dir = None /\ op[p].held = None /\ op[p].want = {}
  BY <1>1, <1>2 DEF Control, DirWhen, Wants, At, Building, Mapping
<1>5. /\ \A q \in Procs : q # p => op'[q] = op[q]
      /\ op'[p].pc \in {"fork_stack", "fork_failed"} /\ op'[p].child = c /\ op'[p].dir = None
      /\ op'[p].held = None /\ op'[p].want = {}
      /\ op'[p] \in Ops /\ gdt' \subseteq 1 .. LastDesc
  <2>1. \A q \in Procs : q # p => op'[q] = op[q]
    BY <1>1, <1>2 DEF MemoryTypeOK
  <2>2. PICK x \in {"fork_stack", "fork_failed"}, y \in 0 .. LastDesc :
          /\ op'[p] = [op[p] EXCEPT !.pc = x, !.sel = y]
          /\ gdt' \subseteq 1 .. LastDesc
    <3>1. CASE free # {} /\ gdt' = gdt \cup {Least(free)}
               /\ op' = [op EXCEPT ![p].pc = "fork_stack", ![p].sel = Least(free)]
      <4>1. free \in SUBSET Nat
        BY MemoryAssumption
      <4>2. Least(free) \in free
        BY <3>1, <4>1, LeastIn
      <4>3. op'[p] = [op[p] EXCEPT !.pc = "fork_stack", !.sel = Least(free)]
        BY <1>1, <3>1 DEF MemoryTypeOK
      <4>4. Least(free) \in 1 .. LastDesc
        BY <4>2
      <4> HIDE DEF free
      <4>5. gdt' \subseteq 1 .. LastDesc
        BY <1>1, <3>1, <4>4 DEF MemoryTypeOK
      <4>6. Least(free) \in 0 .. LastDesc
        BY <4>4, MemoryAssumption
      <4> QED BY <4>3, <4>5, <4>6
    <3>2. CASE op' = [op EXCEPT ![p].pc = "fork_failed"] /\ UNCHANGED gdt
      <4>1. op'[p] = [op[p] EXCEPT !.pc = "fork_failed"] /\ op[p].sel \in 0 .. LastDesc
        BY <1>1, <3>2 DEF MemoryTypeOK, Ops
      <4>2. op'[p] = [op[p] EXCEPT !.pc = "fork_failed", !.sel = op[p].sel]
        BY <1>1, <4>1 DEF Ops
      <4> QED BY <1>1, <3>2, <4>1, <4>2 DEF MemoryTypeOK
    <3> QED BY <1>2, <3>1, <3>2
  <2>3. op'[p] = [pc |-> x, child |-> c, sel |-> y, dir |-> op[p].dir,
                  want |-> op[p].want, held |-> op[p].held, end |-> op[p].end]
    BY <1>1, <2>2 DEF Ops
  <2>4. op'[p] \in Ops
    BY <1>1, <2>2, <2>3 DEF Ops, Forking
  <2> QED BY <1>4, <2>1, <2>2, <2>3, <2>4
<1>6. MemoryTypeOK'
  BY <1>1, <1>2, <1>5 DEF MemoryTypeOK
<1>7. Control'
  <2>1. SameChild(p)
    BY <1>2, <1>3, <1>5 DEF SameChild, At, Forking, Copying, Reaping
  <2>2. SameSpace(p)
    BY <1>5 DEF SameSpace, Building, At
  <2> QED BY <1>3, <1>5, <2>1, <2>2, CallerMoves
<1>8. StackPages' = StackPages /\ OneStack' /\ ReleasedFree'
  BY <1>2, <1>3, <1>5, StacksKept DEF At
<1>9. HeldPages' = HeldPages /\ OneHeld'
  BY <1>4, <1>5, HeldChanges
<1>10. Spaces' = Spaces
  BY <1>2, <1>4, <1>5, SpacesChange
<1>11. TablePages' = TablePages /\ MappedPages' = MappedPages /\ OneTable' /\ OneAddress'
  BY <1>2, TablesKept
<1>12. ClearElsewhere' /\ TableBeneath'
  BY <1>2, <1>3, <1>10, ClearKept
<1>13. PagesSplit'
  BY <1>1, <1>2, <1>8, <1>9, <1>10, <1>11 DEF PagesSplit, Owners
<1> QED BY <1>6, <1>7, <1>8, <1>9, <1>11, <1>12, <1>13 DEF MemInv, Owners
\* A step of a fork that changes its slot, which is nobody else's.
SlotSteps(p, c) ==
    \/ /\ op'[p].pc = "fork_dir" /\ task'[c].state = "free" /\ ~task'[c].named
       /\ task'[c].cr3 = None /\ task'[c].esp0 \in Pages
    \/ /\ op'[p].pc = "fork_copy" /\ task'[c].state = "created" /\ task'[c].named
       /\ task'[c].cr3 \in Pages \ bits
    \/ /\ op'[p].pc = "user" /\ task'[c].state = "free" /\ ~task'[c].named
       /\ task'[c].cr3 = None /\ task'[c].esp0 = None

LEMMA ForkControl ==
  ASSUME MemInv, NEW p \in Procs, op[p].pc \in Forking, NEW c, c = op[p].child,
         \A q \in Procs : q # p => op'[q] = op[q],
         \A q \in Procs : q # c => task'[q] = task[q],
         op'[p].dir = None, op'[p].held = None, op'[p].want = {},
         op'[p].pc # "user" => op'[p].child = c,
         SlotSteps(p, c)
  PROVE  Control'
<1>1. MemoryTypeOK /\ Control
  BY DEF MemInv
<1>2. /\ c \in Slots /\ c \in Procs /\ task[c].state = "free" /\ task[c].cr3 = None
      /\ task[p].state = "running" /\ task[p].cr3 \in Pages /\ c # p
  BY <1>1 DEF Control, ChildAsFork, FreeSlots, CallersRun, Slots, At, Forking
<1>3. \A q \in Procs : q # p => /\ op'[q].pc \notin Forking
                                /\ op'[q].pc \in Copying \cup Reaping =>
                                      op'[q].child # c /\ op'[q].child \in Procs
  BY <1>1, <1>2 DEF Control, OneAtATime, ChildAsCopy, ChildAsZombie, Slots
<1>4. op'[p].pc \in {"fork_dir", "fork_copy", "user"}
  BY DEF SlotSteps
<1>5. CallersRun'
  BY <1>1, <1>2 DEF Control, CallersRun, At
<1>6. OneAtATime'
  <2>1. op'[p].pc \notin Reaping /\ (op'[p].pc \in Copying => op'[p].child = c)
    BY <1>4 DEF Reaping, Copying
  <2> QED BY <1>1, <1>3, <2>1 DEF Control, OneAtATime
<1>7. ChildAsFork'
  <2>1. op'[p].pc \in Forking => /\ op'[p].child = c /\ op'[p].pc = "fork_dir"
                                 /\ task'[c].state = "free" /\ task'[c].esp0 \in Pages
    BY <1>4 DEF SlotSteps, Forking
  <2> QED BY <1>2, <1>3, <2>1 DEF ChildAsFork, At
<1>8. ChildAsCopy'
  <2>1. op'[p].pc \in Copying => op'[p].child = c /\ task'[c].state = "created"
    BY <1>4 DEF SlotSteps, Copying
  <2> QED BY <1>1, <1>2, <1>3, <2>1 DEF Control, ChildAsCopy
<1>9. ChildAsZombie'
  <2>1. op'[p].pc \notin Reaping
    BY <1>4 DEF Reaping
  <2> QED BY <1>1, <1>3, <2>1 DEF Control, ChildAsZombie
<1>10. FreeSlots'
  <2>1. \A q \in Procs : task'[q].named <=> task'[q].state # "free"
    BY <1>1 DEF SlotSteps, Control, FreeSlots
  <2>2. \A q \in Procs : task'[q].state = "free" => task'[q].cr3 = None
    BY <1>1 DEF SlotSteps, Control, FreeSlots
  <2>3. \A q \in Procs : task'[q].state = "free" /\ task'[q].esp0 # None =>
           \E r \in Procs : op'[r].pc \in {"fork_dir", "fork_failed"} /\ op'[r].child = q
    <3>1. TAKE q \in Procs
    <3>2. HAVE task'[q].state = "free" /\ task'[q].esp0 # None
    <3>3. CASE q = c
      BY <3>2, <3>3 DEF SlotSteps
    <3>4. CASE q # c
      <4>1. PICK r \in Procs : op[r].pc \in {"fork_dir", "fork_failed"} /\ op[r].child = q
        BY <1>1, <3>2, <3>4 DEF Control, FreeSlots
      <4> QED BY <1>1, <3>4, <4>1 DEF Control, OneAtATime, Forking
    <3> QED BY <3>3, <3>4
  <2> QED BY <2>1, <2>2, <2>3 DEF FreeSlots
<1>11. SpacesByState'
  <2>1. \A q, r \in Procs : At(r, "reap_stack") /\ op[r].child = q =>
           At(r, "reap_stack")' /\ op'[r].child = q
    BY DEF At, Forking
  <2> QED BY <1>1, <2>1 DEF SlotSteps, Control, SpacesByState
<1>12. DirWhen'
  BY <1>1, <1>4 DEF Control, DirWhen, Building
<1>13. DirPrivate'
  <2>1. \A q \in Procs : op[q].pc \in Building => op[q].dir # None /\ op[q].dir \in bits
    BY <1>1, UsedAllocated DEF Control, DirWhen
  <2>2. task'[c].cr3 = None \/ task'[c].cr3 \notin bits
    BY DEF SlotSteps
  <2> QED BY <1>1, <1>4, <2>1, <2>2 DEF Control, DirPrivate, Building
<1>14. DirOwn'
  BY <1>1, <1>2, <1>4 DEF Control, DirOwn, At, CallersRun
<1>15. Cr3Apart'
  <2>1. \A q \in Procs : task[q].cr3 \in Pages => task[q].cr3 \in bits
    BY UsedAllocated
  <2>2. task'[c].cr3 = None \/ task'[c].cr3 \in Pages \ bits
    BY DEF SlotSteps
  <2>3. None \notin Pages
    BY DEF None, Pages
  <2> QED BY <1>1, <2>1, <2>2, <2>3 DEF Control, Cr3Apart
<1>16. Wants'
  BY <1>1, <1>4 DEF Control, Wants
<1> QED BY <1>5, <1>6, <1>7, <1>8, <1>9, <1>10, <1>11, <1>12, <1>13, <1>14, <1>15, <1>16 DEF Control

\* Where the fork that process p makes is, on the way to fork_copy.
LEMMA ForkFacts ==
  ASSUME MemInv, NEW p \in Procs, op[p].pc \in Forking
  PROVE  /\ MemoryTypeOK /\ op[p] \in Ops /\ Control /\ Owners
         /\ op[p].child \in Procs /\ task[op[p].child] \in TaskTs
         /\ task[op[p].child].state = "free" /\ task[op[p].child].cr3 = None
         /\ task[p].state = "running" /\ task[p].cr3 \in Pages
         /\ op[p].dir = None /\ op[p].held = None /\ op[p].want = {}
<1>1. MemoryTypeOK /\ op[p] \in Ops /\ Control /\ Owners
  BY DEF MemInv, MemoryTypeOK
<1>2. /\ op[p].child \in Procs /\ task[op[p].child].state = "free"
      /\ task[op[p].child].cr3 = None
  BY <1>1 DEF Control, ChildAsFork, FreeSlots, Slots
<1>3. task[p].state = "running" /\ task[p].cr3 \in Pages
  BY <1>1 DEF Control, CallersRun, At, Forking
<1>4. op[p].dir = None /\ op[p].held = None /\ op[p].want = {}
  BY <1>1 DEF Control, DirWhen, Wants, Forking, Building, Mapping
<1> QED BY <1>1, <1>2, <1>3, <1>4 DEF MemoryTypeOK

LEMMA fork_stack_Inv ==
  ASSUME MemInv, NEW p \in Procs, fork_stack(p), HalfReleased \subseteq {p}
  PROVE  MemInv'
<1> DEFINE c == op[p].child
<1>1. At(p, "fork_stack") /\ op[p].pc \in Forking /\ UNCHANGED <<tabs, maps, lost>>
  BY DEF fork_stack, At, Forking
<1>2. /\ MemoryTypeOK /\ op[p] \in Ops /\ Control /\ Owners
      /\ c \in Procs /\ task[c] \in TaskTs /\ task[c].state = "free" /\ task[c].cr3 = None
      /\ task[p].state = "running" /\ task[p].cr3 \in Pages
      /\ op[p].dir = None /\ op[p].held = None /\ op[p].want = {}
  BY <1>1, ForkFacts
<1>3. task[c].esp0 = None /\ ~task[c].named
  BY <1>1, <1>2 DEF Control, ChildAsFork, FreeSlots, At
<1>4. TablePages' = TablePages /\ MappedPages' = MappedPages /\ OneTable' /\ OneAddress'
  BY <1>1, TablesKept
<1>5. HalfReleased = {} /\ Released = {}
  BY <1>1 DEF HalfReleased, Released, At
<1>6. CASE /\ ~Shortage /\ bits' = bits \cup {NewPage}
           /\ task' = [task EXCEPT ![c].esp0 = NewPage]
           /\ op' = [op EXCEPT ![p].pc = "fork_dir"] /\ UNCHANGED gdt
  <2>1. NewPage \in Pages \ bits
    BY <1>2, <1>6, FreshPage DEF MemoryTypeOK
  <2>2. /\ op'[p] = [op[p] EXCEPT !.pc = "fork_dir"] /\ \A q \in Procs : q # p => op'[q] = op[q]
        /\ task'[c] = [task[c] EXCEPT !.esp0 = NewPage]
        /\ \A q \in Procs : q # c => task'[q] = task[q]
    BY <1>2, <1>6 DEF MemoryTypeOK
  <2>3. /\ op'[p].pc = "fork_dir" /\ op'[p].child = c /\ op'[p].dir = None
        /\ op'[p].held = None /\ op'[p].want = {} /\ op'[p] \in Ops
    BY <1>2, <2>2 DEF Ops, Forking
  <2>4. /\ task'[c].state = "free" /\ task'[c].named = task[c].named /\ task'[c].cr3 = None
        /\ task'[c].esp0 = NewPage /\ task'[c] \in TaskTs
    BY <1>2, <2>1, <2>2 DEF TaskTs, Pages
  <2>5. MemoryTypeOK'
    BY <1>1, <1>2, <1>6, <2>1, <2>2, <2>3, <2>4 DEF MemoryTypeOK
  <2>6. Control'
    <3>1. SlotSteps(p, c)
      BY <1>3, <2>1, <2>3, <2>4 DEF SlotSteps
    <3> QED BY <1>1, <2>2, <2>3, <3>1, ForkControl
  <2>7. HalfReleased' = {} /\ Released' = {}
    <3>1. \A q \in Procs : op'[q].pc # "fork_failed"
      BY <1>1, <1>2, <2>2, <2>3 DEF Control, OneAtATime, Forking
    <3> QED BY <3>1 DEF HalfReleased, Released, At
  <2>8. StackPages' = StackPages \cup {NewPage}
    <3>1. \A q \in Procs : task[q].esp0 # None => task'[q].esp0 = task[q].esp0
      BY <1>3, <2>2
    <3>2. \A q \in Procs : task'[q].esp0 = NewPage \/ task'[q].esp0 = task[q].esp0
      BY <2>2, <2>4
    <3>3. \A x : x \in StackPages' <=> x \in StackPages \/ x = NewPage
      BY <1>2, <1>5, <2>1, <2>4, <2>7, <3>1, <3>2 DEF StackPages, Pages, None
    <3> QED BY <3>3
  <2>9. OneStack'
    <3>1. \A q \in Procs : task[q].esp0 # NewPage
      BY <1>5, <2>1, UsedAllocated DEF Pages, None
    <3>2. \A q, r \in Procs : task[q].esp0 = task[r].esp0 /\ task[q].esp0 # None => q = r
      BY <1>2, <1>5 DEF Owners, OneStack
    <3>3. \A q, r \in Procs : task'[q].esp0 = task'[r].esp0 /\ task'[q].esp0 # None => q = r
      <4>1. \A q \in Procs : task'[q].esp0 = IF q = c THEN NewPage ELSE task[q].esp0
        BY <2>2, <2>4
      <4> QED BY <3>1, <3>2, <4>1
    <3> QED BY <2>7, <3>3 DEF OneStack
  <2>10. ReleasedFree'
    BY <2>7 DEF ReleasedFree
  <2>11. HeldPages' = HeldPages /\ OneHeld'
    BY <1>2, <2>2, <2>3, HeldChanges
  <2>12. Spaces' = Spaces
    <3>1. \A q \in Procs : task'[q].cr3 = task[q].cr3
      BY <1>2, <2>2, <2>4
    <3> QED BY <1>2, <2>2, <2>3, <3>1, SpacesChange
  <2>13. ClearElsewhere' /\ TableBeneath'
    <3>1. \A q \in Procs : task'[q].state = "created" => q # c
      BY <2>4
    <3>2. \A e \in Pages \ Spaces' : Clear(e)'
      BY <1>1, <1>2, <2>12 DEF Owners, ClearElsewhere, Clear
    <3>3. (\A q \in Procs : task[q].state = "created" => Clear(task[q].cr3))'
      BY <1>1, <1>2, <2>2, <3>1 DEF Owners, ClearElsewhere, Clear
    <3> QED BY <1>1, <1>2, <3>2, <3>3 DEF ClearElsewhere, TableBeneath, Owners
  <2>14. PagesSplit'
    <3>1. Split(StackPages \cup {NewPage}, HeldPages, Spaces, TablePages, MappedPages,
                bits \cup {NewPage}, lost)
      BY <1>2, <2>1, SplitTake DEF Owners, PagesSplit
    <3> QED BY <1>1, <1>4, <1>6, <2>8, <2>11, <2>12, <3>1 DEF PagesSplit
  <2> QED BY <1>4, <2>5, <2>6, <2>9, <2>10, <2>11, <2>13, <2>14 DEF MemInv, Owners
<1>7. CASE /\ Shortage /\ gdt' = gdt \ {op[p].sel}
           /\ op' = [op EXCEPT ![p].pc = "fork_failed"] /\ UNCHANGED <<bits, task>>
  <2>1. op'[p] = [op[p] EXCEPT !.pc = "fork_failed"] /\ \A q \in Procs : q # p => op'[q] = op[q]
    BY <1>2, <1>7 DEF MemoryTypeOK
  <2>2. /\ op'[p].pc = "fork_failed" /\ op'[p].child = c /\ op'[p].dir = None
        /\ op'[p].held = None /\ op'[p].want = {} /\ op'[p] \in Ops
    BY <1>2, <2>1 DEF Ops, Forking
  <2>3. SameTasks
    BY <1>7 DEF SameTasks
  <2>4. MemoryTypeOK'
    BY <1>1, <1>2, <1>7, <2>1, <2>2 DEF MemoryTypeOK
  <2>5. Control'
    <3>1. SameChild(p)
      BY <1>1, <1>3, <2>2 DEF SameChild, At, Forking, Copying, Reaping
    <3>2. SameSpace(p)
      BY <2>2 DEF SameSpace, Building, At
    <3> QED BY <1>2, <2>1, <2>2, <2>3, <3>1, <3>2, CallerMoves
  <2>6. StackPages' = StackPages /\ OneStack' /\ ReleasedFree'
    BY <1>1, <1>2, <1>3, <2>1, <2>2, <2>3, StacksKept DEF At
  <2>7. HeldPages' = HeldPages /\ OneHeld'
    BY <1>2, <2>1, <2>2, HeldChanges
  <2>8. Spaces' = Spaces
    BY <1>2, <1>7, <2>1, <2>2, SpacesChange
  <2>9. ClearElsewhere' /\ TableBeneath'
    BY <1>1, <2>3, <2>8, ClearKept
  <2>10. PagesSplit'
    BY <1>1, <1>2, <1>4, <1>7, <2>6, <2>7, <2>8 DEF PagesSplit, Owners
  <2> QED BY <1>4, <2>4, <2>5, <2>6, <2>7, <2>9, <2>10 DEF MemInv, Owners
<1> QED BY <1>6, <1>7 DEF fork_stack, Goto
LEMMA fork_dir_Inv ==
  ASSUME MemInv, NEW p \in Procs, fork_dir(p), HalfReleased \subseteq {p}
  PROVE  MemInv'
<1> DEFINE c == op[p].child
           stack == task[c].esp0
<1>1. At(p, "fork_dir") /\ op[p].pc \in Forking /\ UNCHANGED <<tabs, maps, lost>>
  BY DEF fork_dir, At, Forking
<1>2. /\ MemoryTypeOK /\ op[p] \in Ops /\ Control /\ Owners
      /\ c \in Procs /\ task[c] \in TaskTs /\ task[c].state = "free" /\ task[c].cr3 = None
      /\ task[p].state = "running" /\ task[p].cr3 \in Pages
      /\ op[p].dir = None /\ op[p].held = None /\ op[p].want = {}
  BY <1>1, ForkFacts
<1>3. stack \in Pages
  BY <1>1, <1>2 DEF Control, ChildAsFork, At
<1>4. TablePages' = TablePages /\ MappedPages' = MappedPages /\ OneTable' /\ OneAddress'
  BY <1>1, TablesKept
<1>5. HalfReleased = {} /\ Released = {}
  BY <1>1 DEF HalfReleased, Released, At
<1>10. task[p].named = TRUE
  BY <1>2 DEF MemoryTypeOK, Control, FreeSlots, TaskTs
<1>6. CASE /\ ~Shortage /\ bits' = bits \cup {NewPage}
           /\ task' = [task EXCEPT ![c].cr3 = NewPage, ![c].sel = op[p].sel,
                                   ![c].named = task[p].named, ![c].state = "created"]
           /\ op' = [op EXCEPT ![p].pc = "fork_copy"] /\ UNCHANGED gdt
  <2>1. NewPage \in Pages \ bits /\ NewPage # None /\ NewPage # Bad
    <3>1. NewPage \in Pages \ bits
      BY <1>2, <1>6, FreshPage DEF MemoryTypeOK
    <3> QED BY <3>1 DEF Pages, None, Bad
  <2>2. /\ op'[p] = [op[p] EXCEPT !.pc = "fork_copy"] /\ \A q \in Procs : q # p => op'[q] = op[q]
        /\ task'[c] = [task[c] EXCEPT !.cr3 = NewPage, !.sel = op[p].sel, !.named = TRUE,
                                      !.state = "created"]
        /\ \A q \in Procs : q # c => task'[q] = task[q]
    BY <1>2, <1>6, <1>10 DEF MemoryTypeOK
  <2>3. /\ op'[p].pc = "fork_copy" /\ op'[p].child = c /\ op'[p].dir = None
        /\ op'[p].held = None /\ op'[p].want = {} /\ op'[p] \in Ops
    BY <1>2, <2>2 DEF Ops, Copying
  <2>4. /\ task'[c].state = "created" /\ task'[c].named = TRUE /\ task'[c].cr3 = NewPage
        /\ task'[c].esp0 = stack /\ task'[c] \in TaskTs
    <3>1. task'[c] = [named |-> TRUE, state |-> "created", parent |-> task[c].parent,
                      sel |-> op[p].sel, esp0 |-> stack, cr3 |-> NewPage,
                      heap |-> task[c].heap, program |-> task[c].program]
      BY <1>2, <2>2 DEF TaskTs
    <3>2. op[p].sel \in 0 .. LastDesc /\ NewPage \in Bad .. LastPage
      BY <1>2, <2>1 DEF Ops, Pages, Bad
    <3>3. task'[c] \in TaskTs
      BY <1>2, <3>1, <3>2 DEF TaskTs
    <3> QED BY <3>1, <3>3
  <2>5. MemoryTypeOK'
    BY <1>1, <1>2, <1>6, <2>1, <2>2, <2>3, <2>4 DEF MemoryTypeOK
  <2>6. Control'
    <3>1. SlotSteps(p, c)
      BY <2>1, <2>3, <2>4 DEF SlotSteps
    <3> QED BY <1>1, <2>2, <2>3, <3>1, ForkControl
  <2>7. HalfReleased' = {} /\ Released' = {}
    <3>1. \A q \in Procs : op'[q].pc # "fork_failed"
      BY <1>1, <1>2, <2>2, <2>3 DEF Control, OneAtATime, Forking
    <3> QED BY <3>1 DEF HalfReleased, Released, At
  <2>8. StackPages' = StackPages /\ OneStack' /\ ReleasedFree'
    <3>1. \A q \in Procs : task'[q].esp0 = task[q].esp0
      BY <2>2, <2>4
    <3> QED BY <1>2, <1>5, <2>7, <3>1 DEF StackPages, OneStack, ReleasedFree, Owners
  <2>9. HeldPages' = HeldPages /\ OneHeld'
    BY <1>2, <2>2, <2>3, HeldChanges
  <2>10. Spaces' = Spaces \cup {NewPage}
    <3>1. \A x : x \in Spaces <=> /\ x # None /\ x # Bad
                                 /\ \E q \in Procs : x = task[q].cr3 \/ x = op[q].dir
      BY DEF Spaces
    <3>2. \A x : x \in Spaces' <=> /\ x # None /\ x # Bad
                                  /\ \E q \in Procs : x = task'[q].cr3 \/ x = op'[q].dir
      BY DEF Spaces
    <3>3. \A q \in Procs : op'[q].dir = op[q].dir
      BY <1>2, <2>2, <2>3
    <3>4. \A x : x \in Spaces' => x \in Spaces \/ x = NewPage
      <4>1. \A q \in Procs : task'[q].cr3 = task[q].cr3 \/ task'[q].cr3 = NewPage
        BY <2>2, <2>4
      <4> QED BY <3>1, <3>2, <3>3, <4>1
    <3>5. \A x : x \in Spaces => x \in Spaces'
      BY <1>2, <2>2, <3>1, <3>2, <3>3
    <3>6. NewPage \in Spaces'
      BY <1>2, <2>1, <2>4, <3>2
    <3> QED BY <3>4, <3>5, <3>6
  <2>11. ClearElsewhere' /\ TableBeneath'
    <3>1. NewPage \notin Spaces
      BY <1>2, <2>1 DEF Owners, PagesSplit, Split
    <3>2. \A e \in Pages \ Spaces : Clear(e)
      BY <1>2 DEF Owners, ClearElsewhere
    <3>3. \A e \in Pages \ Spaces' : Clear(e)'
      BY <1>1, <2>10, <3>2 DEF Clear
    <3>4. (\A q \in Procs : task[q].state = "created" => Clear(task[q].cr3))'
      <4>1. \A q \in Procs : q # c /\ task[q].state = "created" => Clear(task[q].cr3)
        BY <1>2 DEF Owners, ClearElsewhere
      <4>2. Clear(NewPage)
        BY <2>1, <3>1, <3>2
      <4>3. \A e : Clear(e)' <=> Clear(e)
        BY <1>1 DEF Clear
      <4>4. \A q \in Procs : task'[q].state = "created" => Clear(task'[q].cr3)
        <5>1. TAKE q \in Procs
        <5>2. HAVE task'[q].state = "created"
        <5>3. CASE q = c
          BY <2>4, <4>2, <5>3
        <5>4. CASE q # c
          BY <2>2, <4>1, <5>2, <5>4
        <5> QED BY <5>3, <5>4
      <4> QED BY <1>1, <4>4 DEF Clear
    <3> QED BY <1>1, <1>2, <3>3, <3>4 DEF ClearElsewhere, TableBeneath, Owners
  <2>12. PagesSplit'
    <3>1. Split(StackPages, HeldPages, Spaces \cup {NewPage}, TablePages, MappedPages,
                bits \cup {NewPage}, lost)
      BY <1>2, <2>1, SplitTake DEF Owners, PagesSplit
    <3> QED BY <1>1, <1>4, <1>6, <2>8, <2>9, <2>10, <3>1 DEF PagesSplit
  <2> QED BY <1>4, <2>5, <2>6, <2>8, <2>9, <2>11, <2>12 DEF MemInv, Owners
<1>7. CASE /\ Shortage /\ bits' = bits \ {stack} /\ gdt' = gdt \ {op[p].sel}
           /\ op' = [op EXCEPT ![p].pc = "fork_failed"] /\ UNCHANGED task
  <2>1. op'[p] = [op[p] EXCEPT !.pc = "fork_failed"] /\ \A q \in Procs : q # p => op'[q] = op[q]
    BY <1>2, <1>7 DEF MemoryTypeOK
  <2>2. /\ op'[p].pc = "fork_failed" /\ op'[p].child = c /\ op'[p].dir = None
        /\ op'[p].held = None /\ op'[p].want = {} /\ op'[p] \in Ops
    BY <1>2, <2>1 DEF Ops, Forking
  <2>3. SameTasks
    BY <1>7 DEF SameTasks
  <2>4. MemoryTypeOK'
    BY <1>1, <1>2, <1>7, <2>1, <2>2 DEF MemoryTypeOK
  <2>5. Control'
    <3>1. SameChild(p)
      BY <1>1, <2>2 DEF SameChild, At, Forking, Copying, Reaping
    <3>2. SameSpace(p)
      BY <2>2 DEF SameSpace, Building, At
    <3> QED BY <1>2, <2>1, <2>2, <2>3, <3>1, <3>2, CallerMoves
  <2>6. Released' = {c}
    <3>1. \A q \in Procs : op'[q].pc = "fork_failed" => q = p
      BY <1>1, <1>2, <2>1 DEF Control, OneAtATime, Forking
    <3>2. HalfReleased' = {p}
      BY <1>3, <1>7, <2>2, <3>1 DEF HalfReleased, At, Pages, None
    <3> QED BY <2>2, <3>2 DEF Released
  <2>7. \A q, r \in Procs : task[q].esp0 = task[r].esp0 /\ task[q].esp0 # None => q = r
    BY <1>2, <1>5 DEF Owners, OneStack
  <2>8. StackPages' = StackPages \ {stack}
    <3>1. \A x : x \in StackPages' <=> x \in StackPages /\ x # stack
      BY <1>2, <1>3, <1>5, <1>7, <2>6, <2>7 DEF StackPages, Pages, None
    <3> QED BY <3>1
  <2>9. OneStack' /\ ReleasedFree'
    BY <1>7, <2>6, <2>7 DEF OneStack, ReleasedFree
  <2>10. HeldPages' = HeldPages /\ OneHeld'
    BY <1>2, <2>1, <2>2, HeldChanges
  <2>11. Spaces' = Spaces
    BY <1>2, <1>7, <2>1, <2>2, SpacesChange
  <2>12. ClearElsewhere' /\ TableBeneath'
    BY <1>1, <2>3, <2>11, ClearKept
  <2>13. PagesSplit'
    <3>1. stack \in StackPages
      BY <1>2, <1>3, <1>5 DEF StackPages
    <3>2. Split(StackPages \ {stack}, HeldPages, Spaces, TablePages, MappedPages,
                bits \ {stack}, lost)
      BY <1>2, <3>1, SplitGive DEF Owners, PagesSplit
    <3> QED BY <1>1, <1>4, <1>7, <2>8, <2>10, <2>11, <3>2 DEF PagesSplit
  <2> QED BY <1>4, <2>4, <2>5, <2>9, <2>10, <2>12, <2>13 DEF MemInv, Owners
<1> QED BY <1>6, <1>7 DEF fork_dir, Goto

LEMMA fork_failed_Inv ==
  ASSUME MemInv, NEW p \in Procs, fork_failed(p), HalfReleased \subseteq {p}
  PROVE  MemInv'
<1> DEFINE c == op[p].child
<1>1. /\ At(p, "fork_failed") /\ op[p].pc \in Forking /\ UNCHANGED <<gdt, tabs, maps, lost>>
      /\ bits' = bits \ {task[c].esp0}
      /\ task' = [task EXCEPT ![c] = Blank]
      /\ op' = [op EXCEPT ![p] = User]
  BY DEF fork_failed, At, Forking
<1>2. /\ MemoryTypeOK /\ op[p] \in Ops /\ Control /\ Owners
      /\ c \in Procs /\ task[c] \in TaskTs /\ task[c].state = "free" /\ task[c].cr3 = None
      /\ task[p].state = "running" /\ task[p].cr3 \in Pages
      /\ op[p].dir = None /\ op[p].held = None /\ op[p].want = {}
  BY <1>1, ForkFacts
<1>3. TablePages' = TablePages /\ MappedPages' = MappedPages /\ OneTable' /\ OneAddress'
  BY <1>1, TablesKept
<1>4. /\ op'[p] = User /\ \A q \in Procs : q # p => op'[q] = op[q]
      /\ task'[c] = Blank /\ \A q \in Procs : q # c => task'[q] = task[q]
  BY <1>1, <1>2 DEF MemoryTypeOK
<1>5. /\ op'[p].pc = "user" /\ op'[p].dir = None /\ op'[p].held = None /\ op'[p].want = {}
      /\ op'[p] \in Ops
  BY <1>4, MemoryAssumption DEF User, Ops, None
<1>6. /\ task'[c].state = "free" /\ task'[c].named = FALSE /\ task'[c].cr3 = None
      /\ task'[c].esp0 = None /\ task'[c] \in TaskTs
  BY <1>4, MemoryAssumption DEF Blank, TaskTs, None, Bad
<1>7. /\ \A q \in Released : q = c /\ task[c].esp0 # None
      /\ task[c].esp0 # None => c \in Released
  BY <1>1 DEF Released, HalfReleased
<1>8. bits' = bits
  <2>1. CASE task[c].esp0 = None
    BY <1>1, <1>2, <2>1 DEF MemoryTypeOK, Pages, None
  <2>2. CASE task[c].esp0 # None
    BY <1>1, <1>2, <1>7, <2>2 DEF Owners, ReleasedFree
  <2> QED BY <2>1, <2>2
<1>9. MemoryTypeOK'
  BY <1>1, <1>2, <1>4, <1>5, <1>6, <1>8 DEF MemoryTypeOK
<1>10. Control'
  <2>1. SlotSteps(p, c)
    BY <1>5, <1>6 DEF SlotSteps
  <2> QED BY <1>1, <1>4, <1>5, <2>1, ForkControl
<1>11. Released' = {}
  <2>1. \A q \in Procs : op'[q].pc # "fork_failed"
    BY <1>1, <1>2, <1>4, <1>5 DEF Control, OneAtATime, Forking
  <2> QED BY <2>1 DEF HalfReleased, Released, At
<1>12. \A q \in Procs : task'[q].esp0 # None => q \notin Released /\ task'[q].esp0 = task[q].esp0
  BY <1>4, <1>6, <1>7
<1>13. \A q \in Procs \ Released : task[q].esp0 # None => task'[q].esp0 = task[q].esp0
  BY <1>4, <1>7
<1>14. StackPages' = StackPages
  <2>1. None \notin Pages
    BY DEF None, Pages
  <2>2. \A x : x \in StackPages' => x \in StackPages
    BY <1>11, <1>12, <2>1 DEF StackPages
  <2>3. \A x : x \in StackPages => x \in StackPages'
    BY <1>11, <1>13, <2>1 DEF StackPages
  <2> QED BY <2>2, <2>3
<1>15. OneStack' /\ ReleasedFree'
  BY <1>2, <1>11, <1>12 DEF OneStack, ReleasedFree, Owners
<1>16. HeldPages' = HeldPages /\ OneHeld'
  BY <1>2, <1>4, <1>5, HeldChanges
<1>17. \A q \in Procs : task'[q].cr3 = task[q].cr3
  BY <1>2, <1>4, <1>6
<1>18. Spaces' = Spaces
  BY <1>2, <1>4, <1>5, <1>17, SpacesChange
<1>19. ClearElsewhere' /\ TableBeneath'
  <2>1. \A q \in Procs : task'[q].state = "created" => q # c
    BY <1>6
  <2>2. \A e \in Pages \ Spaces' : Clear(e)'
    BY <1>1, <1>2, <1>18 DEF Owners, ClearElsewhere, Clear
  <2>3. (\A q \in Procs : task[q].state = "created" => Clear(task[q].cr3))'
    BY <1>1, <1>2, <1>4, <2>1 DEF Owners, ClearElsewhere, Clear
  <2> QED BY <1>1, <1>2, <2>2, <2>3 DEF ClearElsewhere, TableBeneath, Owners
<1>20. PagesSplit'
  BY <1>1, <1>2, <1>3, <1>8, <1>14, <1>16, <1>18 DEF PagesSplit, Owners
<1> QED BY <1>3, <1>9, <1>10, <1>15, <1>16, <1>19, <1>20 DEF MemInv, Owners

\* Who can be working on the space of a task: the task itself, or the parent that reaps it.
LEMMA WorksOn ==
  ASSUME MemInv, NEW c \in Procs, task[c].cr3 \in Pages, NEW q \in Procs,
         op[q].dir = task[c].cr3
  PROVE  \/ At(q, "grow") /\ q = c
         \/ At(q, "reap") /\ op[q].child = c
<1>1. MemoryTypeOK /\ Control
  BY DEF MemInv
<1>2. op[q].dir # None /\ op[q].dir \in Pages
  BY DEF Pages, None
<1>3. op[q].pc \in Building \cup {"grow", "reap"}
  BY <1>1, <1>2 DEF Control, DirWhen
<1>4. op[q].pc \notin Building
  BY <1>1 DEF Control, DirPrivate
<1>5. At(q, "grow") => q = c
  BY <1>1, <1>2 DEF Control, DirOwn, Cr3Apart
<1>6. At(q, "reap") => op[q].child = c
  <2>1. At(q, "reap") => op[q].child \in Procs /\ task[op[q].child].cr3 = op[q].dir
    BY <1>1 DEF Control, ChildAsZombie, Reaping, At, Slots
  <2> QED BY <1>1, <1>2, <2>1 DEF Control, Cr3Apart
<1> QED BY <1>3, <1>4, <1>5, <1>6 DEF At

\* A page becomes the directory of a new space.
LEMMA NewSpace ==
  ASSUME MemInv, NEW p \in Procs, \A q \in Procs : q # p => op'[q] = op[q], SameTasks,
         HalfReleased \subseteq {p}, ~At(p, "fork_failed"), ~At(p, "fork_failed")',
         op[p].dir = None, op'[p].dir \in Pages \ bits, op'[p].held = op[p].held,
         bits' = bits \cup {op'[p].dir}, UNCHANGED <<tabs, maps, lost>>
  PROVE  Owners'
<1>1. StackPages' = StackPages /\ OneStack' /\ ReleasedFree'
  BY StacksKept
<1>2. HeldPages' = HeldPages /\ OneHeld'
  BY HeldChanges
<1>3. Spaces' = Spaces \cup {op'[p].dir}
  BY SpacesChange DEF SameTasks
<1>4. TablePages' = TablePages /\ MappedPages' = MappedPages /\ OneTable' /\ OneAddress'
  BY TablesKept
<1>5. ClearElsewhere' /\ TableBeneath'
  BY <1>3, ClearKept
<1>6. PagesSplit'
  <2>1. Split(StackPages, HeldPages, Spaces \cup {op'[p].dir}, TablePages, MappedPages,
              bits \cup {op'[p].dir}, lost)
    BY SplitTake DEF MemInv, Owners, PagesSplit
  <2> QED BY <1>1, <1>2, <1>3, <1>4, <2>1 DEF PagesSplit
<1> QED BY <1>1, <1>2, <1>4, <1>5, <1>6 DEF Owners

LEMMA fork_copy_Inv ==
  ASSUME MemInv, NEW p \in Procs, fork_copy(p), HalfReleased \subseteq {p}
  PROVE  MemInv'
<1> DEFINE c == op[p].child
<1>1. MemoryTypeOK /\ op[p] \in Ops /\ Control /\ Owners
  BY DEF MemInv, MemoryTypeOK
<1>2. /\ At(p, "fork_copy") /\ op[p].pc \in Copying
      /\ task' = [task EXCEPT ![c].parent = p]
      /\ UNCHANGED <<gdt, tabs, maps, lost>>
  BY DEF fork_copy, At, Copying
<1>3. /\ c \in Procs /\ task[c] \in TaskTs
      /\ task[p].state = "running" /\ task[p].cr3 \in Pages
      /\ op[p].dir = None /\ op[p].held = None /\ op[p].want = {}
  BY <1>1, <1>2 DEF MemoryTypeOK, Control, ChildAsCopy, Slots, CallersRun, DirWhen, Wants, At,
     Building, Mapping
<1>4. SameTasks /\ task' \in [Procs -> TaskTs]
  <2>1. task'[c] = [task[c] EXCEPT !.parent = p] /\ \A q \in Procs : q # c => task'[q] = task[q]
    BY <1>1, <1>2, <1>3 DEF MemoryTypeOK
  <2>2. task'[c] = [named |-> task[c].named, state |-> task[c].state, parent |-> p,
                    sel |-> task[c].sel, esp0 |-> task[c].esp0, cr3 |-> task[c].cr3,
                    heap |-> task[c].heap, program |-> task[c].program]
    BY <1>3, <2>1 DEF TaskTs
  <2>3. task'[c] \in TaskTs
    BY <1>3, <2>2 DEF TaskTs
  <2>4. task' \in [Procs -> TaskTs]
    BY <1>1, <1>2, <1>3, <2>1, <2>3 DEF MemoryTypeOK
  <2>5. SameTasks
    BY <2>1, <2>2 DEF SameTasks
  <2> QED BY <2>4, <2>5
<1>5. CASE /\ ~Shortage /\ bits' = bits \cup {NewPage}
           /\ op' = [op EXCEPT ![p].pc = "copy", ![p].dir = NewPage,
                               ![p].want = MappedIn(task[p].cr3)]
  <2>1. NewPage \in Pages \ bits /\ NewPage # None
    <3>1. NewPage \in Pages \ bits
      BY <1>1, <1>5, FreshPage DEF MemoryTypeOK
    <3> QED BY <3>1 DEF Pages, None
  <2>2. /\ op'[p] = [op[p] EXCEPT !.pc = "copy", !.dir = NewPage,
                                  !.want = MappedIn(task[p].cr3)]
        /\ \A q \in Procs : q # p => op'[q] = op[q]
    BY <1>1, <1>5 DEF MemoryTypeOK
  <2>3. /\ op'[p].pc = "copy" /\ op'[p].child = c /\ op'[p].dir = NewPage
        /\ op'[p].held = None /\ op'[p] \in Ops
    <3>1. op'[p] = [pc |-> "copy", child |-> c, sel |-> op[p].sel, dir |-> NewPage,
                    want |-> MappedIn(task[p].cr3), held |-> op[p].held, end |-> op[p].end]
      BY <1>1, <2>2 DEF Ops
    <3>2. MappedIn(task[p].cr3) \in SUBSET (0 .. LastV)
      BY MemoryAssumption DEF MappedIn, Vaddrs
    <3>3. op'[p] \in Ops
      BY <1>1, <2>1, <3>1, <3>2 DEF Ops, Copying, Pages
    <3> QED BY <1>3, <3>1, <3>3
  <2>4. MemoryTypeOK'
    BY <1>1, <1>2, <1>4, <1>5, <2>1, <2>2, <2>3 DEF MemoryTypeOK
  <2>5. Control'
    <3>1. SameChild(p)
      BY <1>2, <2>3 DEF SameChild, At, Forking, Copying, Reaping
    <3>2. SameSpace(p)
      BY <2>1, <2>3 DEF SameSpace, Building, At
    <3> QED BY <1>3, <1>4, <2>2, <2>3, <3>1, <3>2, CallerMoves DEF Mapping
  <2>6. Owners'
    BY <1>2, <1>3, <1>4, <1>5, <2>1, <2>2, <2>3, NewSpace DEF At
  <2> QED BY <2>4, <2>5, <2>6 DEF MemInv
<1>6. CASE op' = [op EXCEPT ![p].pc = "copy_failed"] /\ UNCHANGED bits
  <2>1. op'[p] = [op[p] EXCEPT !.pc = "copy_failed"] /\ \A q \in Procs : q # p => op'[q] = op[q]
    BY <1>1, <1>6 DEF MemoryTypeOK
  <2>2. /\ op'[p].pc = "copy_failed" /\ op'[p].child = c /\ op'[p].dir = None
        /\ op'[p].held = None /\ op'[p].want = {} /\ op'[p] \in Ops
    BY <1>1, <1>3, <2>1 DEF Ops, Copying
  <2>3. MemoryTypeOK'
    BY <1>1, <1>2, <1>4, <1>6, <2>1, <2>2 DEF MemoryTypeOK
  <2>4. Control'
    <3>1. SameChild(p)
      BY <1>2, <2>2 DEF SameChild, At, Forking, Copying, Reaping
    <3>2. SameSpace(p)
      BY <2>2 DEF SameSpace, Building, At
    <3> QED BY <1>3, <1>4, <2>1, <2>2, <3>1, <3>2, CallerMoves
  <2>5. Spaces' = Spaces
    BY <1>3, <1>4, <2>1, <2>2, SpacesChange DEF SameTasks
  <2>6. Owners'
    BY <1>2, <1>3, <1>4, <1>6, <2>1, <2>2, <2>5, OwnersKept DEF At, SameTasks
  <2> QED BY <2>3, <2>4, <2>6 DEF MemInv
<1> QED BY <1>2, <1>5, <1>6 DEF fork_copy, Goto

LEMMA fork_start_Inv ==
  ASSUME MemInv, NEW p \in Procs, fork_start(p), HalfReleased \subseteq {p}
  PROVE  MemInv'
<1> DEFINE c == op[p].child
           old == task[c].cr3
<1>1. MemoryTypeOK /\ op[p] \in Ops /\ Control /\ Owners
  BY DEF MemInv, MemoryTypeOK
<1>2. PICK d \in 0 .. LastPage \cup {Bad} :
        /\ task' = [task EXCEPT ![c].cr3 = d, ![c].state = "running"]
        /\ lost' = lost \cup {old}
        /\ \/ At(p, "copy") /\ op[p].want = {} /\ d = op[p].dir
           \/ At(p, "copy_failed") /\ d = Bad
  BY <1>1 DEF fork_start, Replace, Mapped, Ops
<1>3. op' = [op EXCEPT ![p] = User] /\ UNCHANGED <<bits, gdt, tabs, maps>>
  BY DEF fork_start
<1>4. /\ c \in Procs /\ task[c] \in TaskTs /\ task[c].state = "created" /\ old \in Pages
      /\ task[p].state = "running" /\ task[p].cr3 \in Pages /\ op[p].held = None
  <2>1. op[p].pc \in Copying /\ op[p].pc \in {"copy", "copy_failed"}
    BY <1>2 DEF At, Copying
  <2>2. c \in Procs /\ task[c].state = "created"
    BY <1>1, <2>1 DEF Control, ChildAsCopy, Slots
  <2>3. old \in Pages /\ task[p].state = "running" /\ task[p].cr3 \in Pages
    BY <1>1, <2>1, <2>2 DEF Control, SpacesByState, CallersRun, At
  <2>4. op[p].held = None
    BY <1>1, <1>2 DEF Control, Wants, Mapping, At
  <2> QED BY <1>1, <2>2, <2>3, <2>4 DEF MemoryTypeOK
<1>5. /\ op'[p] = User /\ \A q \in Procs : q # p => op'[q] = op[q]
      /\ \A q \in Procs : q # c => task'[q] = task[q]
      /\ task'[c] = [task[c] EXCEPT !.cr3 = d, !.state = "running"]
  BY <1>1, <1>2, <1>3, <1>4 DEF MemoryTypeOK
<1>6. /\ op'[p].pc = "user" /\ op'[p].dir = None /\ op'[p].held = None /\ op'[p].want = {}
      /\ op'[p] \in Ops
  BY <1>5, MemoryAssumption DEF User, Ops, None
<1>7. /\ task'[c].state = "running" /\ task'[c].cr3 = d /\ task'[c].named = task[c].named
      /\ task'[c].esp0 = task[c].esp0 /\ task'[c] \in TaskTs
  <2>1. task'[c] = [named |-> task[c].named, state |-> "running", parent |-> task[c].parent,
                    sel |-> task[c].sel, esp0 |-> task[c].esp0, cr3 |-> d,
                    heap |-> task[c].heap, program |-> task[c].program]
    BY <1>4, <1>5 DEF TaskTs
  <2>2. d \in Bad .. LastPage
    BY MemoryAssumption DEF Bad
  <2>3. task'[c] \in TaskTs
    BY <1>4, <2>1, <2>2 DEF TaskTs
  <2> QED BY <2>1, <2>3
<1>8. d \in Pages \cup {Bad} /\ d # None
  <2>1. op[p].pc = "copy" => op[p].dir # None
    BY <1>1 DEF Control, DirWhen, Building
  <2> QED BY <1>1, <1>2, <2>1 DEF At, Ops, Pages, None, Bad
<1>9. At(c, "user") /\ c # p
  BY <1>1, <1>4 DEF Control, CallersRun
<1>10. /\ \A q \in Procs : task[q].cr3 # d \/ d = Bad
       /\ \A q \in Procs : q # p => op[q].dir # d
  <2>1. CASE At(p, "copy") /\ d = op[p].dir
    BY <1>1, <2>1 DEF Control, DirPrivate, Building, At
  <2>2. CASE d = Bad
    <3>1. \A q \in Procs : op[q].dir \in 0 .. LastPage
      BY <1>1 DEF MemoryTypeOK, Ops
    <3> QED BY <2>2, <3>1 DEF Bad
  <2> QED BY <1>2, <2>1, <2>2
<1>11. \A q \in Procs : op[q].dir # old
  <2>1. ASSUME NEW q \in Procs, op[q].dir = old PROVE FALSE
    <3>1. \/ At(q, "grow") /\ q = c
          \/ At(q, "reap") /\ op[q].child = c
      BY <1>4, <2>1, WorksOn
    <3>2. At(q, "reap") => task[op[q].child].state = "zombie"
      BY <1>1 DEF Control, ChildAsZombie, Reaping, At
    <3> QED BY <1>4, <1>9, <3>1, <3>2 DEF At
  <2> QED BY <2>1
<1>12. old # d
  BY <1>4, <1>10 DEF Pages, Bad
<1>13. MemoryTypeOK'
  BY <1>1, <1>2, <1>3, <1>4, <1>5, <1>6, <1>7 DEF MemoryTypeOK
<1>14. \A q \in Procs : /\ task'[q].named = task[q].named /\ task'[q].esp0 = task[q].esp0
                        /\ q # c => task'[q].state = task[q].state /\ task'[q].cr3 = task[q].cr3
  BY <1>5, <1>7
<1>15. Control'
  <2>1. CallersRun'
    BY <1>1, <1>5, <1>6, <1>9, <1>14 DEF Control, CallersRun, At
  <2>2. OneAtATime'
    BY <1>1, <1>5, <1>6 DEF Control, OneAtATime, Forking, Copying, Reaping
  <2>3. ChildAsFork'
    <3>1. \A q \in Procs : op'[q].pc \in Forking =>
             op'[q] = op[q] /\ op[q].child \in Slots /\ op[q].child # c
      BY <1>1, <1>4, <1>5, <1>6 DEF Control, ChildAsFork, Forking
    <3> QED BY <1>1, <1>14, <3>1 DEF Control, ChildAsFork, Slots, At
  <2>4. ChildAsCopy'
    <3>1. op[p].pc \in Copying
      BY <1>2 DEF At, Copying
    <3>2. \A q \in Procs : op'[q].pc \in Copying =>
             op'[q] = op[q] /\ op[q].child \in Slots /\ op[q].child # c
      BY <1>1, <1>5, <1>6, <3>1 DEF Control, ChildAsCopy, OneAtATime, Copying
    <3> QED BY <1>1, <1>14, <3>2 DEF Control, ChildAsCopy, Slots
  <2>5. ChildAsZombie'
    <3>1. \A q \in Procs : op'[q].pc \in Reaping =>
             op'[q] = op[q] /\ op[q].child \in Slots /\ op[q].child # c
      BY <1>1, <1>4, <1>5, <1>6 DEF Control, ChildAsZombie, Reaping
    <3> QED BY <1>1, <1>14, <3>1 DEF Control, ChildAsZombie, Slots
  <2>6. FreeSlots'
    <3>1. \A q \in Procs : task[q].state = "free" /\ task[q].esp0 # None =>
             \E r \in Procs : op'[r].pc \in {"fork_dir", "fork_failed"} /\ op'[r].child = q
      <4>1. TAKE q \in Procs
      <4>2. HAVE task[q].state = "free" /\ task[q].esp0 # None
      <4>3. PICK r \in Procs : op[r].pc \in {"fork_dir", "fork_failed"} /\ op[r].child = q
        BY <1>1, <4>2 DEF Control, FreeSlots
      <4>4. r # p
        BY <1>2, <4>3 DEF At
      <4> QED BY <1>5, <4>3, <4>4
    <3>2. \A q \in Procs : task'[q].state = "free" => q # c
      BY <1>7
    <3> QED BY <1>1, <1>4, <1>7, <1>14, <3>1, <3>2 DEF Control, FreeSlots
  <2>7. SpacesByState'
    <3>1. \A q, r \in Procs : At(r, "reap_stack") /\ op[r].child = q =>
             At(r, "reap_stack")' /\ op'[r].child = q
      BY <1>2, <1>5 DEF At
    <3> QED BY <1>1, <1>7, <1>8, <1>14, <3>1 DEF Control, SpacesByState
  <2>8. DirWhen'
    BY <1>1, <1>5, <1>6 DEF Control, DirWhen, Building
  <2>9. DirPrivate'
    <3>1. \A q \in Procs : op[q].pc \in Building => op[q].dir # None
      BY <1>1 DEF Control, DirWhen
    <3>2. ASSUME NEW q \in Procs, op'[q].pc \in Building
          PROVE  /\ \A r \in Procs : task'[r].cr3 # op'[q].dir
                 /\ \A r \in Procs : r # q => op'[r].dir # op'[q].dir
      <4>1. q # p /\ op'[q] = op[q] /\ op[q].dir # None
        BY <1>5, <1>6, <3>1, <3>2 DEF Building
      <4>2. /\ \A r \in Procs : task[r].cr3 # op[q].dir
            /\ \A r \in Procs : r # q => op[r].dir # op[q].dir
        BY <1>1, <3>2, <4>1 DEF Control, DirPrivate
      <4>3. \A r \in Procs : task'[r].cr3 # op[q].dir
        BY <1>7, <1>10, <1>14, <4>1, <4>2
      <4> QED BY <1>5, <1>6, <4>1, <4>2, <4>3
    <3> QED BY <3>2 DEF DirPrivate
  <2>10. DirOwn'
    BY <1>1, <1>5, <1>6, <1>9, <1>14 DEF Control, DirOwn, At
  <2>11. Cr3Apart'
    <3>1. Bad \notin Pages
      BY DEF Bad, Pages
    <3>2. \A q \in Procs : q # c /\ d \in Pages => task'[q].cr3 # d
      BY <1>10, <1>14, <3>1
    <3>3. \A q, r \in Procs : q # r /\ q # c /\ r # c /\ task[q].cr3 \in Pages =>
             task[q].cr3 # task[r].cr3
      BY <1>1 DEF Control, Cr3Apart
    <3> QED BY <1>7, <1>14, <3>2, <3>3 DEF Cr3Apart
  <2>12. Wants'
    BY <1>1, <1>5, <1>6 DEF Control, Wants
  <2> QED BY <2>1, <2>2, <2>3, <2>4, <2>5, <2>6, <2>7, <2>8, <2>9, <2>10, <2>11, <2>12 DEF Control
<1>16. HalfReleased = {} /\ HalfReleased' = {}
  <2>1. HalfReleased = {}
    BY <1>2 DEF HalfReleased, At
  <2>2. ASSUME NEW q \in Procs, op'[q].pc = "fork_failed" PROVE task'[op'[q].child].esp0 = None
    <3>1. op'[q] = op[q] /\ op[q].child \in Procs
      BY <1>1, <1>5, <1>6, <2>2 DEF Control, ChildAsFork, Forking, Slots
    <3> QED BY <1>14, <2>1, <2>2, <3>1 DEF HalfReleased, At
  <2> QED BY <2>1, <2>2 DEF HalfReleased, At
<1>17. StackPages' = StackPages /\ OneStack' /\ ReleasedFree'
  <2>1. Released = {} /\ Released' = {}
    BY <1>16 DEF Released
  <2> QED BY <1>1, <1>14, <2>1 DEF StackPages, OneStack, ReleasedFree, Owners
<1>18. HeldPages' = HeldPages /\ OneHeld'
  BY <1>4, <1>5, <1>6, HeldChanges
<1>19. Spaces' = Spaces \ {old}
  <2>1. \A x : x \in Spaces <=> /\ x # None /\ x # Bad
                               /\ \E q \in Procs : x = task[q].cr3 \/ x = op[q].dir
    BY DEF Spaces
  <2>2. \A x : x \in Spaces' <=> /\ x # None /\ x # Bad
                                /\ \E q \in Procs : x = task'[q].cr3 \/ x = op'[q].dir
    BY DEF Spaces
  <2>3. \A q \in Procs : q # c => task[q].cr3 # old
    BY <1>1, <1>4 DEF Control, Cr3Apart
  <2>4. ASSUME NEW x, x \in Spaces' PROVE x \in Spaces /\ x # old
    <3>1. PICK q \in Procs : x = task'[q].cr3 \/ x = op'[q].dir
      BY <2>2, <2>4
    <3>2. x # None /\ x # Bad
      BY <2>2, <2>4
    <3>3. CASE x = task'[q].cr3 /\ q # c
      BY <1>14, <2>1, <2>3, <3>2, <3>3
    <3>4. CASE x = d
      BY <1>2, <1>12, <2>1, <3>2, <3>4
    <3>5. CASE x = op'[q].dir
      BY <1>5, <1>6, <1>11, <2>1, <3>2, <3>5
    <3> QED BY <1>7, <3>1, <3>3, <3>4, <3>5
  <2>5. ASSUME NEW x, x \in Spaces, x # old PROVE x \in Spaces'
    <3>1. PICK q \in Procs : x = task[q].cr3 \/ x = op[q].dir
      BY <2>1, <2>5
    <3>2. x # None /\ x # Bad
      BY <2>1, <2>5
    <3>3. CASE x = task[q].cr3
      BY <1>14, <2>2, <2>5, <3>2, <3>3
    <3>4. CASE x = op[q].dir /\ q # p
      BY <1>5, <2>2, <3>2, <3>4
    <3>5. CASE x = op[q].dir /\ q = p
      <4>1. At(p, "copy_failed") => op[p].dir = None
        BY <1>1 DEF Control, DirWhen, Building, At
      <4>2. x = d
        BY <1>2, <3>2, <3>5, <4>1
      <4> QED BY <1>4, <1>7, <2>2, <3>2, <4>2
    <3> QED BY <3>1, <3>3, <3>4, <3>5
  <2> QED BY <2>4, <2>5
<1>20. TablePages' = TablePages /\ MappedPages' = MappedPages /\ OneTable' /\ OneAddress'
  BY <1>3, TablesKept
<1>21. ClearElsewhere' /\ TableBeneath'
  <2>1. \A e : Clear(e)' <=> Clear(e)
    BY <1>3 DEF Clear
  <2>2. Clear(old)
    BY <1>1, <1>4 DEF Owners, ClearElsewhere
  <2>3. \A e \in Pages \ Spaces' : Clear(e)'
    BY <1>1, <1>19, <2>1, <2>2 DEF Owners, ClearElsewhere
  <2>4. (\A q \in Procs : task[q].state = "created" => Clear(task[q].cr3))'
    <3>1. \A q \in Procs : task'[q].state = "created" => Clear(task'[q].cr3)
      BY <1>1, <1>7, <1>14 DEF Owners, ClearElsewhere
    <3> QED BY <1>3, <3>1 DEF Clear
  <2> QED BY <1>1, <1>3, <2>3, <2>4 DEF ClearElsewhere, TableBeneath, Owners
<1>22. PagesSplit'
  <2>1. old \in Spaces
    BY <1>4 DEF Spaces, Pages, None, Bad
  <2>2. Split(StackPages, HeldPages, Spaces \ {old}, TablePages, MappedPages, bits,
              lost \cup {old})
    BY <1>1, <2>1, SplitLose DEF Owners, PagesSplit
  <2> QED BY <1>2, <1>3, <1>17, <1>18, <1>19, <1>20, <2>2 DEF PagesSplit
<1> QED BY <1>13, <1>15, <1>17, <1>18, <1>20, <1>21, <1>22 DEF MemInv, Owners
-----------------------------------------------------------------------------
(* sys_execve.                                                             *)

\* What a process that calls is.
LEMMA CallerFacts ==
  ASSUME MemInv, NEW p \in Procs, Calls(p)
  PROVE  /\ At(p, "user") /\ task[p].state = "running" /\ task[p].cr3 \in Pages
         /\ op[p].dir = None /\ op[p].held = None /\ op[p].want = {}
<1>1. At(p, "user") /\ task[p].state = "running" /\ task[p].cr3 # Bad
  BY DEF Calls
<1>2. task[p].cr3 \in Bad .. LastPage /\ task[p].cr3 # None
  BY <1>1 DEF MemInv, MemoryTypeOK, TaskTs, Control, SpacesByState
<1>3. task[p].cr3 \in Pages
  BY <1>1, <1>2, MemoryAssumption DEF Bad, None, Pages
<1>4. op[p].dir = None /\ op[p].held = None /\ op[p].want = {}
  BY <1>1 DEF MemInv, Control, DirWhen, Wants, At, Building, Mapping
<1> QED BY <1>1, <1>3, <1>4

\* A sys_execve that gets a directory and leaves the process a name.
Execs(p) ==
    /\ Calls(p) /\ ~Shortage /\ bits' = bits \cup {NewPage}
    /\ \E size \in Images :
        LET o == [User EXCEPT !.pc = "load", !.dir = NewPage,
                              !.want = UserBase .. UserBase + UpPages(size) - 1,
                              !.end = UserBase * PageUnits + size]
        IN op' = [op EXCEPT ![p] = o] \/ op' = [op EXCEPT ![p] = Failed(o)]
    /\ UNCHANGED <<gdt, task, tabs, maps, lost>>

\* The others change nothing.
LEMMA ExecsOrNot ==
  ASSUME MemInv, NEW p \in Procs, execve(p), "nameless" \notin Mishaps
  PROVE  Execs(p) \/ UNCHANGED vars
<1>1. task' = [task EXCEPT ![p].named = TRUE] /\ task[p].state = "running"
  BY DEF execve, Calls
<1>2. task \in [Procs -> TaskTs] /\ task[p] \in TaskTs /\ task[p].named = TRUE
  BY <1>1 DEF MemInv, MemoryTypeOK, Control, FreeSlots, TaskTs
<1>3. [task[p] EXCEPT !.named = TRUE] = task[p]
  BY <1>2 DEF TaskTs
<1>4. UNCHANGED task
  BY <1>1, <1>2, <1>3
<1> QED BY <1>4 DEF execve, Execs, vars

LEMMA execve_Inv ==
  ASSUME MemInv, NEW p \in Procs, Execs(p), HalfReleased \subseteq {p}
  PROVE  MemInv'
<1>1. MemoryTypeOK /\ op[p] \in Ops /\ Control /\ Owners
  BY DEF MemInv, MemoryTypeOK
<1>2. /\ Calls(p) /\ ~Shortage /\ bits' = bits \cup {NewPage}
      /\ UNCHANGED <<gdt, task, tabs, maps, lost>>
  BY DEF Execs
<1>3. /\ At(p, "user") /\ task[p].state = "running" /\ task[p].cr3 \in Pages
      /\ op[p].dir = None /\ op[p].held = None /\ op[p].want = {} /\ SameTasks
  BY <1>2, CallerFacts DEF SameTasks
<1>4. NewPage \in Pages \ bits /\ NewPage # None
  <2>1. NewPage \in Pages \ bits
    BY <1>1, <1>2, FreshPage DEF MemoryTypeOK
  <2> QED BY <2>1 DEF Pages, None
<1>5. PICK x \in {"load", "undo_exec"}, w \in SUBSET (0 .. LastV), e \in Nat :
        /\ op'[p] = [pc |-> x, child |-> NoProc, sel |-> None, dir |-> NewPage, want |-> w,
                     held |-> None, end |-> e]
        /\ x = "undo_exec" => w = {}
  <2>0. PICK size \in Images :
          LET o == [User EXCEPT !.pc = "load", !.dir = NewPage,
                                !.want = UserBase .. UserBase + UpPages(size) - 1,
                                !.end = UserBase * PageUnits + size]
          IN op' = [op EXCEPT ![p] = o] \/ op' = [op EXCEPT ![p] = Failed(o)]
    BY DEF Execs
  <2>1. PICK o, f :
          /\ o = [User EXCEPT !.pc = "load", !.dir = NewPage,
                              !.want = UserBase .. UserBase + UpPages(size) - 1,
                              !.end = UserBase * PageUnits + size]
          /\ f = Failed(o)
          /\ op' = [op EXCEPT ![p] = o] \/ op' = [op EXCEPT ![p] = f]
    BY <2>0
  <2> DEFINE w == UserBase .. UserBase + UpPages(size) - 1
             e == UserBase * PageUnits + size
  <2>2. size \in Nat /\ UserBase \in Nat /\ PageUnits \in Nat /\ StackV \in Nat /\ LastV \in Nat
        /\ StackV <= LastV /\ StackV - UserBase \in Nat
        /\ size <= (StackV - UserBase) * PageUnits
    BY MemoryAssumption
  <2>3. UpPages(size) \in Nat /\ UpPages(size) <= StackV - UserBase
    BY <2>2, RoundsUp
  <2>4. w \in SUBSET (0 .. LastV) /\ e \in Nat
    BY <2>2, <2>3
  <2>5. o = [User EXCEPT !.pc = "load", !.dir = NewPage, !.want = w, !.end = e]
    BY <2>1
  <2> HIDE DEF w, e
  <2>6. o = [pc |-> "load", child |-> NoProc, sel |-> None, dir |-> NewPage,
             want |-> w, held |-> None, end |-> e]
    BY <2>5 DEF User
  <2>7. f = [o EXCEPT !.pc = "undo_exec", !.want = {}, !.held = None]
    <3>1. o.pc = "load"
      BY <2>6
    <3> QED BY <2>1, <3>1 DEF Failed
  <2>8. f = [pc |-> "undo_exec", child |-> NoProc, sel |-> None, dir |-> NewPage,
             want |-> {}, held |-> None, end |-> e]
    BY <2>6, <2>7
  <2>9. op'[p] = o \/ op'[p] = f
    BY <1>1, <2>1 DEF MemoryTypeOK
  <2> QED BY <2>4, <2>6, <2>8, <2>9
<1>6. \A q \in Procs : q # p => op'[q] = op[q]
  BY <1>1 DEF MemoryTypeOK, Execs
<1>7. op'[p] \in Ops
  BY <1>4, <1>5, MemoryAssumption DEF Ops, Building, None, Pages
<1>8. MemoryTypeOK'
  <2>1. op' \in [Procs -> Ops]
    <3>1. \E o \in Ops : op' = [op EXCEPT ![p] = o]
      <4>1. \E o : op' = [op EXCEPT ![p] = o]
        BY DEF Execs
      <4> QED BY <1>1, <1>7, <4>1 DEF MemoryTypeOK
    <3> QED BY <1>1, <3>1 DEF MemoryTypeOK
  <2> QED BY <1>1, <1>2, <1>4, <2>1 DEF MemoryTypeOK
<1>9. Control'
  <2>1. SameChild(p)
    BY <1>3, <1>5 DEF SameChild, At, Forking, Copying, Reaping
  <2>2. SameSpace(p)
    BY <1>4, <1>5 DEF SameSpace, Building, At
  <2>3. op'[p].pc \notin Mapping => op'[p].want = {} /\ op'[p].held = None
    BY <1>5 DEF Mapping
  <2> QED BY <1>3, <1>5, <1>6, <2>1, <2>2, <2>3, CallerMoves
<1>10. Owners'
  BY <1>2, <1>3, <1>4, <1>5, <1>6, NewSpace DEF At
<1> QED BY <1>8, <1>9, <1>10 DEF MemInv

\* A step of one process that moves no page and gives no task another space.
LEMMA CallerOnly ==
  ASSUME MemInv, NEW p \in Procs, \A q \in Procs : q # p => op'[q] = op[q], op'[p] \in Ops,
         op' \in [Procs -> Ops],
         task' \in [Procs -> TaskTs], SameTasks, HalfReleased \subseteq {p},
         task[p].state = "running", task[p].cr3 \in Pages,
         op[p].pc \notin Forking \cup Copying \cup Reaping,
         op'[p].pc \notin Forking \cup Copying \cup Reaping,
         SameSpace(p), Spaces' = Spaces, op'[p].held = op[p].held,
         op'[p].pc \notin Mapping => op'[p].want = {} /\ op'[p].held = None,
         op'[p].want = {} => op'[p].held = None,
         UNCHANGED <<bits, gdt, tabs, maps, lost>>
  PROVE  MemInv'
<1>1. MemoryTypeOK'
  BY DEF MemInv, MemoryTypeOK
<1>2. SameChild(p)
  BY DEF SameChild, Forking, Copying, Reaping
<1>3. Control'
  BY <1>2, CallerMoves
<1>4. Owners'
  <2>1. ~At(p, "fork_failed") /\ ~At(p, "fork_failed")'
    BY DEF At, Forking
  <2> QED BY <2>1, OwnersKept DEF SameTasks
<1> QED BY <1>1, <1>3, <1>4 DEF MemInv

LEMMA exec_load_Inv ==
  ASSUME MemInv, NEW p \in Procs, exec_load(p), HalfReleased \subseteq {p}
  PROVE  MemInv'
<1>1. MemoryTypeOK /\ op[p] \in Ops /\ task[p] \in TaskTs /\ Control /\ Owners
  BY DEF MemInv, MemoryTypeOK
<1>2. /\ At(p, "load") /\ op[p].want = {} /\ UNCHANGED <<bits, gdt, tabs, maps, lost>>
      /\ task' = [task EXCEPT ![p].heap = op[p].end, ![p].program = op[p].dir]
      /\ \/ op' = [op EXCEPT ![p].pc = "stack", ![p].want = {StackV}]
         \/ op' = [op EXCEPT ![p] = Failed(@)]
  BY DEF exec_load, Mapped
<1>3. /\ task[p].state = "running" /\ task[p].cr3 \in Pages /\ op[p].dir # None
      /\ op[p].held = None
  BY <1>1, <1>2 DEF Control, CallersRun, DirWhen, Wants, Building, At
<1>4. SameTasks /\ task' \in [Procs -> TaskTs]
  <2>1. /\ task'[p] = [task[p] EXCEPT !.heap = op[p].end, !.program = op[p].dir]
        /\ \A q \in Procs : q # p => task'[q] = task[q]
    BY <1>1, <1>2 DEF MemoryTypeOK
  <2>2. task'[p] = [named |-> task[p].named, state |-> task[p].state, parent |-> task[p].parent,
                    sel |-> task[p].sel, esp0 |-> task[p].esp0, cr3 |-> task[p].cr3,
                    heap |-> op[p].end, program |-> op[p].dir]
    BY <1>1, <2>1 DEF TaskTs
  <2>3. task'[p] \in TaskTs
    BY <1>1, <2>2 DEF TaskTs, Ops
  <2>4. task' \in [Procs -> TaskTs]
    BY <1>1, <1>2, <2>3 DEF MemoryTypeOK
  <2> QED BY <2>1, <2>2, <2>4 DEF SameTasks
<1>5. PICK x \in {"stack", "undo_exec"}, w \in {{}, {StackV}} :
        /\ op'[p] = [pc |-> x, child |-> op[p].child, sel |-> op[p].sel, dir |-> op[p].dir,
                     want |-> w, held |-> None, end |-> op[p].end]
        /\ x = "undo_exec" => w = {}
  <2>1. CASE op' = [op EXCEPT ![p].pc = "stack", ![p].want = {StackV}]
    <3>1. op'[p] = [op[p] EXCEPT !.pc = "stack", !.want = {StackV}]
      BY <1>1, <2>1 DEF MemoryTypeOK
    <3>2. op'[p] = [pc |-> "stack", child |-> op[p].child, sel |-> op[p].sel, dir |-> op[p].dir,
                    want |-> {StackV}, held |-> None, end |-> op[p].end]
      BY <1>1, <1>3, <3>1 DEF Ops
    <3> QED BY <3>2
  <2>2. CASE op' = [op EXCEPT ![p] = Failed(@)]
    <3>1. op'[p] = [op[p] EXCEPT !.pc = "undo_exec", !.want = {}, !.held = None]
      BY <1>1, <1>2, <2>2 DEF MemoryTypeOK, Failed, At
    <3>2. op'[p] = [pc |-> "undo_exec", child |-> op[p].child, sel |-> op[p].sel,
                    dir |-> op[p].dir, want |-> {}, held |-> None, end |-> op[p].end]
      BY <1>1, <3>1 DEF Ops
    <3> QED BY <3>2
  <2> QED BY <1>2, <2>1, <2>2
<1>6. op'[p] \in Ops
  <2>1. w \in SUBSET (0 .. LastV)
    BY MemoryAssumption
  <2> QED BY <1>1, <1>5, <2>1, MemoryAssumption DEF Ops, Building, None
<1>7. /\ \A q \in Procs : q # p => op'[q] = op[q]
      /\ op' \in [Procs -> Ops]
  BY <1>1, <1>2, <1>6 DEF MemoryTypeOK
<1>8. Spaces' = Spaces
  BY <1>4, <1>5, <1>7, SpacesChange DEF SameTasks
<1>9. SameSpace(p)
  BY <1>2, <1>3, <1>5 DEF SameSpace, Building, At
<1>10. /\ op'[p].pc \notin Forking \cup Copying \cup Reaping
       /\ op[p].pc \notin Forking \cup Copying \cup Reaping
       /\ op'[p].pc \notin Mapping => op'[p].want = {}
  BY <1>2, <1>5 DEF Forking, Copying, Reaping, Mapping, At
<1> QED BY <1>2, <1>3, <1>4, <1>5, <1>6, <1>7, <1>8, <1>9, <1>10, CallerOnly

LEMMA exec_args_Inv ==
  ASSUME MemInv, NEW p \in Procs, exec_args(p), HalfReleased \subseteq {p}
  PROVE  MemInv'
<1> DEFINE d == op[p].dir
           old == task[p].cr3
<1>1. MemoryTypeOK /\ op[p] \in Ops /\ task[p] \in TaskTs /\ Control /\ Owners
  BY DEF MemInv, MemoryTypeOK
<1>2. /\ At(p, "stack") /\ op[p].want = {} /\ UNCHANGED <<bits, gdt, tabs, maps, lost>>
      /\ \/ /\ task' = [task EXCEPT ![p].cr3 = d]
            /\ op' = [op EXCEPT ![p].pc = "drop_old", ![p].dir = old]
         \/ op' = [op EXCEPT ![p] = Failed(@)] /\ task' = task
  BY DEF exec_args, Mapped
<1>3. /\ task[p].state = "running" /\ old \in Pages /\ d # None /\ d \in Pages
      /\ op[p].held = None
  <2>1. /\ task[p].state = "running" /\ old \in Pages /\ d # None
        /\ op[p].held = None
    BY <1>1, <1>2 DEF Control, CallersRun, DirWhen, Wants, Building, At
  <2> QED BY <1>1, <2>1 DEF Ops, Pages, None
<1>4. CASE op' = [op EXCEPT ![p] = Failed(@)] /\ task' = task
  <2>1. op'[p] = [op[p] EXCEPT !.pc = "undo_exec", !.want = {}, !.held = None]
    BY <1>1, <1>2, <1>4 DEF MemoryTypeOK, Failed, At
  <2>2. op'[p] = [pc |-> "undo_exec", child |-> op[p].child, sel |-> op[p].sel,
                  dir |-> d, want |-> {}, held |-> None, end |-> op[p].end]
    BY <1>1, <2>1 DEF Ops
  <2>3. op'[p] \in Ops
    BY <1>1, <2>2, MemoryAssumption DEF Ops, Building, None
  <2>4. /\ \A q \in Procs : q # p => op'[q] = op[q]
        /\ op' \in [Procs -> Ops] /\ task' \in [Procs -> TaskTs] /\ SameTasks
    BY <1>1, <1>4, <2>3 DEF MemoryTypeOK, SameTasks
  <2>5. Spaces' = Spaces
    BY <1>4, <2>2, <2>4, SpacesChange
  <2>6. SameSpace(p)
    BY <1>2, <1>3, <2>2 DEF SameSpace, Building, At
  <2>7. /\ op'[p].pc \notin Forking \cup Copying \cup Reaping
        /\ op[p].pc \notin Forking \cup Copying \cup Reaping
    BY <1>2, <2>2 DEF Forking, Copying, Reaping, At
  <2> QED BY <1>2, <1>3, <2>2, <2>3, <2>4, <2>5, <2>6, <2>7, CallerOnly
<1>5. CASE /\ task' = [task EXCEPT ![p].cr3 = d]
           /\ op' = [op EXCEPT ![p].pc = "drop_old", ![p].dir = old]
  <2>1. /\ op'[p] = [op[p] EXCEPT !.pc = "drop_old", !.dir = old]
        /\ task'[p] = [task[p] EXCEPT !.cr3 = d]
        /\ \A q \in Procs : q # p => op'[q] = op[q] /\ task'[q] = task[q]
    BY <1>1, <1>5 DEF MemoryTypeOK
  <2>2. op'[p] = [pc |-> "drop_old", child |-> op[p].child, sel |-> op[p].sel,
                  dir |-> old, want |-> op[p].want, held |-> op[p].held, end |-> op[p].end]
    BY <1>1, <2>1 DEF Ops
  <2>3. task'[p] = [named |-> task[p].named, state |-> task[p].state, parent |-> task[p].parent,
                    sel |-> task[p].sel, esp0 |-> task[p].esp0, cr3 |-> d,
                    heap |-> task[p].heap, program |-> task[p].program]
    BY <1>1, <2>1 DEF TaskTs
  <2>4. MemoryTypeOK'
    <3>1. op'[p] \in Ops
      BY <1>1, <1>3, <2>2 DEF Ops, Building, Pages
    <3>2. d \in Bad .. LastPage
      BY <1>3, MemoryAssumption DEF Bad, Pages
    <3>3. task'[p] \in TaskTs
      BY <1>1, <2>3, <3>2 DEF TaskTs
    <3> QED BY <1>1, <1>2, <1>5, <3>1, <3>3 DEF MemoryTypeOK
  <2>5. /\ \A q \in Procs : /\ task'[q].named = task[q].named /\ task'[q].state = task[q].state
                            /\ task'[q].esp0 = task[q].esp0
                            /\ q # p => task'[q].cr3 = task[q].cr3
        /\ task'[p].cr3 = d
    BY <2>1, <2>3
  <2>6. \A q \in Procs : op[q].dir # old
    <3>1. ASSUME NEW q \in Procs, op[q].dir = old PROVE FALSE
      <4>1. \/ At(q, "grow") /\ q = p
            \/ At(q, "reap") /\ op[q].child = p
        BY <1>3, <3>1, WorksOn
      <4>2. At(q, "reap") => task[op[q].child].state = "zombie"
        BY <1>1 DEF Control, ChildAsZombie, Reaping, At
      <4> QED BY <1>2, <1>3, <4>1, <4>2 DEF At
    <3> QED BY <3>1
  <2>7. /\ \A q \in Procs : task[q].cr3 # d
        /\ \A q \in Procs : q # p => op[q].dir # d
        /\ \A q \in Procs : q # p => task[q].cr3 # old
    BY <1>1, <1>2, <1>3 DEF Control, DirPrivate, Building, At, Cr3Apart
  <2>8. \A q \in Procs : op'[q].pc \in Forking \cup Copying \cup Reaping \cup {"grow"} =>
           q # p /\ op'[q] = op[q]
    BY <2>1, <2>2 DEF Forking, Copying, Reaping
  <2>9. \A q \in Procs : op[q].pc \in Forking \cup Copying \cup Reaping => op'[q] = op[q]
    BY <1>2, <2>1 DEF Forking, Copying, Reaping, At
  <2>10. Control'
    <3>1. CallersRun'
      BY <1>1, <1>3, <2>1, <2>5 DEF Control, CallersRun, At
    <3>2. OneAtATime'
      BY <1>1, <2>8 DEF Control, OneAtATime
    <3>3. ChildAsFork'
      BY <1>1, <2>5, <2>8 DEF Control, ChildAsFork, At, Slots
    <3>4. ChildAsCopy'
      BY <1>1, <2>5, <2>8 DEF Control, ChildAsCopy, Slots
    <3>5. ChildAsZombie'
      BY <1>1, <1>3, <2>5, <2>8 DEF Control, ChildAsZombie, Slots
    <3>6. FreeSlots'
      <4>1. \A q \in Procs : task[q].state = "free" /\ task[q].esp0 # None =>
               \E r \in Procs : op'[r].pc \in {"fork_dir", "fork_failed"} /\ op'[r].child = q
        <5>1. TAKE q \in Procs
        <5>2. HAVE task[q].state = "free" /\ task[q].esp0 # None
        <5>3. PICK r \in Procs : op[r].pc \in {"fork_dir", "fork_failed"} /\ op[r].child = q
          BY <1>1, <5>2 DEF Control, FreeSlots
        <5> QED BY <2>9, <5>3 DEF Forking
      <4>2. \A q \in Procs : task[q].state = "free" => q # p
        BY <1>3
      <4> QED BY <1>1, <2>5, <4>1, <4>2 DEF Control, FreeSlots
    <3>7. SpacesByState'
      <4>1. \A q, r \in Procs : At(r, "reap_stack") /\ op[r].child = q =>
               At(r, "reap_stack")' /\ op'[r].child = q
        BY <2>9 DEF At, Reaping
      <4> QED BY <1>1, <1>3, <2>5, <4>1 DEF Control, SpacesByState
    <3>8. DirWhen'
      <4>1. op'[p].dir # None /\ op'[p].pc \in Building
        BY <1>3, <2>2 DEF Building, Pages, None
      <4> QED BY <1>1, <2>1, <4>1 DEF Control, DirWhen
    <3>9. DirPrivate'
      <4>1. \A q \in Procs : task'[q].cr3 # old
        BY <1>3, <2>5, <2>7
      <4>2. \A q \in Procs : q # p => op'[q].dir # old
        BY <2>1, <2>6
      <4>3. ASSUME NEW q \in Procs, q # p, op[q].pc \in Building
            PROVE  /\ \A r \in Procs : task'[r].cr3 # op[q].dir
                   /\ \A r \in Procs : r # q => op'[r].dir # op[q].dir
        <5>1. /\ \A r \in Procs : task[r].cr3 # op[q].dir
              /\ \A r \in Procs : r # q => op[r].dir # op[q].dir
          BY <1>1, <4>3 DEF Control, DirPrivate
        <5>2. op'[p].dir = old
          BY <2>2
        <5>3. \A r \in Procs : task'[r].cr3 # op[q].dir
          BY <2>5, <2>7, <4>3, <5>1
        <5>4. \A r \in Procs : r # q => op'[r].dir # op[q].dir
          BY <2>1, <2>6, <5>1, <5>2
        <5> QED BY <5>3, <5>4
      <4> QED BY <2>1, <2>2, <4>1, <4>2, <4>3 DEF DirPrivate
    <3>10. DirOwn'
      BY <1>1, <2>5, <2>8 DEF Control, DirOwn, At
    <3>11. Cr3Apart'
      BY <1>1, <2>5, <2>7 DEF Control, Cr3Apart
    <3>12. Wants'
      BY <1>1, <1>2, <1>3, <2>1, <2>2 DEF Control, Wants
    <3> QED BY <3>1, <3>2, <3>3, <3>4, <3>5, <3>6, <3>7, <3>8, <3>9, <3>10, <3>11, <3>12 DEF Control
  <2>11. Spaces' = Spaces
    <3>1. \A x : x \in Spaces <=> /\ x # None /\ x # Bad
                                 /\ \E q \in Procs : x = task[q].cr3 \/ x = op[q].dir
      BY DEF Spaces
    <3>2. \A x : x \in Spaces' <=> /\ x # None /\ x # Bad
                                  /\ \E q \in Procs : x = task'[q].cr3 \/ x = op'[q].dir
      BY DEF Spaces
    <3>3. op'[p].dir = old /\ task'[p].cr3 = d
      BY <2>2, <2>5
    <3>4. \A q \in Procs : q # p => op'[q].dir = op[q].dir /\ task'[q].cr3 = task[q].cr3
      BY <2>1
    <3>5. \A x : (\E q \in Procs : x = task'[q].cr3 \/ x = op'[q].dir)
                 <=> (\E q \in Procs : x = task[q].cr3 \/ x = op[q].dir)
      BY <3>3, <3>4
    <3> QED BY <3>1, <3>2, <3>5
  <2>12. Owners'
    <3>1. ~At(p, "fork_failed") /\ ~At(p, "fork_failed")' /\ op'[p].held = op[p].held
      BY <1>2, <2>2 DEF At
    <3> QED BY <1>2, <1>3, <2>1, <2>5, <2>11, <3>1, OwnersKept
  <2> QED BY <2>4, <2>10, <2>12 DEF MemInv
<1> QED BY <1>2, <1>4, <1>5
-----------------------------------------------------------------------------
(* sys_sbrk, sys_exit, sys_wait.                                           *)

LEMMA sbrk_Inv ==
  ASSUME MemInv, NEW p \in Procs, NEW incr \in Increments, sbrk(p, incr),
         HalfReleased \subseteq {p}
  PROVE  MemInv'
<1> DEFINE start == task[p].heap
           end == start + incr
<1>1. MemoryTypeOK /\ op[p] \in Ops /\ task[p] \in TaskTs /\ Control /\ Owners
  BY DEF MemInv, MemoryTypeOK
<1>2. /\ Calls(p) /\ end <= StackV * PageUnits /\ UNCHANGED <<bits, gdt, tabs, maps, lost>>
      /\ \/ task' = [task EXCEPT ![p].heap = end] /\ op' = op
         \/ /\ op' = [op EXCEPT ![p] = [User EXCEPT !.pc = "grow", !.dir = task[p].cr3,
                                          !.want = NewPages(start, end), !.end = end]]
            /\ task' = task
  BY DEF sbrk
<1>3. /\ At(p, "user") /\ task[p].state = "running" /\ task[p].cr3 \in Pages
      /\ op[p].dir = None /\ op[p].held = None /\ op[p].want = {}
  BY <1>2, CallerFacts
<1>4. start \in Nat /\ end \in Nat
  BY <1>1, MemoryAssumption DEF TaskTs
<1>5. op[p].pc \notin Forking \cup Copying \cup Reaping
  BY <1>3 DEF Forking, Copying, Reaping, At
<1>6. CASE task' = [task EXCEPT ![p].heap = end] /\ op' = op
  <2>1. /\ task'[p] = [task[p] EXCEPT !.heap = end]
        /\ \A q \in Procs : q # p => task'[q] = task[q]
    BY <1>1, <1>6 DEF MemoryTypeOK
  <2>2. task'[p] = [named |-> task[p].named, state |-> task[p].state, parent |-> task[p].parent,
                    sel |-> task[p].sel, esp0 |-> task[p].esp0, cr3 |-> task[p].cr3,
                    heap |-> end, program |-> task[p].program]
    BY <1>1, <2>1 DEF TaskTs
  <2>3. task'[p] \in TaskTs
    BY <1>1, <1>4, <2>2 DEF TaskTs
  <2>4. SameTasks /\ task' \in [Procs -> TaskTs] /\ op' \in [Procs -> Ops]
    BY <1>1, <1>6, <2>1, <2>2, <2>3 DEF SameTasks, MemoryTypeOK
  <2>5. Spaces' = Spaces
    BY <1>6, <2>4, SpacesChange DEF SameTasks
  <2>6. SameSpace(p)
    BY <1>3, <1>6 DEF SameSpace, Building, At
  <2> QED BY <1>1, <1>2, <1>3, <1>5, <1>6, <2>4, <2>5, <2>6, CallerOnly
<1>7. CASE /\ op' = [op EXCEPT ![p] = [User EXCEPT !.pc = "grow", !.dir = task[p].cr3,
                                          !.want = NewPages(start, end), !.end = end]]
           /\ task' = task
  <2> DEFINE w == NewPages(start, end)
  <2>1. w \in SUBSET (0 .. LastV)
    <3>1. /\ StackV \in Nat /\ LastV \in Nat /\ StackV <= LastV
      BY MemoryAssumption
    <3>2. UpPages(end) \in Nat /\ UpPages(start) \in Nat /\ UpPages(end) <= StackV
      BY <1>2, <1>4, <3>1, RoundsUp
    <3> QED BY <3>1, <3>2 DEF NewPages
  <2> HIDE DEF w
  <2>2. op'[p] = [User EXCEPT !.pc = "grow", !.dir = task[p].cr3, !.want = w, !.end = end]
    BY <1>1, <1>7 DEF MemoryTypeOK, w
  <2>3. op'[p] = [pc |-> "grow", child |-> NoProc, sel |-> None, dir |-> task[p].cr3, want |-> w,
                  held |-> None, end |-> end]
    BY <2>2 DEF User
  <2>4. op'[p] \in Ops
    BY <1>3, <1>4, <2>1, <2>3, MemoryAssumption DEF Ops, None, Pages
  <2>5. /\ \A q \in Procs : q # p => op'[q] = op[q]
        /\ op' \in [Procs -> Ops] /\ task' \in [Procs -> TaskTs] /\ SameTasks
    BY <1>1, <1>7, <2>4 DEF MemoryTypeOK, SameTasks
  <2>6. Spaces' = Spaces
    <3>1. Spaces' = Spaces \cup {task[p].cr3}
      BY <1>3, <1>7, <2>3, <2>5, SpacesChange
    <3>2. task[p].cr3 \in Spaces
      BY <1>3 DEF Spaces, Pages, None, Bad
    <3> QED BY <3>1, <3>2
  <2>7. SameSpace(p)
    BY <1>3, <2>3 DEF SameSpace, Building, Pages, None
  <2>8. op'[p].pc \notin Forking \cup Copying \cup Reaping /\ op'[p].pc \in Mapping
    BY <2>3 DEF Forking, Copying, Reaping, Mapping
  <2> QED BY <1>2, <1>3, <1>5, <2>3, <2>4, <2>5, <2>6, <2>7, <2>8, CallerOnly
<1> QED BY <1>2, <1>6, <1>7

LEMMA sbrk_end_Inv ==
  ASSUME MemInv, NEW p \in Procs, sbrk_end(p), HalfReleased \subseteq {p}
  PROVE  MemInv'
<1>1. MemoryTypeOK /\ op[p] \in Ops /\ task[p] \in TaskTs /\ Control /\ Owners
  BY DEF MemInv, MemoryTypeOK
<1>2. /\ At(p, "grow") /\ op[p].want = {} /\ UNCHANGED <<bits, gdt, tabs, maps, lost>>
      /\ task' = [task EXCEPT ![p].heap = op[p].end]
      /\ op' = [op EXCEPT ![p] = User]
  BY DEF sbrk_end, Mapped
<1>3. task[p].state = "running" /\ task[p].cr3 \in Pages /\ op[p].held = None
  BY <1>1, <1>2 DEF Control, CallersRun, Wants, At
<1>4. /\ task'[p] = [task[p] EXCEPT !.heap = op[p].end] /\ op'[p] = User
      /\ \A q \in Procs : q # p => task'[q] = task[q] /\ op'[q] = op[q]
  BY <1>1, <1>2 DEF MemoryTypeOK
<1>5. task'[p] = [named |-> task[p].named, state |-> task[p].state, parent |-> task[p].parent,
                  sel |-> task[p].sel, esp0 |-> task[p].esp0, cr3 |-> task[p].cr3,
                  heap |-> op[p].end, program |-> task[p].program]
  BY <1>1, <1>4 DEF TaskTs
<1>6. task'[p] \in TaskTs
  BY <1>1, <1>5 DEF TaskTs, Ops
<1>7. /\ op'[p].pc = "user" /\ op'[p].dir = None /\ op'[p].held = None /\ op'[p].want = {}
      /\ op'[p] \in Ops
  BY <1>4, MemoryAssumption DEF User, Ops, None
<1>8. SameTasks /\ task' \in [Procs -> TaskTs] /\ op' \in [Procs -> Ops]
  BY <1>1, <1>2, <1>4, <1>5, <1>6, <1>7 DEF SameTasks, MemoryTypeOK
<1>9. Spaces' = Spaces
  BY <1>2, <1>4, <1>7, <1>8, SpacesChange DEF SameTasks
<1>10. SameSpace(p)
  BY <1>7 DEF SameSpace, Building
<1>11. /\ op'[p].pc \notin Forking \cup Copying \cup Reaping
       /\ op[p].pc \notin Forking \cup Copying \cup Reaping
  BY <1>2, <1>7 DEF Forking, Copying, Reaping, At
<1> QED BY <1>2, <1>3, <1>4, <1>7, <1>8, <1>9, <1>10, <1>11, CallerOnly

LEMMA exit_Inv ==
  ASSUME MemInv, NEW p \in Procs, exit(p), HalfReleased \subseteq {p}
  PROVE  MemInv'
<1>1. MemoryTypeOK /\ Control /\ Owners /\ First \in Procs
  BY MemoryAssumption DEF MemInv
<1>2. /\ Calls(p) /\ UNCHANGED <<bits, gdt, tabs, maps, op, lost>>
      /\ task' = [q \in Procs |->
                     IF q = p THEN [task[q] EXCEPT !.state = "zombie"]
                     ELSE IF task[q].parent = p THEN [task[q] EXCEPT !.parent = First]
                     ELSE task[q]]
  BY DEF exit
<1>3. /\ At(p, "user") /\ task[p].state = "running" /\ task[p].cr3 \in Pages
  BY <1>2, CallerFacts
<1>4. ASSUME NEW q \in Procs
      PROVE  /\ task'[q] \in TaskTs
             /\ task'[q].named = task[q].named /\ task'[q].esp0 = task[q].esp0
             /\ task'[q].cr3 = task[q].cr3
             /\ task'[q].state = IF q = p THEN "zombie" ELSE task[q].state
  <2>1. task[q] \in TaskTs
    BY <1>1 DEF MemoryTypeOK
  <2>2. CASE q = p
    <3>1. task'[q] = [task[q] EXCEPT !.state = "zombie"]
      BY <1>2, <2>2
    <3>2. task'[q] = [named |-> task[q].named, state |-> "zombie", parent |-> task[q].parent,
                      sel |-> task[q].sel, esp0 |-> task[q].esp0, cr3 |-> task[q].cr3,
                      heap |-> task[q].heap, program |-> task[q].program]
      BY <2>1, <3>1 DEF TaskTs
    <3>3. task'[q] \in TaskTs
      BY <2>1, <3>2 DEF TaskTs
    <3> QED BY <2>2, <3>2, <3>3
  <2>3. CASE q # p /\ task[q].parent = p
    <3>1. task'[q] = [task[q] EXCEPT !.parent = First]
      BY <1>2, <2>3
    <3>2. task'[q] = [named |-> task[q].named, state |-> task[q].state, parent |-> First,
                      sel |-> task[q].sel, esp0 |-> task[q].esp0, cr3 |-> task[q].cr3,
                      heap |-> task[q].heap, program |-> task[q].program]
      BY <2>1, <3>1 DEF TaskTs
    <3>3. task'[q] \in TaskTs
      BY <1>1, <2>1, <3>2 DEF TaskTs
    <3> QED BY <2>3, <3>2, <3>3
  <2>4. CASE q # p /\ task[q].parent # p
    BY <1>2, <2>1, <2>4
  <2> QED BY <2>2, <2>3, <2>4
<1>5. MemoryTypeOK'
  <2>1. task' \in [Procs -> TaskTs]
    BY <1>2, <1>4
  <2> QED BY <1>1, <1>2, <2>1 DEF MemoryTypeOK
<1>6. Control'
  <2>1. CallersRun'
    BY <1>1, <1>2, <1>3, <1>4 DEF Control, CallersRun, At
  <2>2. OneAtATime'
    BY <1>1, <1>2 DEF Control, OneAtATime
  <2>3. ChildAsFork'
    <3>1. \A q \in Procs : op[q].pc \in Forking => op[q].child \in Procs /\ op[q].child # p
      BY <1>1, <1>3 DEF Control, ChildAsFork, Slots
    <3> QED BY <1>1, <1>2, <1>4, <3>1 DEF Control, ChildAsFork, At
  <2>4. ChildAsCopy'
    <3>1. \A q \in Procs : op[q].pc \in Copying => op[q].child \in Procs /\ op[q].child # p
      BY <1>1, <1>3 DEF Control, ChildAsCopy, Slots
    <3> QED BY <1>1, <1>2, <1>4, <3>1 DEF Control, ChildAsCopy
  <2>5. ChildAsZombie'
    BY <1>1, <1>2, <1>4 DEF Control, ChildAsZombie, Slots
  <2>6. FreeSlots'
    BY <1>1, <1>2, <1>3, <1>4 DEF Control, FreeSlots
  <2>7. SpacesByState'
    BY <1>1, <1>2, <1>3, <1>4 DEF Control, SpacesByState, At
  <2>8. DirWhen' /\ DirPrivate' /\ DirOwn' /\ Cr3Apart' /\ Wants'
    BY <1>1, <1>2, <1>4 DEF Control, DirWhen, DirPrivate, DirOwn, Cr3Apart, Wants, At
  <2> QED BY <2>1, <2>2, <2>3, <2>4, <2>5, <2>6, <2>7, <2>8 DEF Control
<1>7. Owners'
  <2>1. Spaces' = Spaces
    BY <1>2, <1>4, SpacesChange
  <2>2. ~At(p, "fork_failed") /\ ~At(p, "fork_failed")'
    BY <1>2, <1>3 DEF At
  <2>3. \A q \in Procs : task'[q].state = "created" => task[q].state = "created"
    BY <1>4
  <2> QED BY <1>2, <1>4, <2>1, <2>2, <2>3, OwnersKept
<1> QED BY <1>5, <1>6, <1>7 DEF MemInv

LEMMA wait_Inv ==
  ASSUME MemInv, NEW p \in Procs, wait(p), HalfReleased \subseteq {p}
  PROVE  MemInv'
<1>1. MemoryTypeOK /\ op[p] \in Ops /\ Control /\ Owners
  BY DEF MemInv, MemoryTypeOK
<1>2. /\ Calls(p) /\ ~TableLocked /\ UNCHANGED <<bits, gdt, task, tabs, maps, lost>>
  BY DEF wait
<1>3. /\ At(p, "user") /\ task[p].state = "running" /\ task[p].cr3 \in Pages
      /\ op[p].dir = None /\ op[p].held = None /\ op[p].want = {}
  BY <1>2, CallerFacts
<1>4. PICK c \in Slots :
        /\ task[c].state = "zombie"
        /\ op' = [op EXCEPT ![p] = [User EXCEPT !.pc = "reap", !.child = c, !.dir = task[c].cr3]]
  BY DEF wait, Reapable
<1>5. \A q \in Procs : op[q].pc \notin Reaping
  BY <1>2 DEF TableLocked, Reaping
<1>6. c \in Procs /\ task[c].cr3 \in Pages
  BY <1>1, <1>4, <1>5 DEF Slots, Control, SpacesByState, At, Reaping
<1>7. /\ op'[p] = [User EXCEPT !.pc = "reap", !.child = c, !.dir = task[c].cr3]
      /\ \A q \in Procs : q # p => op'[q] = op[q]
  BY <1>1, <1>4 DEF MemoryTypeOK
<1>8. op'[p] = [pc |-> "reap", child |-> c, sel |-> None, dir |-> task[c].cr3, want |-> {},
                held |-> None, end |-> 0]
  BY <1>7 DEF User
<1>9. op'[p] \in Ops
  BY <1>6, <1>8, MemoryAssumption DEF Ops, Reaping, None, Pages
<1>10. MemoryTypeOK'
  BY <1>1, <1>2, <1>4, <1>9 DEF MemoryTypeOK
<1>11. \A q \in Procs : op'[q].pc \in Forking \cup Copying \cup Building \cup {"grow"} =>
          q # p /\ op'[q] = op[q]
  BY <1>7, <1>8 DEF Forking, Copying, Building
<1>12. Control'
  <2>1. CallersRun'
    BY <1>1, <1>2, <1>3, <1>7 DEF Control, CallersRun, At
  <2>2. OneAtATime'
    <3>1. \A q \in Procs : op'[q].pc \in Reaping => q = p
      BY <1>5, <1>7
    <3> QED BY <1>1, <1>11, <3>1 DEF Control, OneAtATime
  <2>3. ChildAsFork'
    BY <1>1, <1>2, <1>11 DEF Control, ChildAsFork, At
  <2>4. ChildAsCopy'
    BY <1>1, <1>2, <1>11 DEF Control, ChildAsCopy
  <2>5. ChildAsZombie'
    BY <1>2, <1>4, <1>5, <1>7, <1>8 DEF ChildAsZombie
  <2>6. FreeSlots'
    <3>1. \A q \in Procs : task[q].state = "free" /\ task[q].esp0 # None =>
             \E r \in Procs : op'[r].pc \in {"fork_dir", "fork_failed"} /\ op'[r].child = q
      <4>1. TAKE q \in Procs
      <4>2. HAVE task[q].state = "free" /\ task[q].esp0 # None
      <4>3. PICK r \in Procs : op[r].pc \in {"fork_dir", "fork_failed"} /\ op[r].child = q
        BY <1>1, <4>2 DEF Control, FreeSlots
      <4> QED BY <1>3, <1>7, <4>3 DEF At
    <3> QED BY <1>1, <1>2, <3>1 DEF Control, FreeSlots
  <2>7. SpacesByState'
    <3>1. \A q \in Procs : ~At(q, "reap_stack")
      BY <1>5 DEF At, Reaping
    <3> QED BY <1>1, <1>2, <3>1 DEF Control, SpacesByState
  <2>8. DirWhen'
    <3>1. op'[p].dir # None /\ op'[p].pc = "reap"
      BY <1>6, <1>8 DEF Pages, None
    <3> QED BY <1>1, <1>7, <3>1 DEF Control, DirWhen
  <2>9. DirPrivate'
    <3>1. op'[p].dir = task[c].cr3
      BY <1>8
    <3>2. ASSUME NEW q \in Procs, op'[q].pc \in Building
          PROVE  /\ \A r \in Procs : task'[r].cr3 # op'[q].dir
                 /\ \A r \in Procs : r # q => op'[r].dir # op'[q].dir
      <4>1. q # p /\ op'[q] = op[q]
        BY <1>11, <3>2
      <4>2. /\ \A r \in Procs : task[r].cr3 # op[q].dir
            /\ \A r \in Procs : r # q => op[r].dir # op[q].dir
        BY <1>1, <3>2, <4>1 DEF Control, DirPrivate
      <4> QED BY <1>2, <1>6, <1>7, <3>1, <4>1, <4>2
    <3> QED BY <3>2 DEF DirPrivate
  <2>10. DirOwn'
    BY <1>1, <1>2, <1>11 DEF Control, DirOwn, At
  <2>11. Cr3Apart'
    BY <1>1, <1>2 DEF Control, Cr3Apart
  <2>12. Wants'
    BY <1>1, <1>7, <1>8 DEF Control, Wants
  <2> QED BY <2>1, <2>2, <2>3, <2>4, <2>5, <2>6, <2>7, <2>8, <2>9, <2>10, <2>11, <2>12 DEF Control
<1>13. Owners'
  <2>1. Spaces' = Spaces \cup {task[c].cr3}
    BY <1>2, <1>3, <1>6, <1>7, <1>8, SpacesChange
  <2>2. task[c].cr3 \in Spaces
    BY <1>6 DEF Spaces, Pages, None, Bad
  <2>3. Spaces' = Spaces
    BY <2>1, <2>2
  <2>4. ~At(p, "fork_failed") /\ ~At(p, "fork_failed")' /\ op'[p].held = op[p].held
    BY <1>3, <1>8 DEF At
  <2> QED BY <1>2, <1>7, <2>3, <2>4, OwnersKept
<1> QED BY <1>10, <1>12, <1>13 DEF MemInv

LEMMA wait_end_Inv ==
  ASSUME MemInv, NEW p \in Procs, wait_end(p), HalfReleased \subseteq {p}
  PROVE  MemInv'
<1> DEFINE c == op[p].child
           stack == task[c].esp0
<1>1. MemoryTypeOK /\ op[p] \in Ops /\ Control /\ Owners
  BY DEF MemInv, MemoryTypeOK
<1>2. /\ At(p, "reap_stack") /\ op[p].pc \in Reaping /\ UNCHANGED <<gdt, tabs, maps, lost>>
      /\ bits' = bits \ {stack}
      /\ task' = [task EXCEPT ![c] = Blank]
      /\ op' = [op EXCEPT ![p] = User]
  BY DEF wait_end, At, Reaping
<1>3. /\ c \in Procs /\ task[c].state = "zombie" /\ task[c].cr3 = None /\ task[c] \in TaskTs
      /\ op[p].dir = None /\ op[p].held = None
  <2>1. op[p].dir = None /\ op[p].held = None
    BY <1>1, <1>2 DEF Control, DirWhen, Wants, Building, Mapping, At
  <2> QED BY <1>1, <1>2, <2>1 DEF Control, ChildAsZombie, Slots, MemoryTypeOK
<1>4. /\ op'[p] = User /\ \A q \in Procs : q # p => op'[q] = op[q]
      /\ task'[c] = Blank /\ \A q \in Procs : q # c => task'[q] = task[q]
  BY <1>1, <1>2, <1>3 DEF MemoryTypeOK
<1>5. /\ op'[p].pc = "user" /\ op'[p].dir = None /\ op'[p].held = None /\ op'[p].want = {}
      /\ op'[p] \in Ops
  BY <1>4, MemoryAssumption DEF User, Ops, None
<1>6. /\ task'[c].state = "free" /\ task'[c].named = FALSE /\ task'[c].cr3 = None
      /\ task'[c].esp0 = None /\ task'[c] \in TaskTs
  BY <1>4, MemoryAssumption DEF Blank, TaskTs, None, Bad
<1>7. MemoryTypeOK'
  BY <1>1, <1>2, <1>4, <1>5, <1>6 DEF MemoryTypeOK
<1>8. \A q \in Procs : op'[q].pc # "user" => q # p /\ op'[q] = op[q]
  BY <1>4, <1>5
<1>9. \A q \in Procs : q # p => op[q].pc \notin Reaping
  BY <1>1, <1>2 DEF Control, OneAtATime
<1>10. Control'
  <2>1. CallersRun'
    BY <1>1, <1>3, <1>4, <1>8 DEF Control, CallersRun, At
  <2>2. OneAtATime'
    <3>1. "user" \notin Forking \cup Copying \cup Reaping
      BY DEF Forking, Copying, Reaping
    <3> QED BY <1>1, <1>8, <3>1 DEF Control, OneAtATime
  <2>3. ChildAsFork'
    <3>1. \A q \in Procs : op'[q].pc \in Forking =>
             op'[q] = op[q] /\ op[q].child \in Slots /\ op[q].child # c
      BY <1>1, <1>3, <1>8 DEF Control, ChildAsFork, Forking
    <3> QED BY <1>1, <1>4, <3>1 DEF Control, ChildAsFork, Slots, At
  <2>4. ChildAsCopy'
    <3>1. \A q \in Procs : op'[q].pc \in Copying =>
             op'[q] = op[q] /\ op[q].child \in Slots /\ op[q].child # c
      BY <1>1, <1>3, <1>8 DEF Control, ChildAsCopy, Copying
    <3> QED BY <1>1, <1>4, <3>1 DEF Control, ChildAsCopy, Slots
  <2>5. ChildAsZombie'
    BY <1>5, <1>8, <1>9 DEF ChildAsZombie, Reaping
  <2>6. FreeSlots'
    <3>1. \A q \in Procs : task[q].state = "free" /\ task[q].esp0 # None =>
             \E r \in Procs : op'[r].pc \in {"fork_dir", "fork_failed"} /\ op'[r].child = q
      <4>1. TAKE q \in Procs
      <4>2. HAVE task[q].state = "free" /\ task[q].esp0 # None
      <4>3. PICK r \in Procs : op[r].pc \in {"fork_dir", "fork_failed"} /\ op[r].child = q
        BY <1>1, <4>2 DEF Control, FreeSlots
      <4> QED BY <1>2, <1>4, <4>3 DEF At
    <3> QED BY <1>1, <1>4, <1>6, <3>1 DEF Control, FreeSlots
  <2>7. SpacesByState'
    <3>1. \A q \in Procs : q # c /\ task[q].state = "zombie" => task[q].cr3 \in Pages
      BY <1>1, <1>9 DEF Control, SpacesByState, At, Reaping
    <3> QED BY <1>1, <1>4, <1>6, <3>1 DEF Control, SpacesByState
  <2>8. DirWhen'
    BY <1>1, <1>4, <1>5 DEF Control, DirWhen, Building
  <2>9. \A q \in Procs : task'[q].cr3 = task[q].cr3
    BY <1>3, <1>4, <1>6
  <2>10. DirPrivate'
    <3>1. \A q \in Procs : op[q].pc \in Building => op[q].dir # None
      BY <1>1 DEF Control, DirWhen
    <3>2. "user" \notin Building
      BY DEF Building
    <3> QED BY <1>1, <1>4, <1>5, <1>8, <2>9, <3>1, <3>2 DEF Control, DirPrivate
  <2>11. DirOwn'
    BY <1>1, <1>8, <2>9 DEF Control, DirOwn, At
  <2>12. Cr3Apart'
    BY <1>1, <2>9 DEF Control, Cr3Apart
  <2>13. Wants'
    BY <1>1, <1>4, <1>5 DEF Control, Wants
  <2> QED BY <2>1, <2>2, <2>3, <2>4, <2>5, <2>6, <2>7, <2>8, <2>10, <2>11, <2>12, <2>13 DEF Control
<1>11. Released = {} /\ Released' = {}
  <2>1. HalfReleased = {}
    BY <1>2 DEF HalfReleased, At
  <2>2. ASSUME NEW q \in Procs, op'[q].pc = "fork_failed" PROVE task'[op'[q].child].esp0 = None
    <3>1. op'[q] = op[q] /\ op[q].child \in Procs
      BY <1>1, <1>8, <2>2 DEF Control, ChildAsFork, Forking, Slots
    <3> QED BY <1>4, <1>6, <2>1, <2>2, <3>1 DEF HalfReleased, At
  <2>3. HalfReleased' = {}
    BY <2>2 DEF HalfReleased, At
  <2> QED BY <2>1, <2>3 DEF Released
<1>12. \A q, r \in Procs : task[q].esp0 = task[r].esp0 /\ task[q].esp0 # None => q = r
  BY <1>1, <1>11 DEF Owners, OneStack
<1>13. \A q \in Procs : task'[q].esp0 = IF q = c THEN None ELSE task[q].esp0
  BY <1>4, <1>6
<1>14. StackPages' = StackPages \ {stack}
  <2>1. \A x : x \in StackPages' <=> x \in StackPages /\ x # stack
    BY <1>3, <1>11, <1>12, <1>13 DEF StackPages, Pages, None
  <2> QED BY <2>1
<1>15. OneStack' /\ ReleasedFree'
  BY <1>11, <1>12, <1>13 DEF OneStack, ReleasedFree
<1>16. HeldPages' = HeldPages /\ OneHeld'
  BY <1>3, <1>4, <1>5, HeldChanges
<1>17. \A q \in Procs : task'[q].cr3 = task[q].cr3
  BY <1>3, <1>4, <1>6
<1>18. Spaces' = Spaces
  BY <1>3, <1>4, <1>5, <1>17, SpacesChange
<1>19. TablePages' = TablePages /\ MappedPages' = MappedPages /\ OneTable' /\ OneAddress'
  BY <1>2, TablesKept
<1>20. ClearElsewhere' /\ TableBeneath'
  <2>1. \A q \in Procs : task'[q].state = "created" => q # c
    BY <1>6
  <2>2. \A e \in Pages \ Spaces' : Clear(e)'
    BY <1>1, <1>2, <1>18 DEF Owners, ClearElsewhere, Clear
  <2>3. (\A q \in Procs : task[q].state = "created" => Clear(task[q].cr3))'
    BY <1>1, <1>2, <1>4, <2>1 DEF Owners, ClearElsewhere, Clear
  <2> QED BY <1>1, <1>2, <2>2, <2>3 DEF ClearElsewhere, TableBeneath, Owners
<1>21. PagesSplit'
  <2>1. CASE stack = None
    <3>1. bits' = bits /\ StackPages' = StackPages
      BY <1>1, <1>2, <1>14, <2>1 DEF MemoryTypeOK, StackPages, Pages, None
    <3> QED BY <1>1, <1>2, <1>16, <1>18, <1>19, <3>1 DEF PagesSplit, Owners
  <2>2. CASE stack # None
    <3>1. stack \in Pages
      BY <1>3, <2>2 DEF TaskTs, Pages, None
    <3>2. stack \in StackPages
      BY <1>3, <1>11, <3>1 DEF StackPages
    <3>3. Split(StackPages \ {stack}, HeldPages, Spaces, TablePages, MappedPages,
                bits \ {stack}, lost)
      BY <1>1, <3>2, SplitGive DEF Owners, PagesSplit
    <3> QED BY <1>2, <1>14, <1>16, <1>18, <1>19, <3>3 DEF PagesSplit
  <2> QED BY <2>1, <2>2
<1> QED BY <1>7, <1>10, <1>15, <1>16, <1>19, <1>20, <1>21 DEF MemInv, Owners
-----------------------------------------------------------------------------
(* The invariant.                                                          *)

LEMMA InitMemInv ==
  ASSUME Init
  PROVE  MemInv
<1>1. LastPage \in Nat /\ LastPage >= 4 /\ LastDesc \in Nat /\ LastDesc >= 1
      /\ First \in Procs /\ NoProc \notin Procs
  BY MemoryAssumption
<1>2. 1 \in Pages /\ 2 \in Pages /\ 3 \in Pages /\ 4 \in Pages
  BY <1>1 DEF Pages
<1>3. UserBase \in Vaddrs /\ Table(UserBase) \in Tables
  BY MemoryAssumption DEF Vaddrs, Tables
<1>4. /\ task[First] = [named |-> TRUE, state |-> "running", parent |-> NoProc, sel |-> 1,
                        esp0 |-> 1, cr3 |-> 2, heap |-> 0, program |-> None]
      /\ \A q \in Procs \ {First} : task[q] = Blank
      /\ \A q \in Procs : op[q] = User
  BY <1>1 DEF Init, Blank
<1>5. /\ \A d \in Pages, t \in Tables :
            tabs[d][t] = IF d = 2 /\ t = Table(UserBase) THEN 3 ELSE None
      /\ \A d \in Pages, v \in Vaddrs : maps[d][v] = IF d = 2 /\ v = UserBase THEN 4 ELSE None
  BY DEF Init
<1>6. /\ \A q \in Procs : op[q].pc = "user" /\ op[q].dir = None /\ op[q].held = None
                          /\ op[q].want = {}
      /\ task[First].named = TRUE /\ task[First].state = "running"
      /\ task[First].esp0 = 1 /\ task[First].cr3 = 2
      /\ \A q \in Procs : q # First => /\ task[q].named = FALSE /\ task[q].state = "free"
                                       /\ task[q].esp0 = None /\ task[q].cr3 = None
  BY <1>4 DEF User, Blank
<1>7. MemoryTypeOK
  <2>1. /\ bits \subseteq Pages
        /\ gdt \subseteq 1 .. LastDesc
        /\ lost \subseteq Pages
    BY <1>1 DEF Init, Pages
  <2>2. task \in [Procs -> TaskTs]
    <3>1. task[First] \in TaskTs
      BY <1>1, <1>4 DEF TaskTs, None, Bad
    <3>2. Blank \in TaskTs
      BY <1>1 DEF TaskTs, Blank, None, Bad
    <3>3. \A q \in Procs : task[q] \in TaskTs
      BY <1>4, <3>1, <3>2
    <3> QED BY <3>3 DEF Init
  <2>3. op \in [Procs -> Ops]
    <3>1. User \in Ops
      BY <1>1, MemoryAssumption DEF Ops, User, None
    <3> QED BY <3>1 DEF Init
  <2>4. tabs \in [Pages -> [Tables -> 0 .. LastPage]]
    BY <1>1 DEF Init, None
  <2>5. maps \in [Pages -> [Vaddrs -> 0 .. LastPage]]
    BY <1>1 DEF Init, None
  <2> QED BY <2>1, <2>2, <2>3, <2>4, <2>5 DEF MemoryTypeOK
<1>8. Control
  <2>1. "user" \notin Forking \cup Copying \cup Reaping \cup Building \cup Mapping
    BY DEF Forking, Copying, Reaping, Building, Mapping
  <2>2. CallersRun /\ OneAtATime /\ ChildAsFork /\ ChildAsCopy /\ ChildAsZombie
    BY <1>6, <2>1 DEF CallersRun, OneAtATime, ChildAsFork, ChildAsCopy, ChildAsZombie, At
  <2>3. FreeSlots /\ SpacesByState
    BY <1>6 DEF FreeSlots, SpacesByState, None
  <2>4. DirWhen /\ DirPrivate /\ DirOwn /\ Wants
    BY <1>6, <2>1 DEF DirWhen, DirPrivate, DirOwn, Wants, At
  <2>5. Cr3Apart
    BY <1>6 DEF Cr3Apart, Pages, None
  <2> QED BY <2>2, <2>3, <2>4, <2>5 DEF Control
<1>9. Owners
  <2>1. HalfReleased = {} /\ Released = {}
    BY <1>6 DEF HalfReleased, Released, At
  <2>2. StackPages = {1}
    BY <1>1, <1>2, <1>6, <2>1 DEF StackPages, Pages, None
  <2>3. HeldPages = {}
    BY <1>6 DEF HeldPages, Pages, None
  <2>4. Spaces = {2}
    <3>1. \A x : x \in Spaces <=> /\ x # None /\ x # Bad
                                 /\ \E q \in Procs : x = task[q].cr3 \/ x = op[q].dir
      BY DEF Spaces
    <3>2. \A x : x \in Spaces <=> x = 2
      BY <1>1, <1>6, <3>1 DEF None, Bad
    <3> QED BY <3>2
  <2>5. TablePages = {3}
    BY <1>2, <1>3, <1>5 DEF TablePages, Pages, None
  <2>6. MappedPages = {4}
    BY <1>2, <1>3, <1>5 DEF MappedPages, Pages, None
  <2>7. bits = {1, 2, 3, 4}
    BY DEF Init
  <2>8. PagesSplit
    BY <2>2, <2>3, <2>4, <2>5, <2>6, <2>7 DEF PagesSplit, Split
  <2>9. OneStack /\ OneHeld /\ ReleasedFree
    BY <1>6, <2>1 DEF OneStack, OneHeld, ReleasedFree
  <2>10. OneTable /\ OneAddress
    BY <1>5 DEF OneTable, OneAddress
  <2>11. ClearElsewhere
    BY <1>5, <1>6, <2>4 DEF ClearElsewhere, Clear
  <2>12. TableBeneath
    BY <1>3, <1>5 DEF TableBeneath, Tables, None
  <2> QED BY <2>8, <2>9, <2>10, <2>11, <2>12 DEF Owners
<1> QED BY <1>7, <1>8, <1>9 DEF MemInv

LEMMA StutterMemInv == ASSUME MemInv, UNCHANGED vars PROVE MemInv'
BY DEF vars, MemInv, MemoryTypeOK, Control, CallersRun, OneAtATime, ChildAsFork,
     ChildAsCopy, ChildAsZombie, FreeSlots, SpacesByState, DirWhen, DirPrivate, DirOwn, Cr3Apart,
     Wants, Owners, PagesSplit, StackPages, HeldPages, Spaces, TablePages, MappedPages, OneStack,
     OneHeld, OneTable, OneAddress, ReleasedFree, ClearElsewhere, Clear, TableBeneath, Released,
     HalfReleased, At

\* No fork is between its two releases while others run and every process has a name: every
\* step keeps the invariant.
LEMMA NextMemInv ==
  ASSUME MemInv, [Next]_vars, "twice" \notin Mishaps, "nameless" \notin Mishaps
  PROVE  MemInv'
<1>1. ASSUME NEW p \in Procs, HalfReleased \subseteq {p}, execve(p) PROVE MemInv'
  BY <1>1, ExecsOrNot, execve_Inv, StutterMemInv
<1>2. ASSUME NEW p \in Procs, HalfReleased \subseteq {p}, Step(p) PROVE MemInv'
  BY <1>1, <1>2, map_page_Inv, map_table_Inv, map_enter_Inv, destroy_page_Inv, destroy_dir_Inv,
     fork_alloc_Inv, fork_desc_Inv, fork_stack_Inv, fork_dir_Inv, fork_failed_Inv,
     fork_copy_Inv, fork_start_Inv, exec_load_Inv, exec_args_Inv,
     sbrk_Inv, sbrk_end_Inv, exit_Inv, wait_Inv, wait_end_Inv DEF Step
<1>3. CASE UNCHANGED vars
  BY <1>3, StutterMemInv
<1> QED BY <1>2, <1>3 DEF Next

THEOREM MemoryInvariant ==
  ASSUME "twice" \notin Mishaps, "nameless" \notin Mishaps
  PROVE  Spec => []MemInv
<1>1. Init => MemInv
  BY InitMemInv
<1>2. MemInv /\ [Next]_vars => MemInv'
  BY NextMemInv
<1> QED BY <1>1, <1>2, PTL DEF Spec

\* Every variable keeps to the values of its kind.
THEOREM MemoryTypeCorrect ==
  ASSUME "twice" \notin Mishaps, "nameless" \notin Mishaps
  PROVE  Spec => []MemoryTypeOK
<1>1. MemInv => MemoryTypeOK
  BY DEF MemInv
<1> QED BY <1>1, MemoryInvariant, PTL
-----------------------------------------------------------------------------
(* No page has two uses.                                                   *)

\* What f maps one to one has the size of its domain.
LEMMA SameSize ==
  ASSUME NEW S, NEW T, IsFiniteSet(S), NEW f \in [S -> T],
         \A x, y \in S : f[x] = f[y] => x = y,
         \A z \in T : \E x \in S : f[x] = z
  PROVE  IsFiniteSet(T) /\ Cardinality(T) = Cardinality(S)
<1>1. f \in Bijection(S, T)
  BY DEF Bijection, Injection, Surjection, IsInjective
<1> QED BY <1>1, FS_Bijection DEF ExistsBijection

LEMMA DisjointSizes ==
  ASSUME NEW S, NEW T, IsFiniteSet(S), IsFiniteSet(T), S \cap T = {}
  PROVE  IsFiniteSet(S \cup T) /\ Cardinality(S \cup T) = Cardinality(S) + Cardinality(T)
<1>1. Cardinality(S) \in Nat /\ Cardinality(T) \in Nat
  BY FS_CardinalityType
<1>2. Cardinality(S \cap T) = 0
  BY FS_EmptySet
<1>3. Cardinality(S \cup T) = Cardinality(S) + Cardinality(T) - Cardinality(S \cap T)
      /\ IsFiniteSet(S \cup T)
  BY FS_Union
<1> QED BY <1>1, <1>2, <1>3

\* Used and the five sets are the same.
LEMMA UsedIs ==
  ASSUME MemInv
  PROVE  /\ Spaces \subseteq Pages
         /\ {task[q].esp0 : q \in WithStack} = StackPages
         /\ {op[q].held : q \in WithHeld} = HeldPages
         /\ {tabs[x[1]][x[2]] : x \in AllTables} = TablePages
         /\ {maps[x[1]][x[2]] : x \in AllMapped} = MappedPages
<1>1. MemoryTypeOK /\ Control /\ Owners
  BY DEF MemInv
<1>2. Pages = {x \in 0 .. LastPage : x # None} /\ None \notin Pages
  BY MemoryAssumption DEF Pages, None
<1>3. Spaces \subseteq Pages
  BY <1>1 DEF Owners, PagesSplit, Split, MemoryTypeOK
<1>4. {task[q].esp0 : q \in WithStack} = StackPages
  <2>1. \A q \in Procs : task[q].esp0 \in 0 .. LastPage
    BY <1>1 DEF MemoryTypeOK, TaskTs
  <2> QED BY <1>2, <2>1 DEF StackPages, WithStack
<1>5. {op[q].held : q \in WithHeld} = HeldPages
  <2>1. \A q \in Procs : op[q].held \in 0 .. LastPage
    BY <1>1 DEF MemoryTypeOK, Ops
  <2> QED BY <1>2, <2>1 DEF HeldPages, WithHeld
<1>6. {tabs[x[1]][x[2]] : x \in AllTables} = TablePages
  <2>1. \A d \in Pages, t \in Tables : tabs[d][t] \in 0 .. LastPage
    BY <1>1 DEF MemoryTypeOK
  <2>2. ASSUME NEW y \in {tabs[x[1]][x[2]] : x \in AllTables} PROVE y \in TablePages
    <3>1. PICK x \in AllTables : y = tabs[x[1]][x[2]]
      OBVIOUS
    <3>2. x[1] \in Pages /\ x[2] \in Tables /\ tabs[x[1]][x[2]] # None
      BY <1>3 DEF AllTables
    <3> QED BY <1>2, <2>1, <3>1, <3>2 DEF TablePages
  <2>3. ASSUME NEW y \in TablePages PROVE y \in {tabs[x[1]][x[2]] : x \in AllTables}
    <3>1. PICK d \in Pages, t \in Tables : tabs[d][t] = y
      BY DEF TablePages
    <3>2. y # None
      BY <1>2 DEF TablePages
    <3>3. d \in Spaces
      BY <1>1, <3>1, <3>2 DEF Owners, ClearElsewhere, Clear
    <3>4. <<d, t>> \in AllTables
      BY <3>1, <3>2, <3>3 DEF AllTables
    <3> QED BY <3>1, <3>4
  <2> QED BY <2>2, <2>3
<1>7. {maps[x[1]][x[2]] : x \in AllMapped} = MappedPages
  <2>1. \A d \in Pages, v \in Vaddrs : maps[d][v] \in 0 .. LastPage
    BY <1>1 DEF MemoryTypeOK
  <2>2. ASSUME NEW y \in {maps[x[1]][x[2]] : x \in AllMapped} PROVE y \in MappedPages
    <3>1. PICK x \in AllMapped : y = maps[x[1]][x[2]]
      OBVIOUS
    <3>2. x[1] \in Pages /\ x[2] \in Vaddrs /\ maps[x[1]][x[2]] # None
      BY <1>3 DEF AllMapped
    <3> QED BY <1>2, <2>1, <3>1, <3>2 DEF MappedPages
  <2>3. ASSUME NEW y \in MappedPages PROVE y \in {maps[x[1]][x[2]] : x \in AllMapped}
    <3>1. PICK d \in Pages, v \in Vaddrs : maps[d][v] = y
      BY DEF MappedPages
    <3>2. y # None
      BY <1>2 DEF MappedPages
    <3>3. d \in Spaces
      BY <1>1, <3>1, <3>2 DEF Owners, ClearElsewhere, Clear
    <3>4. <<d, v>> \in AllMapped
      BY <3>1, <3>2, <3>3 DEF AllMapped
    <3> QED BY <3>1, <3>4
  <2> QED BY <2>2, <2>3
<1> QED BY <1>3, <1>4, <1>5, <1>6, <1>7

\* Each use has a page of its own.
LEMMA UsesCounted ==
  ASSUME MemInv
  PROVE  Uses = Cardinality(Used)
<1>1. MemoryTypeOK /\ Control /\ Owners
  BY DEF MemInv
<1>2. IsFiniteSet(Procs) /\ IsFiniteSet(Pages) /\ IsFiniteSet(Vaddrs)
  BY MemoryAssumption, FS_Interval DEF Pages, Vaddrs
<1>3. IsFiniteSet(Tables)
  <2> DEFINE f == [v \in Vaddrs |-> Table(v)]
  <2>1. f \in Surjection(Vaddrs, Tables)
    BY DEF Surjection, Tables
  <2> QED BY <1>2, <2>1, FS_Surjection
<1>4. IsFiniteSet(Spaces)
  BY <1>2, UsedIs, FS_Subset
<1>5. IsFiniteSet(StackPages) /\ Cardinality(StackPages) = Cardinality(WithStack)
  <2> DEFINE f == [q \in WithStack |-> task[q].esp0]
  <2>1. IsFiniteSet(WithStack)
    BY <1>2, FS_Subset DEF WithStack
  <2>2. StackPages = {task[q].esp0 : q \in WithStack}
    BY UsedIs
  <2>3. f \in [WithStack -> StackPages]
    BY <2>2
  <2>4. \A q, r \in WithStack : f[q] = f[r] => q = r
    BY <1>1 DEF Owners, OneStack, WithStack
  <2>5. \A z \in StackPages : \E q \in WithStack : f[q] = z
    BY <2>2
  <2> HIDE DEF f
  <2> QED BY <2>1, <2>3, <2>4, <2>5, SameSize
<1>6. IsFiniteSet(HeldPages) /\ Cardinality(HeldPages) = Cardinality(WithHeld)
  <2> DEFINE f == [q \in WithHeld |-> op[q].held]
  <2>1. IsFiniteSet(WithHeld)
    BY <1>2, FS_Subset DEF WithHeld
  <2>2. HeldPages = {op[q].held : q \in WithHeld}
    BY UsedIs
  <2>3. f \in [WithHeld -> HeldPages]
    BY <2>2
  <2>4. \A q, r \in WithHeld : f[q] = f[r] => q = r
    BY <1>1 DEF Owners, OneHeld, WithHeld
  <2>5. \A z \in HeldPages : \E q \in WithHeld : f[q] = z
    BY <2>2
  <2> HIDE DEF f
  <2> QED BY <2>1, <2>3, <2>4, <2>5, SameSize
<1>7. IsFiniteSet(TablePages) /\ Cardinality(TablePages) = Cardinality(AllTables)
  <2> DEFINE f == [x \in AllTables |-> tabs[x[1]][x[2]]]
  <2>1. IsFiniteSet(AllTables)
    <3>1. IsFiniteSet(Spaces \X Tables)
      BY <1>3, <1>4, FS_Product
    <3> QED BY <3>1, FS_Subset DEF AllTables
  <2>2. TablePages = {tabs[x[1]][x[2]] : x \in AllTables}
    BY UsedIs
  <2>3. f \in [AllTables -> TablePages]
    BY <2>2
  <2>4. \A x, y \in AllTables : f[x] = f[y] => x = y
    <3>1. TAKE x, y \in AllTables
    <3>2. HAVE f[x] = f[y]
    <3>3. /\ x = <<x[1], x[2]>> /\ y = <<y[1], y[2]>>
          /\ x[1] \in Spaces /\ y[1] \in Spaces /\ x[2] \in Tables /\ y[2] \in Tables
          /\ tabs[x[1]][x[2]] # None
      BY DEF AllTables
    <3>4. tabs[x[1]][x[2]] = tabs[y[1]][y[2]]
      BY <3>2
    <3>5. x[1] = y[1] /\ x[2] = y[2]
      BY <1>1, <3>3, <3>4, UsedIs DEF Owners, OneTable
    <3> QED BY <3>3, <3>5
  <2>5. \A z \in TablePages : \E x \in AllTables : f[x] = z
    BY <2>2
  <2> HIDE DEF f
  <2> QED BY <2>1, <2>3, <2>4, <2>5, SameSize
<1>8. IsFiniteSet(MappedPages) /\ Cardinality(MappedPages) = Cardinality(AllMapped)
  <2> DEFINE f == [x \in AllMapped |-> maps[x[1]][x[2]]]
  <2>1. IsFiniteSet(AllMapped)
    <3>1. IsFiniteSet(Spaces \X Vaddrs)
      BY <1>2, <1>4, FS_Product
    <3> QED BY <3>1, FS_Subset DEF AllMapped
  <2>2. MappedPages = {maps[x[1]][x[2]] : x \in AllMapped}
    BY UsedIs
  <2>3. f \in [AllMapped -> MappedPages]
    BY <2>2
  <2>4. \A x, y \in AllMapped : f[x] = f[y] => x = y
    <3>1. TAKE x, y \in AllMapped
    <3>2. HAVE f[x] = f[y]
    <3>3. /\ x = <<x[1], x[2]>> /\ y = <<y[1], y[2]>>
          /\ x[1] \in Spaces /\ y[1] \in Spaces /\ x[2] \in Vaddrs /\ y[2] \in Vaddrs
          /\ maps[x[1]][x[2]] # None
      BY DEF AllMapped
    <3>4. maps[x[1]][x[2]] = maps[y[1]][y[2]]
      BY <3>2
    <3>5. x[1] = y[1] /\ x[2] = y[2]
      BY <1>1, <3>3, <3>4, UsedIs DEF Owners, OneAddress
    <3> QED BY <3>3, <3>5
  <2>5. \A z \in MappedPages : \E x \in AllMapped : f[x] = z
    BY <2>2
  <2> HIDE DEF f
  <2> QED BY <2>1, <2>3, <2>4, <2>5, SameSize
<1>9. /\ StackPages \cap HeldPages = {}
      /\ (StackPages \cup HeldPages) \cap Spaces = {}
      /\ (StackPages \cup HeldPages \cup Spaces) \cap TablePages = {}
      /\ (StackPages \cup HeldPages \cup Spaces \cup TablePages) \cap MappedPages = {}
  BY <1>1 DEF Owners, PagesSplit, Split
<1> DEFINE A == StackPages \cup HeldPages
           B == A \cup Spaces
           C == B \cup TablePages
<1>10. IsFiniteSet(A) /\ Cardinality(A) = Cardinality(WithStack) + Cardinality(WithHeld)
  BY <1>5, <1>6, <1>9, DisjointSizes
<1>11. A \cap Spaces = {} /\ B \cap TablePages = {} /\ C \cap MappedPages = {}
  BY <1>9
<1> HIDE DEF A
<1>12. IsFiniteSet(B) /\ Cardinality(B) = Cardinality(A) + Cardinality(Spaces)
  BY <1>4, <1>10, <1>11, DisjointSizes
<1> HIDE DEF B
<1>13. IsFiniteSet(C) /\ Cardinality(C) = Cardinality(B) + Cardinality(AllTables)
  BY <1>7, <1>11, <1>12, DisjointSizes
<1> HIDE DEF C
<1>14. Cardinality(C \cup MappedPages) = Cardinality(C) + Cardinality(AllMapped)
  BY <1>8, <1>11, <1>13, DisjointSizes
<1>15. Used = C \cup MappedPages
  BY UsedIs DEF Used, A, B, C
<1> QED BY <1>10, <1>12, <1>13, <1>14, <1>15 DEF Uses

\* No page has two uses, and none in use is free, whatever processes do and however short of
\* pages they are.
THEOREM PagesHaveOneOwner ==
  ASSUME "twice" \notin Mishaps, "nameless" \notin Mishaps
  PROVE  Spec => []PagesApart
<1>1. MemInv => PagesApart
  <2>1. HAVE MemInv
  <2>2. Used \subseteq bits
    BY <2>1, UsedIs DEF Used, MemInv, Owners, PagesSplit, Split
  <2> QED BY <2>1, <2>2, UsesCounted DEF PagesApart, MemInv, Control, Cr3Apart
<1> QED BY <1>1, MemoryInvariant, PTL

\* A page that is allocated is in use, or it was lost where the code drops it.
THEOREM NothingElseLeaks ==
  ASSUME "twice" \notin Mishaps, "nameless" \notin Mishaps
  PROVE  Spec => []NothingElseLost
<1>1. MemInv => NothingElseLost
  BY UsedIs DEF Used, MemInv, Owners, PagesSplit, Split, NothingElseLost
<1> QED BY <1>1, MemoryInvariant, PTL

\* What a running process has mapped stays mapped, whatever others fork, reap or replace.
THEOREM SpacesAreKept ==
  ASSUME "twice" \notin Mishaps, "nameless" \notin Mishaps
  PROVE  Spec => SpaceKept
<1> DEFINE Kept(q) ==
             LET d == task[q].cr3 IN
             d \in Pages /\ task[q].state = "running" /\ task'[q].cr3 = d =>
                \A v \in MappedIn(d) : maps'[d][v] = maps[d][v]
<1>1. ASSUME MemInv, [Next]_vars, NEW q \in Procs PROVE Kept(q)
  <2> DEFINE d == task[q].cr3
  <2>1. SUFFICES ASSUME d \in Pages, task[q].state = "running", NEW v \in MappedIn(d)
                 PROVE  maps'[d][v] = maps[d][v]
    OBVIOUS
  <2>2. v \in Vaddrs /\ maps[d][v] # None /\ maps \in [Pages -> [Vaddrs -> 0 .. LastPage]]
    BY <1>1, <2>1 DEF MappedIn, MemInv, MemoryTypeOK
  <2>3. CASE UNCHANGED maps
    BY <2>3
  <2>4. ASSUME NEW p \in Procs, map_enter(p) PROVE maps'[d][v] = maps[d][v]
    <3>1. /\ ~Present(op[p].dir, Least(op[p].want))
          /\ maps' = [maps EXCEPT ![op[p].dir][Least(op[p].want)] = op[p].held]
      BY <2>4 DEF map_enter
    <3> QED BY <2>1, <2>2, <3>1 DEF Present
  <2>5. ASSUME NEW p \in Procs, op[p].pc \in Destroying,
               \A e \in Pages : e # op[p].dir => maps'[e] = maps[e]
        PROVE  maps'[d][v] = maps[d][v]
    <3>1. d # op[p].dir
      BY <1>1, <2>1, <2>5, OnlyZombies
    <3> QED BY <2>1, <2>5, <3>1
  <2>6. ASSUME NEW p \in Procs, destroy_page(p) \/ destroy_dir(p)
        PROVE  maps'[d][v] = maps[d][v]
    <3>1. op[p].pc \in Destroying
      BY <2>6 DEF destroy_page, destroy_dir
    <3>2. \A e \in Pages : e # op[p].dir => maps'[e] = maps[e]
      BY <2>2, <2>6 DEF destroy_page, destroy_dir
    <3> QED BY <2>5, <3>1, <3>2
  <2>7. ASSUME NEW p \in Procs, Step(p) PROVE maps'[d][v] = maps[d][v]
    <3>1. \/ map_enter(p) \/ destroy_page(p) \/ destroy_dir(p)
          \/ UNCHANGED maps
      BY <2>7 DEF Step, map_page, map_table, fork_alloc, fork_desc, fork_stack, fork_dir,
         fork_failed, fork_copy, fork_start, execve, exec_load, exec_args, sbrk, sbrk_end, exit,
         wait, wait_end
    <3> QED BY <2>3, <2>4, <2>6, <2>7, <3>1
  <2>8. CASE UNCHANGED vars
    BY <2>3, <2>8 DEF vars
  <2> QED BY <1>1, <2>7, <2>8 DEF Next
<1>2. MemInv /\ [Next]_vars => [\A q \in Procs : Kept(q)]_vars
  BY <1>1
<1> QED BY <1>2, MemoryInvariant, PTL DEF Spec, SpaceKept
-----------------------------------------------------------------------------
(* Nothing is mapped where a page is mapped already.                       *)

\* In the space d nothing more is mapped.
Shrinks(d) == \A v \in Vaddrs : maps'[d][v] # None => maps[d][v] # None

\* A process that does not map, and whose task's space and heap are the same.
LEMMA HeapKept ==
  ASSUME NEW q \in Procs, HeapOf(q),
         op'[q] = op[q] \/ (op'[q].pc \notin Mapping /\ op[q].pc # "grow"),
         task'[q].program = task[q].program, task'[q].cr3 = task[q].cr3,
         task'[q].heap = task[q].heap,
         task'[q].state \in {"free", "created"} => task[q].state \in {"free", "created"},
         Shrinks(task[q].cr3),
         op[q].pc \in Mapping => Shrinks(op[q].dir)
  PROVE  HeapOf(q)'
<1>1. MappedIn(task[q].cr3)' \subseteq MappedIn(task[q].cr3)
  BY DEF MappedIn, Shrinks
<1>2. op[q].pc \in Mapping /\ op'[q] = op[q] => MappedIn(op[q].dir)' \subseteq MappedIn(op[q].dir)
  BY DEF MappedIn, Shrinks
<1>3. /\ op'[q].pc \in Mapping => op'[q] = op[q]
      /\ op'[q].pc = "grow" <=> op[q].pc = "grow"
  BY DEF Mapping
<1>4. ProgramWhen(q)'
  BY DEF HeapOf, ProgramWhen
<1>5. HeapRight(q)'
  BY <1>1, <1>3 DEF HeapOf, HeapRight, Below, At
<1>6. WantsNew(q)'
  BY <1>2, <1>3 DEF HeapOf, WantsNew
<1>7. LoadsBelow(q)'
  BY <1>2, <1>3 DEF HeapOf, LoadsBelow, At, Mapping
<1>8. StackLast(q)'
  BY <1>2, <1>3 DEF HeapOf, StackLast, At, Mapping, Below
<1>9. GrowsAbove(q)'
  BY <1>2, <1>3 DEF HeapOf, GrowsAbove, At, Mapping, NewPages, UpPages
<1> QED BY <1>4, <1>5, <1>6, <1>7, <1>8, <1>9 DEF HeapOf

\* A task that has no program, and whose process does not map.
LEMMA HeapEmpty ==
  ASSUME NEW q \in Procs, task'[q].program = None, op'[q].pc \notin Mapping
  PROVE  HeapOf(q)'
<1>1. None \notin Pages
  BY DEF None, Pages
<1> QED BY <1>1 DEF HeapOf, ProgramWhen, HeapRight, WantsNew, LoadsBelow, StackLast, GrowsAbove,
     At, Mapping

\* Steps that leave all mappings as they are.
LEMMA MapsKept ==
  ASSUME UNCHANGED maps
  PROVE  \A d : Shrinks(d) /\ MappedIn(d)' = MappedIn(d)
BY DEF Shrinks, MappedIn

\* Steps that leave mappings and tasks as they are, and of the process either the set op.want or
\* nothing of what it maps.
LEMMA OneCaller ==
  ASSUME HeapInv, NEW p \in Procs, \A q \in Procs : q # p => op'[q] = op[q],
         UNCHANGED <<task, maps>>, HeapOf(p)'
  PROVE  HeapInv'
<1>1. ASSUME NEW q \in Procs, q # p PROVE HeapOf(q)'
  BY <1>1, HeapKept, MapsKept DEF HeapInv
<1> QED BY <1>1 DEF HeapInv

LEMMA map_page_Heap ==
  ASSUME MemInv, HeapInv, NEW p \in Procs, map_page(p)
  PROVE  HeapInv'
<1>1. /\ op[p].pc \in Mapping /\ UNCHANGED <<task, maps>>
      /\ op[p] \in Ops /\ op \in [Procs -> Ops] /\ HeapOf(p)
  BY DEF map_page, MemInv, MemoryTypeOK, HeapInv
<1>2. CASE op' = [op EXCEPT ![p].held = NewPage]
  <2>1. /\ op'[p] = [op[p] EXCEPT !.held = NewPage] /\ \A q \in Procs : q # p => op'[q] = op[q]
    BY <1>1, <1>2
  <2>2. /\ op'[p].pc = op[p].pc /\ op'[p].dir = op[p].dir /\ op'[p].want = op[p].want
        /\ op'[p].end = op[p].end
    BY <1>1, <2>1 DEF Ops
  <2>3. HeapOf(p)'
    BY <1>1, <2>2 DEF HeapOf, ProgramWhen, HeapRight, WantsNew, LoadsBelow, StackLast, GrowsAbove,
       Below, MappedIn, At
  <2> QED BY <1>1, <2>1, <2>3, OneCaller
<1>3. CASE op' = [op EXCEPT ![p] = WithoutPage(@)]
  <2>1. op'[p] = WithoutPage(op[p]) /\ \A q \in Procs : q # p => op'[q] = op[q]
    BY <1>1, <1>3
  <2>2. HeapOf(p)'
    <3>1. CASE At(p, "copy")
      <4>1. op'[p] = [op[p] EXCEPT !.pc = "undo_copy", !.want = {}, !.held = None]
        BY <2>1, <3>1 DEF WithoutPage, Failed, At
      <4>2. op'[p].pc = "undo_copy"
        BY <1>1, <4>1 DEF Ops
      <4>3. op'[p].pc \notin Mapping /\ op[p].pc # "grow"
        BY <3>1, <4>2 DEF Mapping, At
      <4> QED BY <1>1, <4>3, HeapKept, MapsKept
    <3>2. CASE ~At(p, "copy")
      <4>1. op'[p] = [op[p] EXCEPT !.want = {}]
        BY <2>1, <3>2 DEF WithoutPage, At
      <4>2. /\ op'[p].pc = op[p].pc /\ op'[p].dir = op[p].dir /\ op'[p].want = {}
            /\ op'[p].end = op[p].end
        BY <1>1, <4>1 DEF Ops
      <4> QED BY <1>1, <4>2 DEF HeapOf, ProgramWhen, HeapRight, WantsNew, LoadsBelow, StackLast,
              GrowsAbove, Below, MappedIn, At
    <3> QED BY <3>1, <3>2
  <2> QED BY <1>1, <2>1, <2>2, OneCaller
<1> QED BY <1>2, <1>3 DEF map_page

LEMMA map_table_Heap ==
  ASSUME MemInv, HeapInv, NEW p \in Procs, map_table(p), "torn" \notin Mishaps
  PROVE  HeapInv'
<1>1. /\ op[p].pc \in Mapping /\ UNCHANGED <<task, maps>>
      /\ op[p] \in Ops /\ op \in [Procs -> Ops] /\ HeapOf(p)
  BY DEF map_table, MemInv, MemoryTypeOK, HeapInv, Control, Wants
<1>2. CASE UNCHANGED op
  <2>1. HeapOf(p)'
    BY <1>1, <1>2, HeapKept, MapsKept
  <2> QED BY <1>1, <1>2, <2>1, OneCaller
<1>3. CASE op' = [op EXCEPT ![p] = Failed(@)] /\ ~HalfGrown(p)
  <2>1. op'[p] = Failed(op[p]) /\ \A q \in Procs : q # p => op'[q] = op[q]
    BY <1>1, <1>3
  <2>2. op'[p].pc \notin Mapping
    <3>1. CASE At(p, "copy")
      <4>1. op'[p] = [op[p] EXCEPT !.pc = "undo_copy", !.want = {}, !.held = None]
        BY <2>1, <3>1 DEF Failed, At
      <4> QED BY <1>1, <4>1 DEF Ops, Mapping
    <3>2. CASE At(p, "load") \/ At(p, "stack")
      <4>1. op'[p] = [op[p] EXCEPT !.pc = "undo_exec", !.want = {}, !.held = None]
        BY <2>1, <3>2 DEF Failed, At
      <4> QED BY <1>1, <4>1 DEF Ops, Mapping
    <3>3. CASE At(p, "grow")
      BY <2>1, <3>3 DEF Failed, At, User, Mapping
    <3> QED BY <1>1, <3>1, <3>2, <3>3 DEF Mapping, At
  <2>3. HeapOf(p)'
    <3>1. CASE ~At(p, "grow")
      BY <1>1, <2>2, <3>1, HeapKept, MapsKept DEF At
    <3>2. CASE At(p, "grow")
      <4>1. op[p].want = NewPages(task[p].heap, op[p].end) /\ op[p].dir = task[p].cr3
        BY <1>3, <3>2 DEF HalfGrown, MemInv, Control, DirOwn
      <4>2. Below(task[p].cr3, task[p].heap)
        BY <1>1, <3>2, <4>1 DEF HeapOf, GrowsAbove, Below
      <4>3. HeapRight(p)'
        BY <1>1, <4>2 DEF HeapOf, HeapRight, Below, MappedIn
      <4> QED BY <1>1, <2>2, <4>3 DEF HeapOf, ProgramWhen, WantsNew, LoadsBelow, StackLast,
              GrowsAbove, At, Mapping
    <3> QED BY <3>1, <3>2
  <2> QED BY <1>1, <2>1, <2>3, OneCaller
<1> QED BY <1>2, <1>3 DEF map_table

LEMMA map_enter_Heap ==
  ASSUME MemInv, HeapInv, NEW p \in Procs, map_enter(p)
  PROVE  HeapInv'
<1> DEFINE d == op[p].dir
           v == Least(op[p].want)
<1>1. /\ op[p].pc \in Mapping /\ UNCHANGED task /\ op[p].want # {}
      /\ op[p] \in Ops /\ op \in [Procs -> Ops] /\ HeapOf(p)
      /\ maps \in [Pages -> [Vaddrs -> 0 .. LastPage]]
      /\ maps' = [maps EXCEPT ![d][v] = op[p].held]
      /\ op' = [op EXCEPT ![p].want = @ \ {v}, ![p].held = None]
  BY DEF map_enter, MemInv, MemoryTypeOK, HeapInv, Control, Wants
<1>2. v \in op[p].want
  <2>1. op[p].want \in SUBSET Nat
    BY <1>1 DEF Ops
  <2> QED BY <1>1, <2>1, LeastIn
<1> HIDE DEF v
<1>3. d \in Pages
  <2>1. d # None
    BY <1>1 DEF MemInv, Control, DirWhen, Mapping, Building
  <2> QED BY <1>1, <2>1 DEF Ops, Pages, None
<1>4. /\ op'[p].pc = op[p].pc /\ op'[p].dir = d /\ op'[p].want = op[p].want \ {v}
      /\ op'[p].end = op[p].end
      /\ \A q \in Procs : q # p => op'[q] = op[q]
  <2>1. op'[p] = [op[p] EXCEPT !.want = @ \ {v}, !.held = None]
    BY <1>1
  <2> QED BY <1>1, <2>1 DEF Ops
<1>5. \A e : e # d => MappedIn(e)' = MappedIn(e) /\ Shrinks(e)
  <2>1. ASSUME NEW e, e # d PROVE MappedIn(e)' = MappedIn(e) /\ Shrinks(e)
    <3>1. maps'[e] = maps[e]
      BY <1>1, <2>1
    <3> QED BY <3>1 DEF MappedIn, Shrinks
  <2> QED BY <2>1
<1>6. MappedIn(d)' \subseteq MappedIn(d) \cup {v}
  BY <1>1, <1>3 DEF MappedIn
<1>7. ASSUME NEW q \in Procs, q # p PROVE HeapOf(q)'
  <2>1. task[q].cr3 # d
    <3>1. CASE At(p, "grow")
      BY <1>1, <1>3, <1>7, <3>1 DEF MemInv, Control, DirOwn, Cr3Apart
    <3>2. CASE ~At(p, "grow")
      BY <1>1, <3>2 DEF MemInv, Control, DirPrivate, Mapping, Building, At
    <3> QED BY <3>1, <3>2
  <2>2. op[q].pc \in Mapping => op[q].dir # d
    <3>1. CASE At(p, "grow") /\ op[q].pc = "grow"
      BY <2>1, <3>1 DEF MemInv, Control, DirOwn, At
    <3>2. CASE At(p, "grow") /\ op[q].pc \in Mapping /\ op[q].pc # "grow"
      BY <1>7, <3>2 DEF MemInv, Control, DirPrivate, Building, Mapping
    <3>3. CASE ~At(p, "grow")
      BY <1>1, <1>7, <3>3 DEF MemInv, Control, DirPrivate, Building, Mapping, At
    <3> QED BY <3>1, <3>2, <3>3
  <2> QED BY <1>1, <1>4, <1>5, <1>7, <2>1, <2>2, HeapKept DEF HeapInv
<1>8. HeapOf(p)'
  <2>1. ProgramWhen(p)'
    BY <1>1 DEF HeapOf, ProgramWhen
  <2>2. HeapRight(p)'
    <3>1. CASE At(p, "grow")
      BY <1>1, <1>4, <3>1 DEF HeapOf, HeapRight, At
    <3>2. CASE ~At(p, "grow")
      <4>1. task[p].cr3 # d
        BY <1>1, <3>2 DEF MemInv, Control, DirPrivate, Mapping, Building, At
      <4>2. MappedIn(task[p].cr3)' = MappedIn(task[p].cr3)
        BY <1>1, <1>5, <4>1
      <4> QED BY <1>1, <1>4, <4>2 DEF HeapOf, HeapRight, Below, At
    <3> QED BY <3>1, <3>2
  <2>3. MappedIn(op[p].dir)' \subseteq MappedIn(d) \cup {v}
    BY <1>4, <1>6
  <2>4. WantsNew(p)'
    BY <1>1, <1>4, <2>3 DEF HeapOf, WantsNew
  <2>5. LoadsBelow(p)'
    BY <1>1, <1>2, <1>4, <2>3 DEF HeapOf, LoadsBelow, At
  <2>6. StackLast(p)'
    BY <1>1, <1>2, <1>4, <2>3 DEF HeapOf, StackLast, Below, At
  <2>7. GrowsAbove(p)'
    BY <1>1, <1>2, <1>4, <2>3 DEF HeapOf, GrowsAbove, At
  <2> QED BY <2>1, <2>2, <2>4, <2>5, <2>6, <2>7 DEF HeapOf
<1> QED BY <1>7, <1>8 DEF HeapInv

\* A process that is not mapping.
LEMMA HeapIdle ==
  ASSUME NEW q \in Procs, op'[q].pc \notin Mapping, ProgramWhen(q)', HeapRight(q)'
  PROVE  HeapOf(q)'
BY DEF HeapOf, WantsNew, LoadsBelow, StackLast, GrowsAbove, At, Mapping

LEMMA destroy_page_Heap ==
  ASSUME MemInv, HeapInv, NEW p \in Procs, destroy_page(p)
  PROVE  HeapInv'
<1>1. UNCHANGED <<task, op>> /\ maps \in [Pages -> [Vaddrs -> 0 .. LastPage]]
  BY DEF destroy_page, MemInv, MemoryTypeOK
<1>2. \/ maps' = maps
      \/ \E d, v : maps' = [maps EXCEPT ![d][v] = None]
  BY DEF destroy_page
<1>3. ASSUME NEW q \in Procs PROVE Shrinks(task[q].cr3) /\ (op[q].pc \in Mapping => Shrinks(op[q].dir))
  <2>1. CASE maps' = maps
    BY <2>1 DEF Shrinks
  <2>2. ASSUME NEW d, NEW v, maps' = [maps EXCEPT ![d][v] = None], NEW e \in Pages
        PROVE  Shrinks(e)
    BY <1>1, <2>2 DEF Shrinks
  <2>3. ASSUME NEW d, NEW v, maps' = [maps EXCEPT ![d][v] = None], NEW e, e \notin Pages
        PROVE  Shrinks(e)
    <3>1. maps'[e] = maps[e]
      BY <1>1, <2>3
    <3> QED BY <3>1 DEF Shrinks
  <2> QED BY <1>2, <2>1, <2>2, <2>3
<1> QED BY <1>1, <1>3, HeapKept DEF HeapInv

LEMMA destroy_dir_Heap ==
  ASSUME MemInv, HeapInv, NEW p \in Procs, destroy_dir(p)
  PROVE  HeapInv'
<1> DEFINE d == op[p].dir
           c == op[p].child
<1>1. /\ op[p].pc \in Destroying /\ maps' = [maps EXCEPT ![d] = [v \in Vaddrs |-> None]]
      /\ op' = [op EXCEPT ![p] = Destroyed(@)]
      /\ task' = IF At(p, "reap") THEN [task EXCEPT ![c].cr3 = None] ELSE task
      /\ op[p] \in Ops /\ op \in [Procs -> Ops] /\ task \in [Procs -> TaskTs]
      /\ maps \in [Pages -> [Vaddrs -> 0 .. LastPage]] /\ Control
  BY DEF destroy_dir, MemInv, MemoryTypeOK
<1>2. d \in Pages
  <2>1. d # None
    BY <1>1 DEF Control, DirWhen, Destroying, Building
  <2> QED BY <1>1, <2>1 DEF Ops, Pages, None
<1>3. \A e \in Pages : Shrinks(e)
  BY <1>1, <1>2 DEF Shrinks, None
<1>4. \A e : e \notin Pages => Shrinks(e)
  <2>1. ASSUME NEW e, e \notin Pages PROVE Shrinks(e)
    <3>1. maps'[e] = maps[e]
      BY <1>1, <1>2, <2>1
    <3> QED BY <3>1 DEF Shrinks
  <2> QED BY <2>1
<1>5. op'[p].pc \notin Mapping /\ \A q \in Procs : q # p => op'[q] = op[q]
  <2>1. op'[p] = Destroyed(op[p]) /\ \A q \in Procs : q # p => op'[q] = op[q]
    BY <1>1
  <2>2. CASE At(p, "undo_copy")
    <3>1. op'[p] = [op[p] EXCEPT !.pc = "copy_failed", !.dir = None]
      BY <2>1, <2>2 DEF Destroyed, At
    <3> QED BY <1>1, <2>1, <3>1 DEF Ops, Mapping
  <2>3. CASE At(p, "reap")
    <3>1. op'[p] = [op[p] EXCEPT !.pc = "reap_stack", !.dir = None]
      BY <2>1, <2>3 DEF Destroyed, At
    <3> QED BY <1>1, <2>1, <3>1 DEF Ops, Mapping
  <2>4. CASE ~At(p, "undo_copy") /\ ~At(p, "reap")
    BY <2>1, <2>4 DEF Destroyed, At, User, Mapping
  <2> QED BY <2>2, <2>3, <2>4
<1>6. op[p].pc # "grow"
  BY <1>1 DEF Destroying
<1>7. ASSUME NEW q \in Procs, task'[q] = task[q] PROVE HeapOf(q)'
  BY <1>3, <1>4, <1>5, <1>6, <1>7, HeapKept DEF HeapInv
<1>8. CASE At(p, "reap")
  <2>1. c \in Procs /\ task[c].state = "zombie"
    BY <1>1, <1>8 DEF Control, ChildAsZombie, At, Reaping, Slots
  <2>2. c # p /\ At(c, "user")
    BY <1>1, <1>8, <2>1 DEF Control, CallersRun, At
  <2>3. task'[c] = [task[c] EXCEPT !.cr3 = None] /\ \A q \in Procs : q # c => task'[q] = task[q]
    BY <1>1, <1>8, <2>1
  <2>4. task'[c].cr3 = None /\ task'[c].state = "zombie"
    BY <1>1, <2>1, <2>3 DEF TaskTs
  <2>5. ASSUME NEW q \in Procs, q = c PROVE HeapOf(q)'
    <3>1. op'[q].pc \notin Mapping
      BY <1>5, <2>2, <2>5 DEF At, Mapping
    <3>2. ProgramWhen(q)'
      BY <2>4, <2>5 DEF ProgramWhen
    <3>3. HeapRight(q)'
      BY <2>4, <2>5 DEF HeapRight, None, Pages
    <3> QED BY <3>1, <3>2, <3>3, HeapIdle
  <2> QED BY <1>7, <2>3, <2>5 DEF HeapInv
<1>9. CASE ~At(p, "reap")
  BY <1>1, <1>7, <1>9 DEF HeapInv
<1> QED BY <1>8, <1>9

\* The steps of a fork that only change the calling process, and perhaps a task's parent or
\* stack.
LEMMA ForkKept ==
  ASSUME HeapInv, NEW p \in Procs, \A q \in Procs : q # p => op'[q] = op[q],
         op'[p].pc \notin Mapping, op[p].pc # "grow", UNCHANGED maps,
         \A q \in Procs : /\ task'[q].program = task[q].program /\ task'[q].heap = task[q].heap
                          /\ task'[q].cr3 = task[q].cr3 /\ task'[q].state = task[q].state
  PROVE  HeapInv'
BY MapsKept, HeapKept DEF HeapInv

LEMMA fork_alloc_Heap ==
  ASSUME MemInv, HeapInv, NEW p \in Procs, fork_alloc(p)
  PROVE  HeapInv'
<1>1. PICK c \in Slots : op' = [op EXCEPT ![p] = [User EXCEPT !.pc = "fork_desc", !.child = c]]
  BY DEF fork_alloc
<1>2. /\ op \in [Procs -> Ops] /\ UNCHANGED <<task, maps>> /\ At(p, "user")
  BY DEF fork_alloc, MemInv, MemoryTypeOK, Calls
<1>3. /\ op'[p] = [User EXCEPT !.pc = "fork_desc", !.child = c]
      /\ \A q \in Procs : q # p => op'[q] = op[q]
  BY <1>1, <1>2
<1>4. op'[p].pc = "fork_desc"
  BY <1>3 DEF User
<1> QED BY <1>2, <1>3, <1>4, ForkKept DEF At, Mapping

LEMMA fork_desc_Heap ==
  ASSUME MemInv, HeapInv, NEW p \in Procs, fork_desc(p)
  PROVE  HeapInv'
<1>1. /\ op \in [Procs -> Ops] /\ op[p] \in Ops /\ UNCHANGED <<task, maps>> /\ At(p, "fork_desc")
  BY DEF fork_desc, MemInv, MemoryTypeOK
<1>2. \/ op' = [op EXCEPT ![p].pc = "fork_failed"]
      \/ \E s : op' = [op EXCEPT ![p].pc = "fork_stack", ![p].sel = s]
  BY DEF fork_desc, Goto
<1>3. /\ op'[p].pc \in {"fork_failed", "fork_stack"}
      /\ \A q \in Procs : q # p => op'[q] = op[q]
  <2>1. CASE op' = [op EXCEPT ![p].pc = "fork_failed"]
    <3>1. op'[p] = [op[p] EXCEPT !.pc = "fork_failed"]
      BY <1>1, <2>1
    <3> QED BY <1>1, <2>1, <3>1 DEF Ops
  <2>2. ASSUME NEW s, op' = [op EXCEPT ![p].pc = "fork_stack", ![p].sel = s]
        PROVE  op'[p].pc = "fork_stack" /\ \A q \in Procs : q # p => op'[q] = op[q]
    <3>1. op'[p] = [op[p] EXCEPT !.pc = "fork_stack", !.sel = s]
      BY <1>1, <2>2
    <3> QED BY <1>1, <2>2, <3>1 DEF Ops
  <2> QED BY <1>2, <2>1, <2>2
<1> QED BY <1>1, <1>3, ForkKept DEF At, Mapping

LEMMA fork_stack_Heap ==
  ASSUME MemInv, HeapInv, NEW p \in Procs, fork_stack(p)
  PROVE  HeapInv'
<1> DEFINE c == op[p].child
<1>1. /\ op \in [Procs -> Ops] /\ op[p] \in Ops /\ UNCHANGED maps /\ At(p, "fork_stack")
      /\ task \in [Procs -> TaskTs]
  BY DEF fork_stack, MemInv, MemoryTypeOK
<1>2. PICK x \in {"fork_dir", "fork_failed"} : op' = [op EXCEPT ![p].pc = x]
  BY DEF fork_stack, Goto
<1>3. op'[p].pc = x /\ \A q \in Procs : q # p => op'[q] = op[q]
  <2>1. op'[p] = [op[p] EXCEPT !.pc = x] /\ \A q \in Procs : q # p => op'[q] = op[q]
    BY <1>1, <1>2
  <2> QED BY <1>1, <2>1 DEF Ops
<1>4. ASSUME NEW q \in Procs
      PROVE  /\ task'[q].program = task[q].program /\ task'[q].heap = task[q].heap
             /\ task'[q].cr3 = task[q].cr3 /\ task'[q].state = task[q].state
  <2>1. CASE task' = task
    BY <2>1
  <2>2. CASE task' = [task EXCEPT ![c].esp0 = NewPage] /\ q = c
    <3>1. task'[q] = [task[q] EXCEPT !.esp0 = NewPage]
      BY <1>1, <2>2
    <3> QED BY <1>1, <3>1 DEF TaskTs
  <2>3. CASE task' = [task EXCEPT ![c].esp0 = NewPage] /\ q # c
    BY <1>1, <2>3
  <2> QED BY <2>1, <2>2, <2>3 DEF fork_stack
<1> QED BY <1>1, <1>3, <1>4, ForkKept DEF At, Mapping

\* A task without a program changes, or one is left without.
LEMMA ChildEmpty ==
  ASSUME MemInv, HeapInv, NEW p \in Procs, NEW c \in Procs, task[c].state # "running",
         task'[c].program = None, \A q \in Procs : q # c => task'[q] = task[q],
         \A q \in Procs : q # p => op'[q] = op[q], ~At(p, "user"), ~At(p, "grow"),
         op'[p].pc \notin Mapping, UNCHANGED maps
  PROVE  HeapInv'
<1>1. At(c, "user") /\ c # p
  BY DEF MemInv, Control, CallersRun, At
<1>2. ASSUME NEW q \in Procs, q = c PROVE HeapOf(q)'
  BY <1>1, <1>2, HeapEmpty DEF At, Mapping
<1>3. ASSUME NEW q \in Procs, q # c PROVE HeapOf(q)'
  BY <1>3, MapsKept, HeapKept DEF HeapInv, At
<1> QED BY <1>2, <1>3 DEF HeapInv

LEMMA fork_dir_Heap ==
  ASSUME MemInv, HeapInv, NEW p \in Procs, fork_dir(p)
  PROVE  HeapInv'
<1>1. /\ op \in [Procs -> Ops] /\ op[p] \in Ops /\ UNCHANGED maps /\ At(p, "fork_dir")
      /\ task \in [Procs -> TaskTs] /\ op[p].pc \in Forking
  BY DEF fork_dir, MemInv, MemoryTypeOK, Forking, At
<1>2. PICK x \in {"fork_copy", "fork_failed"} : op' = [op EXCEPT ![p].pc = x]
  BY DEF fork_dir, Goto
<1>3. op'[p].pc = x /\ \A q \in Procs : q # p => op'[q] = op[q]
  <2>1. op'[p] = [op[p] EXCEPT !.pc = x] /\ \A q \in Procs : q # p => op'[q] = op[q]
    BY <1>1, <1>2
  <2> QED BY <1>1, <2>1 DEF Ops
<1>4. PICK c \in Procs : c = op[p].child /\ task[c].state = "free"
  BY <1>1, ForkFacts
<1>5. task[c].program = None
  BY <1>4 DEF HeapInv, HeapOf, ProgramWhen
<1>6. task'[c].program = None /\ \A q \in Procs : q # c => task'[q] = task[q]
  <2>1. CASE task' = task
    BY <1>5, <2>1
  <2>2. CASE task' = [task EXCEPT ![c].cr3 = NewPage, ![c].sel = op[p].sel,
                                  ![c].named = task[p].named, ![c].state = "created"]
    <3>1. /\ task'[c] = [task[c] EXCEPT !.cr3 = NewPage, !.sel = op[p].sel,
                                        !.named = task[p].named, !.state = "created"]
          /\ \A q \in Procs : q # c => task'[q] = task[q]
      BY <1>1, <2>2
    <3>2. task[c] \in TaskTs
      BY <1>1
    <3> QED BY <1>5, <3>1, <3>2 DEF TaskTs
  <2> QED BY <1>4, <2>1, <2>2 DEF fork_dir
<1> QED BY <1>1, <1>3, <1>4, <1>6, ChildEmpty DEF At, Mapping

LEMMA fork_failed_Heap ==
  ASSUME MemInv, HeapInv, NEW p \in Procs, fork_failed(p)
  PROVE  HeapInv'
<1>1. /\ op \in [Procs -> Ops] /\ UNCHANGED maps /\ At(p, "fork_failed")
      /\ task \in [Procs -> TaskTs] /\ op[p].pc \in Forking
      /\ task' = [task EXCEPT ![op[p].child] = Blank] /\ op' = [op EXCEPT ![p] = User]
  BY DEF fork_failed, MemInv, MemoryTypeOK, Forking, At
<1>2. op'[p].pc = "user" /\ \A q \in Procs : q # p => op'[q] = op[q]
  BY <1>1 DEF User
<1>3. PICK c \in Procs : c = op[p].child /\ task[c].state = "free"
  BY <1>1, ForkFacts
<1>4. task'[c].program = None /\ \A q \in Procs : q # c => task'[q] = task[q]
  BY <1>1, <1>3 DEF Blank
<1> QED BY <1>1, <1>2, <1>3, <1>4, ChildEmpty DEF At, Mapping

LEMMA fork_start_Heap ==
  ASSUME MemInv, HeapInv, NEW p \in Procs, fork_start(p)
  PROVE  HeapInv'
<1>1. /\ op \in [Procs -> Ops] /\ UNCHANGED maps
      /\ task \in [Procs -> TaskTs] /\ op[p].pc \in {"copy", "copy_failed"}
      /\ op' = [op EXCEPT ![p] = User]
      /\ \E x : task' = [task EXCEPT ![op[p].child].cr3 = x, ![op[p].child].state = "running"]
  BY DEF fork_start, Replace, Mapped, MemInv, MemoryTypeOK, At
<1>2. op'[p].pc = "user" /\ \A q \in Procs : q # p => op'[q] = op[q]
  BY <1>1 DEF User
<1>3. PICK c \in Procs : c = op[p].child /\ task[c].state = "created"
  BY <1>1 DEF MemInv, Control, ChildAsCopy, Copying, Slots
<1>4. task[c].program = None
  BY <1>3 DEF HeapInv, HeapOf, ProgramWhen
<1>5. PICK x : task' = [task EXCEPT ![c].cr3 = x, ![c].state = "running"]
  BY <1>1, <1>3
<1>6. task'[c].program = None /\ \A q \in Procs : q # c => task'[q] = task[q]
  <2>1. /\ task'[c] = [task[c] EXCEPT !.cr3 = x, !.state = "running"]
        /\ \A q \in Procs : q # c => task'[q] = task[q]
    BY <1>1, <1>5
  <2>2. task[c] \in TaskTs
    BY <1>1
  <2> QED BY <1>4, <2>1, <2>2 DEF TaskTs
<1> QED BY <1>1, <1>2, <1>3, <1>6, ChildEmpty DEF At, Mapping

LEMMA wait_end_Heap ==
  ASSUME MemInv, HeapInv, NEW p \in Procs, wait_end(p)
  PROVE  HeapInv'
<1>1. /\ op \in [Procs -> Ops] /\ UNCHANGED maps /\ At(p, "reap_stack")
      /\ task \in [Procs -> TaskTs]
      /\ task' = [task EXCEPT ![op[p].child] = Blank] /\ op' = [op EXCEPT ![p] = User]
  BY DEF wait_end, MemInv, MemoryTypeOK, At
<1>2. op'[p].pc = "user" /\ \A q \in Procs : q # p => op'[q] = op[q]
  BY <1>1 DEF User
<1>3. PICK c \in Procs : c = op[p].child /\ task[c].state = "zombie"
  BY <1>1 DEF MemInv, Control, ChildAsZombie, Reaping, Slots, At
<1>4. task'[c].program = None /\ \A q \in Procs : q # c => task'[q] = task[q]
  BY <1>1, <1>3 DEF Blank
<1> QED BY <1>1, <1>2, <1>3, <1>4, ChildEmpty DEF At, Mapping

LEMMA wait_Heap ==
  ASSUME MemInv, HeapInv, NEW p \in Procs, wait(p)
  PROVE  HeapInv'
<1>1. /\ op \in [Procs -> Ops] /\ UNCHANGED <<task, maps>> /\ At(p, "user")
  BY DEF wait, Calls, MemInv, MemoryTypeOK
<1>2. PICK c, d : op' = [op EXCEPT ![p] = [User EXCEPT !.pc = "reap", !.child = c, !.dir = d]]
  BY DEF wait
<1>3. /\ op'[p] = [User EXCEPT !.pc = "reap", !.child = c, !.dir = d]
      /\ \A q \in Procs : q # p => op'[q] = op[q]
  BY <1>1, <1>2
<1>4. op'[p].pc = "reap"
  BY <1>3 DEF User
<1> QED BY <1>1, <1>3, <1>4, ForkKept DEF At, Mapping

LEMMA exit_Heap ==
  ASSUME MemInv, HeapInv, NEW p \in Procs, exit(p)
  PROVE  HeapInv'
<1>1. UNCHANGED <<op, maps>> /\ task[p].state = "running" /\ task \in [Procs -> TaskTs]
  BY DEF exit, Calls, MemInv, MemoryTypeOK
<1>2. ASSUME NEW q \in Procs PROVE HeapOf(q)'
  <2>1. \/ task'[q] = [task[q] EXCEPT !.state = "zombie"]
        \/ task'[q] = [task[q] EXCEPT !.parent = First]
        \/ task'[q] = task[q]
    BY DEF exit
  <2>2. /\ task'[q].program = task[q].program /\ task'[q].heap = task[q].heap
        /\ task'[q].cr3 = task[q].cr3
        /\ task'[q].state \in {task[q].state, "zombie"}
    <3>1. task[q] \in TaskTs
      BY <1>1
    <3> QED BY <2>1, <3>1 DEF TaskTs
  <2> QED BY <1>1, <2>2, MapsKept, HeapKept DEF HeapInv
<1> QED BY <1>2 DEF HeapInv

\* Steps that leave mappings and the tasks of the others as they are, but for their parents.
LEMMA CallerHeap ==
  ASSUME HeapInv, NEW p \in Procs, \A q \in Procs : q # p => op'[q] = op[q],
         \A q \in Procs : q # p =>
            /\ task'[q].program = task[q].program /\ task'[q].heap = task[q].heap
            /\ task'[q].cr3 = task[q].cr3 /\ task'[q].state = task[q].state,
         UNCHANGED maps, HeapOf(p)'
  PROVE  HeapInv'
<1>1. ASSUME NEW q \in Procs, q # p PROVE HeapOf(q)'
  BY <1>1, HeapKept, MapsKept DEF HeapInv
<1> QED BY <1>1 DEF HeapInv

\* In a page that was free nothing is mapped.
LEMMA FreshIsClear ==
  ASSUME MemInv, ~Shortage
  PROVE  /\ NewPage \in Pages /\ MappedIn(NewPage) = {}
         /\ \A q \in Procs : task[q].cr3 # NewPage
<1>1. NewPage \in Pages \ bits
  BY FreshPage DEF MemInv, MemoryTypeOK
<1>2. NewPage \notin Spaces
  BY <1>1 DEF MemInv, Owners, PagesSplit, Split
<1>3. Clear(NewPage)
  BY <1>1, <1>2 DEF MemInv, Owners, ClearElsewhere
<1> QED BY <1>1, <1>2, <1>3 DEF Clear, MappedIn, Spaces, Pages, None, Bad

LEMMA fork_copy_Heap ==
  ASSUME MemInv, HeapInv, NEW p \in Procs, fork_copy(p)
  PROVE  HeapInv'
<1> DEFINE c == op[p].child
<1>1. /\ op \in [Procs -> Ops] /\ op[p] \in Ops /\ UNCHANGED maps /\ At(p, "fork_copy")
      /\ task \in [Procs -> TaskTs] /\ task' = [task EXCEPT ![c].parent = p]
  BY DEF fork_copy, MemInv, MemoryTypeOK
<1>2. ASSUME NEW q \in Procs
      PROVE  /\ task'[q].program = task[q].program /\ task'[q].heap = task[q].heap
             /\ task'[q].cr3 = task[q].cr3 /\ task'[q].state = task[q].state
  <2>1. CASE q = c
    <3>1. task'[q] = [task[q] EXCEPT !.parent = p]
      BY <1>1, <2>1
    <3> QED BY <1>1, <3>1 DEF TaskTs
  <2>2. CASE q # c
    BY <1>1, <2>2
  <2> QED BY <2>1, <2>2
<1>3. CASE op' = [op EXCEPT ![p].pc = "copy_failed"]
  <2>1. op'[p] = [op[p] EXCEPT !.pc = "copy_failed"] /\ \A q \in Procs : q # p => op'[q] = op[q]
    BY <1>1, <1>3
  <2>2. op'[p].pc = "copy_failed"
    BY <1>1, <2>1 DEF Ops
  <2> QED BY <1>1, <1>2, <2>1, <2>2, ForkKept DEF At, Mapping
<1>4. CASE /\ ~Shortage
           /\ op' = [op EXCEPT ![p].pc = "copy", ![p].dir = NewPage,
                               ![p].want = MappedIn(task[p].cr3)]
  <2>1. /\ op'[p] = [op[p] EXCEPT !.pc = "copy", !.dir = NewPage, !.want = MappedIn(task[p].cr3)]
        /\ \A q \in Procs : q # p => op'[q] = op[q]
    BY <1>1, <1>4
  <2>2. op'[p].pc = "copy" /\ op'[p].dir = NewPage /\ op'[p].want = MappedIn(task[p].cr3)
    BY <1>1, <2>1 DEF Ops
  <2>3. \A v \in Vaddrs : maps'[op'[p].dir][v] = None
    BY <1>1, <1>4, <2>2, FreshIsClear DEF MappedIn
  <2>4. ProgramWhen(p)' /\ HeapRight(p)'
    BY <1>1, <1>2, <2>2 DEF HeapInv, HeapOf, ProgramWhen, HeapRight, Below, MappedIn, At
  <2>5. WantsNew(p)'
    <3>1. MappedIn(task[p].cr3) \subseteq Vaddrs
      BY DEF MappedIn
    <3> QED BY <2>2, <2>3, <3>1 DEF WantsNew, MappedIn
  <2>6. HeapOf(p)'
    BY <2>2, <2>4, <2>5 DEF HeapOf, LoadsBelow, StackLast, GrowsAbove, At
  <2> QED BY <1>1, <1>2, <2>1, <2>6, CallerHeap
<1> QED BY <1>3, <1>4 DEF fork_copy, Goto

\* What is left of an execve that failed.
LEMMA ExecFails ==
  ASSUME NEW o \in Ops, o.pc \in {"load", "stack"}
  PROVE  Failed(o).pc = "undo_exec"
<1>1. Failed(o) = [o EXCEPT !.pc = "undo_exec", !.want = {}, !.held = None]
  BY DEF Failed
<1> QED BY <1>1 DEF Ops

LEMMA execve_Heap ==
  ASSUME MemInv, HeapInv, NEW p \in Procs, Execs(p)
  PROVE  HeapInv'
<1>1. /\ op \in [Procs -> Ops] /\ op[p] \in Ops /\ UNCHANGED <<task, maps>> /\ At(p, "user")
      /\ ~Shortage /\ HeapOf(p)
  BY DEF Execs, Calls, MemInv, MemoryTypeOK, HeapInv
<1>2. PICK size \in Images :
        LET o == [User EXCEPT !.pc = "load", !.dir = NewPage,
                              !.want = UserBase .. UserBase + UpPages(size) - 1,
                              !.end = UserBase * PageUnits + size]
        IN op' = [op EXCEPT ![p] = o] \/ op' = [op EXCEPT ![p] = Failed(o)]
  BY DEF Execs
<1> DEFINE w == UserBase .. UserBase + UpPages(size) - 1
           e == UserBase * PageUnits + size
<1>3. PICK o : /\ o = [User EXCEPT !.pc = "load", !.dir = NewPage, !.want = w, !.end = e]
               /\ op' = [op EXCEPT ![p] = o] \/ op' = [op EXCEPT ![p] = Failed(o)]
  BY <1>2
<1>4. /\ size \in Nat /\ UserBase \in Nat /\ PageUnits \in Nat \ {0} /\ StackV \in Nat
      /\ LastV \in Nat /\ StackV <= LastV /\ size <= (StackV - UserBase) * PageUnits
      /\ UpPages(size) \in Nat /\ e \in Nat
  <2>1. /\ size \in Nat /\ UserBase \in Nat /\ PageUnits \in Nat \ {0} /\ StackV \in Nat
        /\ LastV \in Nat /\ StackV <= LastV /\ size <= (StackV - UserBase) * PageUnits
    BY MemoryAssumption
  <2> QED BY <2>1, RoundsUp
<1>5. e >= UserBase * PageUnits /\ e <= StackV * PageUnits
  BY <1>4
<1>6. UpPages(e) \in Nat /\ UpPages(e) <= StackV
  BY <1>4, <1>5, RoundsUp
<1>7. UserBase + UpPages(size) <= UpPages(e)
  BY <1>4, RoundsUpBehind
<1>8. \A v \in w : v < UpPages(e) /\ v \in Vaddrs
  BY <1>4, <1>6, <1>7 DEF Vaddrs
<1> HIDE DEF w, e
<1>9. /\ \A q \in Procs : q # p => op'[q] = op[q]
      /\ op'[p] = o \/ op'[p] = Failed(o)
  BY <1>1, <1>3
<1>10. o = [pc |-> "load", child |-> NoProc, sel |-> None, dir |-> NewPage, want |-> w,
            held |-> None, end |-> e]
  BY <1>3 DEF User
<1>11. \A v \in Vaddrs : maps'[NewPage][v] = None
  BY <1>1, FreshIsClear DEF MappedIn
<1>12. CASE op'[p] = o
  <2>1. op'[p].pc = "load" /\ op'[p].dir = NewPage /\ op'[p].want = w /\ op'[p].end = e
    BY <1>10, <1>12
  <2>2. ProgramWhen(p)' /\ HeapRight(p)'
    BY <1>1, <2>1 DEF HeapOf, ProgramWhen, HeapRight, Below, MappedIn, At
  <2>3. WantsNew(p)'
    BY <1>8, <1>11, <2>1 DEF WantsNew, MappedIn
  <2>4. LoadsBelow(p)'
    BY <1>5, <1>6, <1>8, <1>11, <2>1 DEF LoadsBelow, MappedIn, UpPages
  <2>5. HeapOf(p)'
    BY <2>1, <2>2, <2>3, <2>4 DEF HeapOf, StackLast, GrowsAbove, At
  <2> QED BY <1>1, <1>9, <2>5, CallerHeap
<1>13. CASE op'[p] = Failed(o)
  <2>1. op'[p] = [o EXCEPT !.pc = "undo_exec", !.want = {}, !.held = None]
    <3>1. o.pc = "load"
      BY <1>10
    <3> QED BY <1>13, <3>1 DEF Failed
  <2>2. op'[p].pc = "undo_exec"
    BY <1>10, <2>1
  <2> QED BY <1>1, <1>9, <2>2, ForkKept DEF At, Mapping
<1> QED BY <1>9, <1>12, <1>13

LEMMA exec_load_Heap ==
  ASSUME MemInv, HeapInv, NEW p \in Procs, exec_load(p)
  PROVE  HeapInv'
<1> DEFINE d == op[p].dir
           e == op[p].end
<1>1. /\ op \in [Procs -> Ops] /\ op[p] \in Ops /\ UNCHANGED maps /\ At(p, "load")
      /\ task \in [Procs -> TaskTs] /\ task[p] \in TaskTs /\ HeapOf(p)
      /\ task' = [task EXCEPT ![p].heap = e, ![p].program = d]
  BY DEF exec_load, Mapped, MemInv, MemoryTypeOK, HeapInv
<1>2. task[p].state = "running" /\ task[p].cr3 # d
  BY <1>1 DEF MemInv, Control, CallersRun, DirPrivate, Building, At
<1>3. /\ e >= UserBase * PageUnits /\ UpPages(e) <= StackV /\ UpPages(e) \in Nat
      /\ \A v \in MappedIn(d) : v < UpPages(e)
  <2>1. e \in Nat
    BY <1>1 DEF Ops
  <2> QED BY <1>1, <2>1, RoundsUp DEF HeapOf, LoadsBelow
<1>4. /\ task'[p] = [task[p] EXCEPT !.heap = e, !.program = d]
      /\ \A q \in Procs : q # p => task'[q] = task[q]
  BY <1>1
<1>5. /\ task'[p].state = "running" /\ task'[p].heap = e /\ task'[p].program = d
      /\ task'[p].cr3 = task[p].cr3
  BY <1>1, <1>2, <1>4 DEF TaskTs
<1>6. ProgramWhen(p)' /\ HeapRight(p)'
  BY <1>2, <1>5 DEF ProgramWhen, HeapRight
<1>7. CASE op' = [op EXCEPT ![p].pc = "stack", ![p].want = {StackV}]
  <2>1. /\ op'[p] = [op[p] EXCEPT !.pc = "stack", !.want = {StackV}]
        /\ \A q \in Procs : q # p => op'[q] = op[q]
    BY <1>1, <1>7
  <2>2. op'[p].pc = "stack" /\ op'[p].want = {StackV} /\ op'[p].dir = d
    BY <1>1, <2>1 DEF Ops
  <2>3. StackV \in Vaddrs /\ StackV \in Nat
    BY MemoryAssumption DEF Vaddrs
  <2>4. StackV \notin MappedIn(d)
    BY <1>3, <2>3
  <2>5. MappedIn(d) = {v \in Vaddrs : maps'[d][v] # None}
    BY <1>1 DEF MappedIn
  <2> HIDE DEF d, e
  <2>6. WantsNew(p)'
    BY <2>2, <2>3, <2>4, <2>5 DEF WantsNew, MappedIn
  <2>7. StackLast(p)'
    BY <1>3, <1>5, <2>2, <2>5 DEF StackLast, Below, MappedIn, UpPages
  <2>8. HeapOf(p)'
    BY <1>6, <2>2, <2>6, <2>7 DEF HeapOf, LoadsBelow, GrowsAbove, At
  <2> QED BY <1>1, <1>4, <2>1, <2>8, CallerHeap
<1>8. CASE op' = [op EXCEPT ![p] = Failed(@)]
  <2>1. op'[p] = Failed(op[p]) /\ \A q \in Procs : q # p => op'[q] = op[q]
    BY <1>1, <1>8
  <2>2. op'[p].pc = "undo_exec"
    BY <1>1, <2>1, ExecFails DEF At
  <2>3. HeapOf(p)'
    BY <1>6, <2>2, HeapIdle DEF Mapping
  <2> QED BY <1>1, <1>4, <2>1, <2>3, CallerHeap
<1> QED BY <1>7, <1>8 DEF exec_load

LEMMA exec_args_Heap ==
  ASSUME MemInv, HeapInv, NEW p \in Procs, exec_args(p)
  PROVE  HeapInv'
<1> DEFINE d == op[p].dir
<1>1. /\ op \in [Procs -> Ops] /\ op[p] \in Ops /\ UNCHANGED maps /\ At(p, "stack")
      /\ task \in [Procs -> TaskTs] /\ task[p] \in TaskTs /\ HeapOf(p)
  BY DEF exec_args, Mapped, MemInv, MemoryTypeOK, HeapInv
<1>2. CASE /\ task' = [task EXCEPT ![p].cr3 = d]
           /\ op' = [op EXCEPT ![p].pc = "drop_old", ![p].dir = task[p].cr3]
  <2>1. /\ op'[p] = [op[p] EXCEPT !.pc = "drop_old", !.dir = task[p].cr3]
        /\ \A q \in Procs : q # p => op'[q] = op[q]
        /\ task'[p] = [task[p] EXCEPT !.cr3 = d]
        /\ \A q \in Procs : q # p => task'[q] = task[q]
    BY <1>1, <1>2
  <2>2. op'[p].pc = "drop_old"
    BY <1>1, <2>1 DEF Ops
  <2>3. /\ task'[p].state = task[p].state /\ task'[p].heap = task[p].heap
        /\ task'[p].program = task[p].program /\ task'[p].cr3 = d
    BY <1>1, <2>1 DEF TaskTs
  <2>4. ProgramWhen(p)'
    BY <1>1, <2>3 DEF HeapOf, ProgramWhen
  <2>5. HeapRight(p)'
    BY <1>1, <2>3 DEF HeapOf, StackLast, HeapRight, Below, MappedIn, UpPages
  <2>6. HeapOf(p)'
    BY <2>2, <2>4, <2>5, HeapIdle DEF Mapping
  <2> QED BY <1>1, <2>1, <2>6, CallerHeap
<1>3. CASE op' = [op EXCEPT ![p] = Failed(@)] /\ UNCHANGED task
  <2>1. op'[p] = Failed(op[p]) /\ \A q \in Procs : q # p => op'[q] = op[q]
    BY <1>1, <1>3
  <2>2. op'[p].pc = "undo_exec"
    BY <1>1, <2>1, ExecFails DEF At
  <2> QED BY <1>1, <1>3, <2>1, <2>2, ForkKept DEF Mapping, At
<1> QED BY <1>2, <1>3 DEF exec_args

LEMMA sbrk_Heap ==
  ASSUME MemInv, HeapInv, NEW p \in Procs, NEW incr \in Increments, sbrk(p, incr),
         "stray" \notin Mishaps
  PROVE  HeapInv'
<1> DEFINE start == task[p].heap
           end == start + incr
<1>1. /\ op \in [Procs -> Ops] /\ op[p] \in Ops /\ UNCHANGED maps /\ Calls(p)
      /\ task \in [Procs -> TaskTs] /\ task[p] \in TaskTs /\ HeapOf(p)
      /\ task[p].program = task[p].cr3 /\ end <= StackV * PageUnits
  BY DEF sbrk, MemInv, MemoryTypeOK, HeapInv
<1>2. At(p, "user") /\ task[p].state = "running" /\ task[p].cr3 \in Pages
  BY <1>1, CallerFacts
<1>3. /\ start \in Nat /\ end \in Nat /\ start <= end
      /\ UserBase \in Nat /\ StackV \in Nat /\ LastV \in Nat /\ StackV <= LastV
      /\ PageUnits \in Nat \ {0}
  BY <1>1, MemoryAssumption DEF TaskTs
<1>4. start >= UserBase * PageUnits /\ Below(task[p].cr3, start)
  BY <1>1, <1>2 DEF HeapOf, HeapRight, At
<1>5. /\ UpPages(start) \in Nat /\ UpPages(end) \in Nat /\ UpPages(start) <= UpPages(end)
      /\ UpPages(end) <= StackV
  BY <1>1, <1>3, RoundsUp, RoundsUpMonotonic
<1>6. UserBase <= UpPages(start)
  <2>1. start <= UpPages(start) * PageUnits
    BY <1>3, <1>5, RoundsUp
  <2>2. CASE UpPages(start) + 1 <= UserBase
    <3>1. (UpPages(start) + 1) * PageUnits <= UserBase * PageUnits
      BY <1>3, <1>5, <2>2
    <3> QED BY <1>3, <1>4, <1>5, <2>1, <3>1
  <2> QED BY <1>3, <1>5, <2>2
<1> HIDE DEF end
<1>7. CASE task' = [task EXCEPT ![p].heap = end] /\ UNCHANGED op
  <2>1. /\ task'[p] = [task[p] EXCEPT !.heap = end]
        /\ \A q \in Procs : q # p => task'[q] = task[q]
    BY <1>1, <1>7
  <2>2. /\ task'[p].state = task[p].state /\ task'[p].heap = end
        /\ task'[p].program = task[p].program /\ task'[p].cr3 = task[p].cr3
    BY <1>1, <2>1 DEF TaskTs
  <2>3. ProgramWhen(p)'
    BY <1>1, <2>2 DEF HeapOf, ProgramWhen
  <2>4. HeapRight(p)'
    <3>1. \A v \in MappedIn(task[p].cr3) : v < UpPages(end) \/ v = StackV
      BY <1>3, <1>4, <1>5 DEF Below, MappedIn, Vaddrs
    <3>2. end >= UserBase * PageUnits
      BY <1>3, <1>4
    <3> QED BY <1>1, <2>2, <3>1, <3>2 DEF HeapRight, Below, MappedIn, UpPages
  <2>5. HeapOf(p)'
    BY <1>2, <1>7, <2>3, <2>4, HeapIdle DEF At, Mapping
  <2> QED BY <1>1, <1>7, <2>1, <2>5, CallerHeap
<1>8. CASE /\ op' = [op EXCEPT ![p] = [User EXCEPT !.pc = "grow", !.dir = task[p].cr3,
                                          !.want = NewPages(start, end), !.end = end]]
           /\ UNCHANGED task
  <2>1. /\ op'[p] = [User EXCEPT !.pc = "grow", !.dir = task[p].cr3,
                                 !.want = NewPages(start, end), !.end = end]
        /\ \A q \in Procs : q # p => op'[q] = op[q]
    BY <1>1, <1>8
  <2>2. /\ op'[p].pc = "grow" /\ op'[p].dir = task[p].cr3
        /\ op'[p].want = NewPages(start, end) /\ op'[p].end = end
    BY <2>1 DEF User
  <2>3. \A v \in NewPages(start, end) : v \in Vaddrs /\ v \notin MappedIn(task[p].cr3)
    BY <1>3, <1>4, <1>5, <1>6 DEF NewPages, Below, Vaddrs
  <2>4. MappedIn(task[p].cr3) = {v \in Vaddrs : maps'[task[p].cr3][v] # None}
    BY <1>1 DEF MappedIn
  <2>5. ProgramWhen(p)' /\ HeapRight(p)'
    BY <1>1, <1>4, <1>8, <2>2 DEF HeapOf, ProgramWhen, HeapRight, At
  <2>6. WantsNew(p)'
    BY <2>2, <2>3, <2>4 DEF WantsNew, MappedIn
  <2>7. GrowsAbove(p)'
    BY <1>1, <1>3, <1>4, <1>8, <2>2, <2>4 DEF GrowsAbove, MappedIn, NewPages, UpPages, Below
  <2>8. HeapOf(p)'
    BY <2>2, <2>5, <2>6, <2>7 DEF HeapOf, LoadsBelow, StackLast, At
  <2> QED BY <1>1, <1>8, <2>1, <2>8, CallerHeap
<1> QED BY <1>7, <1>8 DEF sbrk, end

LEMMA sbrk_end_Heap ==
  ASSUME MemInv, HeapInv, NEW p \in Procs, sbrk_end(p)
  PROVE  HeapInv'
<1> DEFINE start == task[p].heap
           end == op[p].end
<1>1. /\ op \in [Procs -> Ops] /\ op[p] \in Ops /\ UNCHANGED maps /\ At(p, "grow")
      /\ task \in [Procs -> TaskTs] /\ task[p] \in TaskTs /\ HeapOf(p) /\ op[p].want = {}
      /\ task' = [task EXCEPT ![p].heap = end] /\ op' = [op EXCEPT ![p] = User]
  BY DEF sbrk_end, Mapped, MemInv, MemoryTypeOK, HeapInv
<1>2. /\ op'[p].pc = "user" /\ \A q \in Procs : q # p => op'[q] = op[q]
      /\ task'[p] = [task[p] EXCEPT !.heap = end]
      /\ \A q \in Procs : q # p => task'[q] = task[q]
  BY <1>1 DEF User
<1>3. /\ task'[p].state = task[p].state /\ task'[p].heap = end
      /\ task'[p].program = task[p].program /\ task'[p].cr3 = task[p].cr3
  BY <1>1, <1>2 DEF TaskTs
<1>4. /\ start \in Nat /\ end \in Nat /\ start <= end
      /\ UserBase \in Nat /\ StackV \in Nat /\ PageUnits \in Nat
  BY <1>1, MemoryAssumption DEF TaskTs, Ops, HeapOf, GrowsAbove
<1>5. UpPages(start) \in Nat /\ UpPages(end) \in Nat /\ UpPages(start) <= UpPages(end)
  BY <1>4, RoundsUp, RoundsUpMonotonic
<1>6. task[p].program = task[p].cr3 /\ op[p].dir = task[p].cr3 /\ task[p].cr3 \in Pages
  BY <1>1 DEF HeapOf, GrowsAbove, MemInv, Control, DirOwn, CallersRun, At
<1>7. end >= UserBase * PageUnits
  <2>1. start >= UserBase * PageUnits
    BY <1>1, <1>6 DEF HeapOf, HeapRight
  <2> QED BY <1>4, <2>1
<1>8. \A v \in MappedIn(task[p].cr3) : v < UpPages(end) \/ v = StackV
  <2>1. \A v \in MappedIn(task[p].cr3) :
           v < UpPages(start) \/ v = StackV \/ v \in NewPages(start, end)
    BY <1>1, <1>6 DEF HeapOf, GrowsAbove
  <2> QED BY <1>4, <1>5, <2>1 DEF NewPages, MappedIn, Vaddrs
<1>9. ProgramWhen(p)'
  BY <1>1, <1>3 DEF HeapOf, ProgramWhen
<1>10. HeapRight(p)'
  BY <1>1, <1>3, <1>7, <1>8 DEF HeapRight, Below, MappedIn, UpPages
<1>11. HeapOf(p)'
  BY <1>2, <1>9, <1>10, HeapIdle DEF Mapping
<1> QED BY <1>1, <1>2, <1>11, CallerHeap

LEMMA InitHeapInv ==
  ASSUME Init
  PROVE  HeapInv
<1>1. \A q \in Procs : task[q].program = None /\ task[q].cr3 \in {None, 2}
  BY DEF Init, Blank
<1>2. \A q \in Procs : op[q].pc = "user"
  BY DEF Init, User
<1>3. None # 2 /\ None \notin Pages
  BY DEF None, Pages
<1> QED BY <1>1, <1>2, <1>3 DEF HeapInv, HeapOf, ProgramWhen, HeapRight, WantsNew, LoadsBelow,
     StackLast, GrowsAbove, At, Mapping

LEMMA NextHeapInv ==
  ASSUME MemInv, HeapInv, [Next]_vars, Mishaps \cap {"stray", "torn", "nameless"} = {}
  PROVE  HeapInv'
<1>1. CASE UNCHANGED vars
  BY <1>1, MapsKept, HeapKept DEF vars, HeapInv
<1>2. ASSUME NEW p \in Procs, execve(p) PROVE HeapInv'
  BY <1>1, <1>2, ExecsOrNot, execve_Heap
<1>3. ASSUME NEW p \in Procs, Step(p) PROVE HeapInv'
  BY <1>2, <1>3, map_page_Heap, map_table_Heap, map_enter_Heap, destroy_page_Heap,
     destroy_dir_Heap, fork_alloc_Heap, fork_desc_Heap, fork_stack_Heap, fork_dir_Heap,
     fork_failed_Heap, fork_copy_Heap, fork_start_Heap, exec_load_Heap, exec_args_Heap,
     sbrk_Heap, sbrk_end_Heap, exit_Heap, wait_Heap, wait_end_Heap DEF Step
<1> QED BY <1>1, <1>3 DEF Next

\* With the four windows of Mishaps shut, the ASSERT of memory_create_map (memory.c:151) holds,
\* whatever the sizes of programs, heaps and requests: what sys_fork copies, load_elf_file loads
\* and sys_sbrk adds is always new in its space.
THEOREM NothingMappedTwice ==
  ASSUME Mishaps = {}
  PROVE  Spec => []AssertUnmapped
<1>1. Init => MemInv /\ HeapInv
  BY InitMemInv, InitHeapInv
<1>2. MemInv /\ HeapInv /\ [Next]_vars => MemInv' /\ HeapInv'
  BY NextMemInv, NextHeapInv
<1>3. MemInv /\ HeapInv => AssertUnmapped
  <2>1. SUFFICES ASSUME MemInv, HeapInv, NEW p \in Procs, op[p].held # None
                 PROVE  ~Present(op[p].dir, Least(op[p].want))
    BY DEF AssertUnmapped
  <2>2. op[p].pc \in Mapping /\ op[p].want # {} /\ op[p].want \in SUBSET Nat
    BY <2>1 DEF MemInv, MemoryTypeOK, Ops, Control, Wants
  <2>3. Least(op[p].want) \in op[p].want
    BY <2>2, LeastIn
  <2>4. Least(op[p].want) \in Vaddrs \ MappedIn(op[p].dir)
    BY <2>1, <2>2, <2>3 DEF HeapInv, HeapOf, WantsNew
  <2>5. Least(op[p].want) >= UserBase
    BY <2>4, MemoryAssumption DEF Vaddrs
  <2> QED BY <2>4, <2>5 DEF MappedIn, Present
<1> QED BY <1>1, <1>2, <1>3, PTL DEF Spec
=============================================================================
