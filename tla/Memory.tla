------------------------------- MODULE Memory -------------------------------
(***************************************************************************)
(* Who owns the physical pages and the segment descriptors: the page       *)
(* allocator and the address spaces of core/memory.c, and the way          *)
(* sys_fork, sys_execve, sys_sbrk, sys_wait and sys_exit of core/task.c    *)
(* use them.                                                               *)
(*                                                                         *)
(* The allocator's mutex makes each allocation and each release one step;  *)
(* between two of them other processes run.  An address space is known by  *)
(* the page of its directory; `tabs' and `maps' are what is in the user    *)
(* half of the directory and in its page tables.  The kernel's part, below *)
(* UserBase, is mapped in every space.                                     *)
(*                                                                         *)
(* Process states are as coarse as memory needs them, TaskLife has the     *)
(* rest: any process may take its next step at any time.                   *)
(***************************************************************************)
EXTENDS Integers, FiniteSets

CONSTANTS Procs, First, NoProc,
          LastPage,      (* the allocator has pages 1 .. LastPage          *)
          LastDesc,      (* the GDT has descriptors 1 .. LastDesc          *)
          LastV,         (* the virtual pages are 0 .. LastV               *)
          UserBase,      (* the first of a process: MEMORY_TASK_BASE       *)
          StackV,        (* the virtual page of the stack                  *)
          PerTable,      (* PTE_CNT                                        *)
          PageUnits,     (* units of a page; heaps are counted in units    *)
          Images,        (* the sizes of programs, in units                *)
          Increments,    (* arguments of sbrk, in units                    *)
          Mishaps        (* what may happen: "twice", others run between   *)
                         (* the two releases of one kernel stack (see      *)
                         (* fork_dir); "stray", sbrk in a process whose    *)
                         (* heap_end is not of its own program; "torn", no *)
                         (* page for a table is left when an sbrk has      *)
                         (* mapped some of its pages; "nameless", a path   *)
                         (* that is empty or ends in a separator           *)

ASSUME MemoryAssumption ==
       /\ IsFiniteSet(Procs) /\ First \in Procs /\ NoProc \notin Procs
       /\ LastPage \in Nat /\ LastPage >= 4 /\ LastDesc \in Nat \ {0}
       /\ PerTable \in Nat \ {0} /\ PageUnits \in Nat \ {0}
       /\ {UserBase, LastV, StackV} \subseteq Nat /\ UserBase % PerTable = 0
       /\ UserBase > 0 /\ UserBase < StackV /\ StackV <= LastV
       /\ Images \subseteq 1 .. (StackV - UserBase) * PageUnits
       /\ Increments \subseteq Nat \ {0}
       /\ Mishaps \subseteq {"twice", "stray", "torn", "nameless"}

VARIABLES bits,   (* the pages that are allocated                          *)
          gdt,    (* the descriptors that are taken                        *)
          task,   (* of task_t: what matters here; `program', not in the   *)
                  (* code, is the space that `heap' was set for            *)
          tabs,   (* for each directory: its page tables' pages            *)
          maps,   (* for each directory: the page behind each address      *)
          op,     (* where each process is in a system call                *)
          lost    (* pages whose last reference was dropped (not in the    *)
                  (* code)                                                 *)

vars == <<bits, gdt, task, tabs, maps, op, lost>>

Pages == 1 .. LastPage
Vaddrs == UserBase .. LastV
Table(v) == v \div PerTable
Tables == {Table(v) : v \in Vaddrs}
None == 0
Bad == -1                     (* what a failed memory_copy_uvm returns     *)
Slots == Procs \ {First}

Blank == [named |-> FALSE, state |-> "free", parent |-> NoProc,
          sel |-> None, esp0 |-> None, cr3 |-> None, heap |-> 0, program |-> None]
User == [pc |-> "user", child |-> NoProc, sel |-> None, dir |-> None,
         want |-> {}, held |-> None, end |-> 0]

Least(S) == CHOOSE x \in S : \A y \in S : x <= y

\* addr_alloc_page, for one page: the first bit that is not set.
Shortage == bits = Pages
NewPage_Counted == Cardinality(bits) + 1
NewPage == Least(Pages \ bits)

\* The pages after a boot, of which the first task has four.
Init ==
    /\ bits = 1 .. 4
    /\ gdt = {1}
    /\ task = [p \in Procs |->
                  IF p = First THEN [Blank EXCEPT !.named = TRUE, !.state = "running",
                                                  !.sel = 1, !.esp0 = 1, !.cr3 = 2]
                  ELSE Blank]
    /\ tabs = [d \in Pages |-> [t \in Tables |-> IF d = 2 /\ t = Table(UserBase) THEN 3 ELSE None]]
    /\ maps = [d \in Pages |-> [v \in Vaddrs |-> IF d = 2 /\ v = UserBase THEN 4 ELSE None]]
    /\ op = [p \in Procs |-> User]
    /\ lost = {}

MappedIn(d) == {v \in Vaddrs : maps[d][v] # None}
HasTable(d, v) == v >= UserBase => tabs[d][Table(v)] # None
Present(d, v) == v >= UserBase => maps[d][v] # None

At(p, step) == op[p].pc = step
Goto(p, step) == op' = [op EXCEPT ![p].pc = step]
Calls(p) == At(p, "user") /\ task[p].state = "running" /\ task[p].cr3 # Bad
UpPages(n) == (n + PageUnits - 1) \div PageUnits

\* The pages behind the one the heap ends in.
NewPages_Off(start, end) == start \div PageUnits .. UpPages(end) - 1
NewPages(start, end) == UpPages(start) .. UpPages(end) - 1
-----------------------------------------------------------------------------
(* Mapping pages: memory_alloc_for_page_dir ("load", "stack", "grow") and  *)
(* the loop of memory_copy_uvm ("copy") map the addresses op.want, lowest  *)
(* first; each takes a page and then, if it needs one, a page table.       *)
Mapping == {"copy", "load", "stack", "grow"}

\* The call returns an error: a new space is destroyed again.
Failed(o) == CASE o.pc = "copy" -> [o EXCEPT !.pc = "undo_copy", !.want = {}, !.held = None]
               [] o.pc \in {"load", "stack"} ->
                      [o EXCEPT !.pc = "undo_exec", !.want = {}, !.held = None]
               [] o.pc = "grow" -> User

\* Out of memory: memory_copy_uvm fails, memory_alloc_for_page_dir returns 0 as it does when
\* all is well.
WithoutPage(o) == IF o.pc = "copy" THEN Failed(o) ELSE [o EXCEPT !.want = {}]

map_page(p) ==
    /\ op[p].pc \in Mapping
    /\ op[p].want # {}
    /\ op[p].held = None
    /\ \/ /\ ~Shortage
          /\ bits' = bits \cup {NewPage}
          /\ op' = [op EXCEPT ![p].held = NewPage]
       \/ /\ Shortage
          /\ op' = [op EXCEPT ![p] = WithoutPage(@)]
          /\ UNCHANGED bits
    /\ UNCHANGED <<gdt, task, tabs, maps, lost>>

\* What sys_sbrk has mapped stays when it fails, and heap_end as well: the next one starts with
\* the same pages.
HalfGrown(p) == At(p, "grow") /\ op[p].want # NewPages(task[p].heap, op[p].end)

\* find_pte has to get a table; if it cannot, nobody remembers the page.
map_table(p) ==
    LET d == op[p].dir
        v == Least(op[p].want)
    IN
    /\ op[p].held # None
    /\ ~HasTable(d, v)
    /\ \/ /\ ~Shortage
          /\ bits' = bits \cup {NewPage}
          /\ tabs' = [tabs EXCEPT ![d][Table(v)] = NewPage]
          /\ UNCHANGED <<op, lost>>
       \/ /\ Shortage
          /\ HalfGrown(p) => "torn" \in Mishaps
          /\ lost' = lost \cup {op[p].held}
          /\ op' = [op EXCEPT ![p] = Failed(@)]
          /\ UNCHANGED <<bits, tabs>>
    /\ UNCHANGED <<gdt, task, maps>>

\* memory_create_map; it asserts that nothing is mapped there yet.
map_enter(p) ==
    LET d == op[p].dir
        v == Least(op[p].want)
    IN
    /\ op[p].held # None
    /\ HasTable(d, v)
    /\ ~Present(d, v)
    /\ maps' = [maps EXCEPT ![d][v] = op[p].held]
    /\ op' = [op EXCEPT ![p].want = @ \ {v}, ![p].held = None]
    /\ UNCHANGED <<bits, gdt, task, tabs, lost>>

Mapped(p, step) == At(p, step) /\ op[p].want = {}
-----------------------------------------------------------------------------
(* memory_destroy_uvm releases the space op.dir: table by table its pages, *)
(* the table, at last the directory.  An entry is not cleared, but nobody  *)
(* looks at it again.                                                      *)
Destroying == {"undo_copy", "undo_exec", "drop_old", "reap"}

TablesOf(d) == {t \in Tables : tabs[d][t] # None}
PagesUnder_First(d, t) == {v \in MappedIn(d) : v = t * PerTable}
PagesUnder(d, t) == {v \in MappedIn(d) : Table(v) = t}

destroy_page(p) ==
    LET d == op[p].dir IN
    /\ op[p].pc \in Destroying
    /\ TablesOf(d) # {}
    /\ LET t == Least(TablesOf(d)) IN
       \/ /\ PagesUnder(d, t) # {}
          /\ LET v == Least(PagesUnder(d, t)) IN
             /\ bits' = bits \ {maps[d][v]}
             /\ maps' = [maps EXCEPT ![d][v] = None]
          /\ UNCHANGED tabs
       \/ /\ PagesUnder(d, t) = {}
          /\ bits' = bits \ {tabs[d][t]}
          /\ tabs' = [tabs EXCEPT ![d][t] = None]
          /\ UNCHANGED maps
    /\ UNCHANGED <<gdt, task, op, lost>>

\* What comes after the directory's page.
Destroyed(o) == CASE o.pc = "undo_copy" -> [o EXCEPT !.pc = "copy_failed", !.dir = None]
                  [] o.pc = "reap" -> [o EXCEPT !.pc = "reap_stack", !.dir = None]
                  [] OTHER -> User

destroy_dir(p) ==
    LET d == op[p].dir IN
    /\ op[p].pc \in Destroying
    /\ TablesOf(d) = {}
    /\ bits' = bits \ {d}
    /\ maps' = [maps EXCEPT ![d] = [v \in Vaddrs |-> None]]
    /\ op' = [op EXCEPT ![p] = Destroyed(@)]
    /\ task' = IF At(p, "reap") THEN [task EXCEPT ![op[p].child].cr3 = None] ELSE task
    /\ UNCHANGED <<gdt, tabs, lost>>
-----------------------------------------------------------------------------
(* sys_fork.                                                               *)

\* task_table_mutex, which sys_wait keeps while it releases a child's memory.
TableLocked == \E q \in Procs : op[q].pc \in {"reap", "reap_stack"}

\* alloc_task does not mark its slot, and get_alloc_desc not its descriptor: as in TaskLife,
\* no two forks are between alloc_task and the end of task_init.
Allocating == \E q \in Procs : op[q].pc \in {"fork_desc", "fork_stack", "fork_dir", "fork_failed"}

fork_alloc(p) ==
    /\ Calls(p)
    /\ ~TableLocked /\ ~Allocating
    /\ \E c \in Slots :
        /\ ~task[c].named
        /\ op' = [op EXCEPT ![p] = [User EXCEPT !.pc = "fork_desc", !.child = c]]
    /\ UNCHANGED <<bits, gdt, task, tabs, maps, lost>>

\* tss_init: a descriptor, ...
fork_desc(p) ==
    LET free == 1 .. LastDesc \ gdt IN
    /\ At(p, "fork_desc")
    /\ \/ /\ free # {}
          /\ gdt' = gdt \cup {Least(free)}
          /\ op' = [op EXCEPT ![p].pc = "fork_stack", ![p].sel = Least(free)]
       \/ /\ free = {}
          /\ Goto(p, "fork_failed")
          /\ UNCHANGED gdt
    /\ UNCHANGED <<bits, task, tabs, maps, lost>>

\* ... the kernel stack, ...
fork_stack(p) ==
    LET c == op[p].child IN
    /\ At(p, "fork_stack")
    /\ \/ /\ ~Shortage
          /\ bits' = bits \cup {NewPage}
          /\ task' = [task EXCEPT ![c].esp0 = NewPage]
          /\ Goto(p, "fork_dir")
          /\ UNCHANGED gdt
       \/ /\ Shortage
          /\ gdt' = gdt \ {op[p].sel}
          /\ Goto(p, "fork_failed")
          /\ UNCHANGED <<bits, task>>
    /\ UNCHANGED <<tabs, maps, lost>>

\* ... and a page directory, with which task_init completes the task.  If there is none the
\* stack is released, but esp0 keeps it and fork_failed releases it again.
fork_dir(p) ==
    LET c == op[p].child IN
    /\ At(p, "fork_dir")
    /\ \/ /\ ~Shortage
          /\ bits' = bits \cup {NewPage}
          /\ task' = [task EXCEPT ![c].cr3 = NewPage, ![c].sel = op[p].sel,
                                  ![c].named = task[p].named, ![c].state = "created"]
          /\ Goto(p, "fork_copy")
          /\ UNCHANGED gdt
       \/ /\ Shortage
          /\ bits' = bits \ {task[c].esp0}
          /\ gdt' = gdt \ {op[p].sel}
          /\ Goto(p, "fork_failed")
          /\ UNCHANGED task
    /\ UNCHANGED <<tabs, maps, lost>>

\* task_uninit and free_task.
fork_failed(p) ==
    LET c == op[p].child IN
    /\ At(p, "fork_failed")
    /\ bits' = bits \ {task[c].esp0}
    /\ task' = [task EXCEPT ![c] = Blank]
    /\ op' = [op EXCEPT ![p] = User]
    /\ UNCHANGED <<gdt, tabs, maps, lost>>

\* memory_copy_uvm: a directory, ...
fork_copy(p) ==
    /\ At(p, "fork_copy")
    /\ task' = [task EXCEPT ![op[p].child].parent = p]
    /\ \/ /\ ~Shortage
          /\ bits' = bits \cup {NewPage}
          /\ op' = [op EXCEPT ![p].pc = "copy", ![p].dir = NewPage,
                              ![p].want = MappedIn(task[p].cr3)]
       \/ /\ Shortage
          /\ Goto(p, "copy_failed")
          /\ UNCHANGED bits
    /\ UNCHANGED <<gdt, tabs, maps, lost>>

\* ... the pages (above), and what it returns replaces the directory of task_init.  A failure
\* goes unnoticed: -1 is not less than 0 in an unsigned number.
Replace(c, d) ==
    /\ task' = [task EXCEPT ![c].cr3 = d, ![c].state = "running"]
    /\ lost' = lost \cup {task[c].cr3}

fork_start(p) ==
    /\ \/ Mapped(p, "copy") /\ Replace(op[p].child, op[p].dir)
       \/ At(p, "copy_failed") /\ Replace(op[p].child, Bad)
    /\ op' = [op EXCEPT ![p] = User]
    /\ UNCHANGED <<bits, gdt, tabs, maps>>
-----------------------------------------------------------------------------
(* sys_execve.                                                             *)

\* The last component of the path replaces the process's name before anything can fail; a path
\* like "shell.elf/" leaves it empty and still finds the program.
execve(p) ==
    /\ Calls(p)
    /\ p # First
    /\ \E empty \in BOOLEAN :
        /\ empty => "nameless" \in Mishaps
        /\ task' = [task EXCEPT ![p].named = ~empty]
    /\ \/ /\ ~Shortage
          /\ bits' = bits \cup {NewPage}
          /\ \E size \in Images :
             LET o == [User EXCEPT !.pc = "load", !.dir = NewPage,
                                   !.want = UserBase .. UserBase + UpPages(size) - 1,
                                   !.end = UserBase * PageUnits + size]
             IN \/ op' = [op EXCEPT ![p] = o]
                \/ op' = [op EXCEPT ![p] = Failed(o)]      \* there is no such program
       \/ Shortage /\ UNCHANGED <<bits, op>>                \* it returns -1
    /\ UNCHANGED <<gdt, tabs, maps, lost>>

\* load_elf_file has mapped the program: it sets the heap, even if the file is bad in the end.
exec_load(p) ==
    /\ Mapped(p, "load")
    /\ task' = [task EXCEPT ![p].heap = op[p].end, ![p].program = op[p].dir]
    /\ \/ op' = [op EXCEPT ![p].pc = "stack", ![p].want = {StackV}]
       \/ op' = [op EXCEPT ![p] = Failed(@)]
    /\ UNCHANGED <<bits, gdt, tabs, maps, lost>>

\* copy_args finds no stack if memory was short (and asserts that there is a table for it);
\* otherwise the new space replaces the old one.
exec_args(p) ==
    LET d == op[p].dir IN
    /\ Mapped(p, "stack")
    /\ HasTable(d, StackV)
    /\ \/ /\ Present(d, StackV)
          /\ task' = [task EXCEPT ![p].cr3 = d]
          /\ op' = [op EXCEPT ![p].pc = "drop_old", ![p].dir = task[p].cr3]
       \/ /\ ~Present(d, StackV)
          /\ op' = [op EXCEPT ![p] = Failed(@)]
          /\ UNCHANGED task
    /\ UNCHANGED <<bits, gdt, tabs, maps, lost>>
-----------------------------------------------------------------------------
(* sys_sbrk, sys_exit, sys_wait.                                           *)

FitsInPage(start, incr) == start % PageUnits # 0 /\ (start % PageUnits) + incr <= PageUnits

\* Where heap_end is not of the program: after fork, which does not copy it (it is 0), and
\* after an execve that failed when it had set it.
sbrk(p, incr) ==
    LET start == task[p].heap
        end == start + incr
    IN
    /\ Calls(p)
    /\ p # First
    /\ task[p].program = task[p].cr3 \/ "stray" \in Mishaps
    /\ end <= StackV * PageUnits
    /\ \/ /\ FitsInPage(start, incr)
          /\ task' = [task EXCEPT ![p].heap = end]
          /\ UNCHANGED op
       \/ /\ ~FitsInPage(start, incr)
          /\ op' = [op EXCEPT ![p] = [User EXCEPT !.pc = "grow", !.dir = task[p].cr3,
                                          !.want = NewPages(start, end), !.end = end]]
          /\ UNCHANGED task
    /\ UNCHANGED <<bits, gdt, tabs, maps, lost>>

sbrk_end(p) ==
    /\ Mapped(p, "grow")
    /\ task' = [task EXCEPT ![p].heap = op[p].end]
    /\ op' = [op EXCEPT ![p] = User]
    /\ UNCHANGED <<bits, gdt, tabs, maps, lost>>

exit(p) ==
    /\ Calls(p)
    /\ p # First
    /\ ~TableLocked
    /\ task' = [q \in Procs |->
                   IF q = p THEN [task[q] EXCEPT !.state = "zombie"]
                   ELSE IF task[q].parent = p THEN [task[q] EXCEPT !.parent = First]
                   ELSE task[q]]
    /\ UNCHANGED <<bits, gdt, tabs, maps, op, lost>>

Reapable_Alive(p) == {c \in Slots : task[c].parent = p /\ task[c].state # "created"}
Reapable(p) == {c \in Slots : task[c].parent = p /\ task[c].state = "zombie"}

wait(p) ==
    /\ Calls(p)
    /\ ~TableLocked
    /\ \E c \in Reapable(p) :
        op' = [op EXCEPT ![p] = [User EXCEPT !.pc = "reap", !.child = c, !.dir = task[c].cr3]]
    /\ UNCHANGED <<bits, gdt, task, tabs, maps, lost>>

\* The descriptor of the child stays taken.
wait_end(p) ==
    LET c == op[p].child IN
    /\ At(p, "reap_stack")
    /\ bits' = bits \ {task[c].esp0}
    /\ task' = [task EXCEPT ![c] = Blank]
    /\ op' = [op EXCEPT ![p] = User]
    /\ UNCHANGED <<gdt, tabs, maps, lost>>

\* The forks whose child's stack has been released once.
HalfReleased == {p \in Procs : At(p, "fork_failed") /\ task[op[p].child].esp0 # None}

Step(p) ==
    \/ map_page(p) \/ map_table(p) \/ map_enter(p)
    \/ destroy_page(p) \/ destroy_dir(p)
    \/ fork_alloc(p) \/ fork_desc(p) \/ fork_stack(p) \/ fork_dir(p) \/ fork_failed(p)
    \/ fork_copy(p) \/ fork_start(p)
    \/ execve(p) \/ exec_load(p) \/ exec_args(p)
    \/ (\E incr \in Increments : sbrk(p, incr)) \/ sbrk_end(p)
    \/ exit(p) \/ wait(p) \/ wait_end(p)

Next ==
    \E p \in Procs :
        /\ HalfReleased \subseteq {p} \/ "twice" \in Mishaps
        /\ Step(p)

Spec == Init /\ [][Next]_vars
-----------------------------------------------------------------------------
\* The spaces there are: of tasks, and those that are being built or destroyed.
Spaces == ({task[q].cr3 : q \in Procs} \cup {op[q].dir : q \in Procs}) \ {None, Bad}

Released == {op[p].child : p \in HalfReleased}
WithStack == {q \in Procs : task[q].esp0 # None} \ Released
WithHeld == {q \in Procs : op[q].held # None}
AllTables == {x \in Spaces \X Tables : tabs[x[1]][x[2]] # None}
AllMapped == {x \in Spaces \X Vaddrs : maps[x[1]][x[2]] # None}

\* The pages in use, and the number of uses.
Used ==
    {task[q].esp0 : q \in WithStack} \cup {op[q].held : q \in WithHeld} \cup Spaces
    \cup {tabs[x[1]][x[2]] : x \in AllTables} \cup {maps[x[1]][x[2]] : x \in AllMapped}
Uses ==
    Cardinality(WithStack) + Cardinality(WithHeld) + Cardinality(Spaces)
    + Cardinality(AllTables) + Cardinality(AllMapped)

\* No page has two uses and no page in use is free, whoever else allocates, fails and
\* releases in between; no two tasks have one space.
PagesApart ==
    /\ Uses = Cardinality(Used)
    /\ Used \subseteq bits
    /\ \A q, r \in Procs : q # r /\ task[q].cr3 \in Pages => task[q].cr3 # task[r].cr3

\* A page that is allocated is in use or was lost in one of two places: a fork's first
\* directory, and a page for which there was no table.  All else is released.
NothingElseLost == bits \subseteq Used \cup lost

\* Nobody takes memory away from a process, whatever others fork, reap or replace; it gives
\* its space up in execve and when it is a zombie.
SpaceKept ==
    [][\A q \in Procs :
          LET d == task[q].cr3 IN
          d \in Pages /\ task[q].state = "running" /\ task'[q].cr3 = d =>
             \A v \in MappedIn(d) : maps'[d][v] = maps[d][v]]_vars

\* memory.c:151 ASSERT(pte->present == 0): memory_create_map finds nothing mapped where it is
\* to map a page.
AssertUnmapped == \A p \in Procs : op[p].held # None => ~Present(op[p].dir, Least(op[p].want))
=============================================================================
