# A verification project for the OS-Training kernel

This directory holds TLA+ modules that model the kernel under `src/source/kernel/`
(a teaching operating system for one x86 CPU), TLC configurations that check
them on small instances, and TLAPS proofs of what matters most for instances of
any size. All source paths below are relative to `src/source/kernel/`.

`PROJECT.json` is the index: components, runs, the mutant that shows each
property can fail, the source lines each definition models, the hazards of the
code, the findings and the theorems.

## 1. The system

One CPU. A task runs user code or, after a system call, kernel code; **the
kernel is preemptible**: interrupts stay on during a system call except between
`irq_enter_protection` and `irq_leave_protection`. Interrupt handlers run with
interrupts off, and the timer handler may switch tasks. So a section with
interrupts off, or a handler, is one atomic step; between any two such sections
of one task the timer may run any other task.

| component | source | state it keeps | operations | used by |
|---|---|---|---|---|
| scheduler | `core/task.c`, `dev/time.c` | `ready_list`, `sleep_list`, `curr_task`, per task `state`, `slice_ticks`, `sleep_ticks` | `task_start`, `sys_yield`, `sys_msleep`, `task_time_tick`, `task_set_ready/block/sleep/wakeup`, `task_dispatch` | everything below |
| mutex | `ipc/mutex.c` | owner, recursion count, wait list | `mutex_lock`, `mutex_unlock` | task table, page allocator, open files, disk, FAT, console |
| semaphore | `ipc/sem.c` | count, wait list | `sem_wait`, `sem_notify` | tty queues, disk completion |
| process life cycle | `core/task.c` | `task_table`, name, parent, state | `sys_fork`, `sys_wait`, `sys_exit`, `sys_execve`, `alloc_task`, `task_init/uninit` | system calls |
| open files | `fs/fs.c`, `fs/file.c`, `dev/dev.c`, `fs/devfs` | `file_table` with reference counts, per-task fd tables, devices' open counts | open, close, dup, read, write, fork's copy, exit's closing | system calls |
| terminal | `dev/tty.c` | in and out queue, two semaphores | read, write, `tty_in`, `tty_select` | open files |
| console | `dev/console.c` | video memory, per console cursor, colours, escape parser, mutex; the console shown | `console_write`, `console_select`, `console_init` | terminal |
| keyboard | `dev/kbd.c` | modifier flags, prefix received | the keyboard handler | terminal |
| disk | `dev/disk.c` | partition table, mutex, completion semaphore, `task_on_op` | open, read, write, the IDE handler | FAT |
| FAT16 | `fs/fatfs/fatfs.c` | FAT, directory, per file position and cluster | open, read, write, seek, close, unlink, readdir | open files |
| memory | `core/memory.c` | page bitmap, page tables | page allocator, copy and destroy of address spaces, `sbrk` | fork, exec, wait |
| descriptors, lists, bitmap | `cpu/cpu.c`, `tools/` | GDT, intrusive lists, bitmap | allocate, free, link, unlink | scheduler, memory |

How they interact: system calls enter through `core/syscall.c`; blocking ones
take a mutex or semaphore, which moves the task from `ready_list` to a wait
list and dispatches. Interrupts (timer, keyboard, disk) act on the same lists.
`sys_exit` changes other tasks (its children's parent, its parent's state).
`sys_fork` shares open files between tasks by reference count.

What is hard: preemption at any instruction of a system call; check-then-act
across a mutex release (`sys_wait`); unmarked allocation (`alloc_task`,
`get_alloc_desc`); wake-ups that rely on nobody else making the task ready
(mutex hand-over, semaphores); slots reused while somebody still refers to them
(`file_t`, `task_t`); intrusive lists, where linking a node twice corrupts both
lists. `PROJECT.json` lists these hazards, each with its line.

What makes each correct:

- scheduler: every started task is on exactly one list or waits for something, the
  list's head runs, a delay ends, nobody overtakes, everybody runs again;
- mutex, semaphore: exclusion, tokens conserved, no waiter lost or passed over;
- process life cycle: every zombie has a parent that can reap it, a `task_t` is reused
  only when its task has left for good;
- open files, devices: a file is open exactly as long as a descriptor refers to it;
- terminal: every character arrives once and in order, nobody is stranded with output;
- console: a byte changes its own console's page only, escape sequences are taken whole,
  the VGA shows the selected console and its cursor;
- keyboard: no modifier sticks, a key gives the character that was in force when it went down;
- disk: calls behave like a block store although sectors and interrupts come one by one,
  and every call returns;
- FAT: chains are apart and end, a file reads back what was written to it;
- memory, descriptors: every page has one owner and is given back; nobody else's call
  changes a process's space.

## 2. The modules

| module | models | builds on |
|---|---|---|
| `List` | `tools/list.c`, pointer by pointer | |
| `Bitmap` | `tools/bitmap.c` | |
| `Sched` | `core/task.c`: lists, ticks, yield, msleep, start, dispatch | |
| `Mutex` | `ipc/mutex.c` | EXTENDS `Sched` |
| `Sem` | `ipc/sem.c` | EXTENDS `Sched` |
| `TaskLife` | `sys_fork`, `sys_wait`, `sys_exit`, the name that `sys_execve` writes, and the task table | EXTENDS `Mutex` |
| `OpenFiles` | what the open-file table promises (abstract) | |
| `FileTable` | `fs/file.c`, open/dup/close of `fs/fs.c`, fork's copy, exit's closing, `dev_open`/`dev_close` | implements `OpenFiles` |
| `Pipe` | what a terminal queue promises (abstract): a bounded FIFO | |
| `Tty` | `dev/tty.c` and the draining loop of `console_write` | implements `Pipe` twice |
| `Screen` | what a console promises (abstract): a page of rows, a cursor, a colour | |
| `Console` | `dev/console.c` | implements `Screen`, once per console |
| `Kbd` | `dev/kbd.c`, `tty_select` | |
| `BlockStore` | what a disk promises (abstract): calls one at a time and at once | |
| `Disk` | `dev/disk.c`, the drive and the interrupt controller | implements `BlockStore` |
| `Fat` | `fs/fatfs/fatfs.c`: allocation table, root directory, open files' positions | |
| `Memory` | `core/memory.c` with `sys_fork`, `sys_execve`, `sys_sbrk`, `sys_wait`, `sys_exit` as they use it; the TSS descriptors of `cpu/cpu.c` | |
| `SchedProofs` | theorems and proofs about `Sched` and `List` | EXTENDS both |
| `SemProofs` | about the semaphores | EXTENDS `SchedProofs` |
| `TaskLifeProofs` | about the mutexes and the process life cycle over them | EXTENDS `SchedProofs` |
| `FileTableProofs`, `TtyProofs`, `DiskProofs`, `MemoryProofs`, `ConsoleProofs` | about these modules and what they implement; `TtyProofs` also about `Kbd`, `DiskProofs` also about `Fat` | EXTEND the modules they prove about |
| `MC...` | instances for TLC | EXTEND the module they check |

A definition `X_Fault` (`Fault` says which slip) is a faulty variant of the definition `X` below it, as a
slip in the code would make it; no specification uses it. `PROJECT.json`
(`mutants`) says which property detects that `X` is replaced by `X_Fault`.

### Sched

A list of tasks is a sequence without repetition, head first; a node of an
intrusive list is named by its task. `ready_list`, `sleep_list`, `curr_task`,
`state`, `sleep_ticks`, `slice_ticks` are the variables of the same names. The
running task stays at the head of `ready_list`, as in the code, and the idle
task is on no list. Actions: `task_start`, `sys_yield`, `sys_msleep`,
`task_time_tick`; each is a section with interrupts off (or the timer handler)
and ends in `Dispatch` where the code calls `task_dispatch`. `SetReady`,
`MarkReady`, `SetBlock` and `Dispatch` take the list and states that the handler
has reached so far, so that other modules can put several of them together in
one atomic step. `Ticks` keeps the unsigned arithmetic of `sys_msleep` modulo
`Word` (2^32 in the code). Delays are positive: `msleep` of `applib` makes no
system call otherwise.

`task_time_tick` walks the sleep list; the order of the tasks that become due in
one tick is that of the list, which `Sublists` expresses without recursion.

### List and Bitmap

Two modules without variables, for the functions everything else stands on.

`List` has `list_t` with `pre` and `next` of all nodes, and the functions of `list.c` field
by field, in the code's order where the order matters. `Represents(m, s)` says that a
memory holds the list `s`. The other modules take a list for a sequence: `SchedProofs`
proves that they may, as long as nobody links a linked node or unlinks an unlinked one,
which no function tests and which `RunNodeLinkedOnce` and `AtOnePlace` say of all callers.
`ListsAreSequences` is the same on all lists of up to three nodes (`MCSched`, where TLC
evaluates it). `RelinkedNodeLoops`, next to it, is about the one list that breaks the rule:
`sys_wait` clears a `task_t` whose `all_node` is still in `task_manager.task_list`
(`task.c:907`; inserted at `task.c:116`, never removed), and the next task in that slot
links it again, so that the list "of all tasks created" (`task.h:62`) runs in a circle.
Nothing reads that list, and `TaskLife` leaves it out.

`Bitmap` has the search of `bitmap_alloc_nbits`. For one page, which is all that any caller
asks for, it finds the lowest free one, as `NewPage` of `Memory` says (`OnePageAtATime`, for all
bitmaps of six bits). For more, it looks at one bit too few, and what it returns may be
taken in part (`SecondPageUnseen`; the inner loop at `bitmap.c:84` begins with the bit that
it starts from). `MCMemory` evaluates both.

### Mutex

`owner`, `locked_count` and `wait_list` per mutex are the fields of `mutex_t`.
The one variable that is not in the code is `calls`: for each task and mutex,
its `mutex_lock` calls less its `mutex_unlock` calls. A task is *inside* when it
has made calls and is not held up in one. Mutual exclusion is stated about
`calls`, so it is not true by the definition of `owner`. `mutex_lock` has the
code's three branches (`LockFree`, `LockAgain`, `LockWait`), `mutex_unlock` the
hand-over to the first waiter, and tasks may sleep, yield or be preempted with
mutexes held. `Nests` is the callers' locking order.

### Sem

`count` and `wait_list` are the fields of `sem_t`. `sem_wait` is called by the
running task; `sem_notify` also by interrupt handlers, over whatever runs, the
idle task included.

### TaskLife

`pc` says where each task is in `sys_fork`, `sys_wait` or `sys_exit`; the steps
are cut where interrupts can come: around the mutex calls, the allocation of a
slot, the initialisation, the section that sets `TASK_WAITING`, the end of
`sys_exit`. `named` says whether `task_t.name` is non-empty, which is how the
code marks a slot as taken. Work done while only its own task can see it
(copying memory and open files) belongs to other modules and takes no step here.
A failing `task_init` is modelled, the reason for the failure is not.
`RacyFork = FALSE` keeps two forks from overlapping between `alloc_task` and
the end of `task_init`; section 4 says what happens without that.

`sys_execve` writes `named` too. It copies the last component of the path over the
process's name first of all (`task.c:742`), and neither a failure nor anything else brings
the old one back. For a path that is empty or ends in a separator the component is empty
(`get_file_name`, `tools/klib.c:271`). Such a call usually fails; with `"shell.elf/"` it may
even succeed, as the FAT driver reads a name only up to the extension's third letter. Either
way the process runs on in a slot that counts as free, and the next fork of anybody builds its
child there. A child copies its parent's name, so every child of a nameless process is nameless.
`EmptyName = TRUE` lets processes make such a call; `FreeSlotIsUnused` and `PidUnique` are then
violated (section 4). `EmptyName = FALSE`, in `task_life` and in the theorems, keeps all
other calls of `sys_execve`.

`fork_init` is one step from the kernel stack to the copy of the address space. In the code
the name is set in `task.c:97`, `parent = 0` in line 100 and the parent in line 528; the parent of
a slot that is being filled is null before, too, and nobody reads more of it than that.

### FileTable and OpenFiles

Independent processes that take steps in any order, which allows every
interleaving the scheduler allows. A step is a section under `file_alloc_mutex`,
a section with interrupts off, or one access to a field that others access.
`sys_close` decrements `ref` without the mutex; the kernel is compiled with -O0,
so the decrement is a load (`close_load`) and a store (`close_dec`). An open
that fails in the file system returns with its descriptor and `file_t` still
taken, as in the code (`fs.c:148`). `RacyClose = FALSE` keeps others out of steps
that use a reference count while one process is inside the end of `sys_close`;
section 4 says why.

`dup` takes the descriptor (`task_alloc_fd`, `fs.c:354`) and counts it (`file_inc_ref`, line 357)
in one step. The process holds the old descriptor all along, so the count is at least 1 in between
and nobody sees a difference. A device whose open fails keeps the `minor`, `data` and `desc`
that `dev_open` wrote into its element (`dev.c:76`); its `open_count` is 0, the next `dev_open`
overwrites them, and the model leaves them out.

`OpenFiles` has no counts: a file behind a descriptor is never given to another
open. `FileTable` implements it with `fds <- file_table`.

### Tty and Pipe

`buf`, `read`, `write`, `count` are `tty_fifo_t` of the two queues; the count is
tested before interrupts are turned off, so test and act are two steps.
`tokens` and `waiting` are the two semaphores. Here a semaphore operation is one
step that does what `Sem` shows a semaphore to do, and the console's mutex has
one owner, as `TaskLifeProofs` proves. `tty_read` edits a line and echoes each key
through `tty_write`; whoever has written a character drains the output queue.
`Overrun = FALSE` keeps keys out while the input queue is full and a reader has
its token but not its character; section 4 says what happens then.
An emptied cell of a ring becomes `Junk`: no code reads it. Echo is always on.

`Pipe` is a bounded FIFO. The contents of each ring, read from `read` on, refine it.

### Console and Screen

`disp` is the video memory that all consoles share, `console[k]` the fields of
`console_t`, `vga` the start address and cursor position in the CRT controller's
registers. `Written` is the switch of `console_write`: one byte to the parser, which
`write_normal`, `write_esc` and `write_esc_square` take further with the code's own
helpers (`scroll_up`, `erase_backword`, ...); these are operators on a console together
with the video memory, so that they can be put together as the code does. A task puts a
byte into the terminal's queue (`put`), drains the queue under the mutex (`drain`, one
byte a step), gives the mutex up (`unlock`) and, without it, tests `curr_console_idx`,
computes the cursor's position (`compute`) and outputs it (`output`). `console_select`
is the switch from the keyboard's interrupt. The bytes are those the parser tells
apart; a printable one stands for all.

`typed` only observes: how many characters a line typed on an empty screen has. What is
on the screen is then known without repeating what the code does (`LineOnScreen`).
`Screen` is a page with rows and columns and commands with their whole effect; every
console refines it, with its page cut out of the flat memory, at the same time as all
others (`ShowsPages`: whatever a step does, each console takes a step of `Screen` or none).
`MovesOnPage` and `OnlyTextIsShown` are what the parser's helpers rely on and do not test:
`move_cursor` takes the parameters as they are, and `show_char` shows what it is given.

Left out: a sequence with more than `ESC_PARAM_MAX` parameters, whose digits would be
stored over `curr_param_index` and from there on anywhere (`MessageAssumption`);
`ESC [ row ; col H` beyond the screen, which the code does not clamp; hiding the cursor
(`console_set_cursor`); opening a closed terminal again. `Mishaps` names two windows that
the run excludes, see section 4.

### Kbd

`kbd_state`, `recv_state` and `curr_tty` are the code's. The handler runs with
interrupts off: one scan code is one step (`do_handler_kbd`), with prefixes kept from
one step to the next. `press` and `release` are the keyboard, which sends one to three
codes per key, and its controller, which keeps them until they are read; `held`,
`capital`, `chosen` and `due` observe what the user has done. `Scan` is the table of their codes. Each flag the handler
keeps is thus compared with what it is about, over interrupts that come late.
`Mishaps` names two windows, see section 4. Caps Lock is taken not to repeat while it is held
down: `kbd.c:168` toggles on every make code, so with a keyboard that repeats it the flag would
be what the last repetition made of it. Pause is delivered as a NUL (its second
code, 0x45, is taken for a key without a character), as every key without one; S with
Shift gives B (`kbd.c`, `map_table`), which the model does not distinguish from any
other upper-case letter.

### Disk and BlockStore

A call locks the channel, sends a command and goes from sector to sector: `wait` (the
semaphore), `poll` (until the drive is not busy), `ata_read_data` or `ata_write_data`.
`ata`, `platter` and `irq` are the drive and its pending interrupt; `drive_done` and
`drive_fails` happen at any time. The drive can be slower than the wait: a token left
over from start-up lets a task through early, and polling then makes it right.
`task_on_op` is set by the first call and never reset, as in the code. During start-up
(`Boot`) the same calls poll only, and the interrupt they leave pending is delivered
to the first task, or dropped by the controller: both happen (`start`).
`LeftoverStays` says that this token is there for good and never grows.

The file system stays within its partition; `disk_read` itself does not check. Data
words without a sector ready are `Junk`.

### Fat

`fat` is the allocation table, `dir` the root directory, `file` the `file_t`s of FAT
files (`pos`, `size`, `sblk`, `cblk`, `p_index`, `mode`). Every call runs under the
file system's mutex, so there is one call in progress, `op`; the loops of
`fatfs_read` and `fatfs_write` take one step per round, `expand_file` and the end of
`move_file_pos` are steps of their own. What a unit of a cluster holds is the pair
<<directory entry, offset>> it was written for, so that "every file has its own data"
can be stated without contents. A freed cluster's units become `Unwritten`. Clusters are
allocated lowest first and linked in order, a new directory entry goes where the scan of
`fatfs_open` ended or else into the last deleted one, an unlinked entry becomes
zero (which ends later scans), the entry of an open file is out of date until
`fatfs_close`: all as in the code. A disk may have been written by another system before.
The table has as many entries as the disk has clusters; the code searches all entries of
the table's sectors (`fatfs.c:137`), which may be a few more than there are clusters, and would
hand these out too on a full disk.

Files are written at their end and in front of it. The size grows by what is written in both
cases (`fatfs.c:724`), so a file that was written in front of its end can claim more than its
chain has, and goes on behind it: `cblk` is then no cluster, and the sector computed from it is outside
the file system's data. The drive refuses it (`copy_refused`), or the round has no effect on any cluster.
`overwritten`, which the code does not have, collects these files until they are
truncated, and only `ContentsIntact` uses it: a file that was only appended to has
its data, and nothing done to the others, longer than their chains as they are, touches it.
`ChainsSound` and `PosFollowsChain` are about all files. `Word` bounds the sizes (2^32 in the code).

The code keeps these promises only to processes that behave: `Careless` names what
they do not do in the run. "share": open a file twice or unlink it while it is open
(its clusters are freed under the other user). "miss": open for writing a file that
cannot be opened (the `file_t` stays, and closing it overwrites directory entry 0).
"seek": seek behind the end (the next read's length wraps). These are gaps of the code, listed as
hazards; no statement of the code promises otherwise.

Three comments are not true even for such processes.

- `fatfs.c:666`: if the file is not big enough, it is expanded first ("如果文件大小不够，则先扩展文件大小").
  A write that fills a cluster on a full disk has grown the size (line 724) when
  `move_file_pos` fails and leaves `pos` where it was (lines 404-409), and the
  caller is told that the part is written. From then on the position is in front of the size, in a
  process that only appends: its next write overwrites its own data, the size grows
  again, and later writes are expanded by less than they need and copied behind the chain.
  `Fat` states the comment as `RoomForWrite`, which the instance of `fat` violates, also
  if every file is opened with "w" and never sought in (section 4). The file is in `overwritten`
  from that next write on: up to there `ContentsIntact` holds for it, the failed growth included.
- `fatfs.c:337`: `expand_file` finds the current cluster to be the last one
  ("此时当前族号已经到达了最后的簇号"). It links the new clusters behind `cblk`, wherever that is. A
  write from the middle of a file to behind its end loses the rest of the chain with its data:
  `ExpandsAtLastCluster`, violated in the instance of `fat`. Three appends violate it as well,
  without harm to any data: a write that ends exactly at a cluster's end has already got
  one more cluster (`fatfs.c:404`), the next one gets another because the size is a multiple of
  the cluster size (line 344), and the third links its new cluster in front of the one allocated
  before, which belongs to no file from then on.
- `fatfs.c:536`: a scan need not go on at the end entry ("结束项，不需要再扫描了"). But `fatfs_unlink`
  writes zeros, which mark the end, and not `DIRITEM_NAME_FREE`: whatever is behind the
  entry cannot be opened, listed or unlinked any more, keeps its clusters, and gets a second entry
  when it is created again. `NothingBehindEnd` states the comment; no run lists it, and it is
  violated when added to `MCFat.cfg`.

### Memory

`bits` is the bitmap of the page allocator, `gdt` the descriptors in use. An address
space is named by the page of its directory; `tabs` and `maps` are the entries of its
directory and page tables. The allocator's mutex makes every `addr_alloc_page` and
`addr_free_page` one step, and nothing else is atomic: `op` says where each process
is in its call, and any other process may go on between two steps. The loops of
`memory_alloc_for_page_dir` and `memory_copy_uvm` are one set of steps (`map_page`,
`map_table`, `map_enter`) over the addresses still to be mapped, `memory_destroy_uvm` is
`destroy_page` and `destroy_dir`. Every allocation can fail, with what the code does
then: `memory_copy_uvm` undoes and returns -1, which `sys_fork` takes for a directory
(`Bad`; such a child takes no more steps, the machine would fault);
`memory_alloc_for_page_dir` returns 0 for "no page" and -1 for "no page table". Process
states are coarse, `TaskLife` has the rest. The first task does not call `execve`,
`sbrk` or `exit`, as in `init/first_task.c`. An image is one segment; the stack is one page.

`lost` and the field `program` are not in the code. `lost` collects the pages of the two
leaks the code has (the directory that `task_init` made for a fork, and a page for which
no page table could be had); `NothingElseLost` says that there is no other.
`program` is the space `heap_end` was set for. `named` is the name, which `execve` sets as in
`TaskLife`. `Mishaps` names four windows that the run excludes, because a property fails in them:

- "nameless": a process gives `execve` a path that leaves it without a name (`task.c:742`). Its slot
  counts as free, and a fork fills it while the process runs on: its kernel stack and its space
  are forgotten (`NothingElseLost`).

- "twice": when a fork finds no page for the directory, `tss_init` frees the kernel
  stack, and `task_uninit` frees it again (`task.c:80`, `task.c:457`). If another process
  takes the page in between, it loses it (`PagesApart`).
- "stray": `heap_end` is not of the own program. `task_init` sets it to 0 and `sys_fork`
  does not copy it, so the child's `sbrk` maps at address 0; and an `execve` that fails
  after loading has set it (`task.c:676`), so the old program's next `sbrk` maps pages it
  has already. Both fail the assertion of `memory.c:151` (`AssertUnmapped`).
- "torn": `sys_sbrk` maps several pages and there is no page left for a table that a later
  one needs. `memory_alloc_for_page_dir` returns -1 and leaves what it has mapped (its
  clean-up is a comment, `memory.c:394`), `sys_sbrk` leaves `heap_end` where it was, and the
  process's next `sbrk` maps the same addresses again: `AssertUnmapped` once more. The
  heaps of the run are too short for this; with `LastV` and `StackV` 6 and `Increments` {6}
  TLC finds it.

## 3. The runs

| run | instance | states | question |
|---|---|---|---|
| `sched` | 3 tasks and idle, slices of 2 ticks, delays of 1 and 2 ticks | 2 426 | lists, states and running task consistent; order of service; every task runs again and again |
| `mutex` | 3 tasks, 2 nested mutexes, re-entered once | 11 414 | exclusion, no waiter lost, no barging, every waiter enters |
| `sem` | 3 tasks, 2 semaphores, initially 1 and 0 | 2 866 | tokens conserved, served in order, a notified waiter runs |
| `task_life` | first task and 2 slots | 27 146 | every process can be reaped; a slot is reused only when its task has left for good; exit completes |
| `file_table` | 2 processes, 2 descriptors, 2 files, 2 devices | 29 764 | counts follow descriptors; no file closed or given away in use; exit closes all; implements `OpenFiles` |
| `tty` | a reader-writer and a writer, queues of 2 and 3 | 223 488 | tokens match the queues, nothing lost, repeated, reordered or stranded, writers return; implements `Pipe` |
| `console` | 2 consoles of 2 rows of 3, two writers, 3 messages of text, corrections, tabs and commands | 419 954 | what is typed is what is shown; sequences stay whole; the cursor follows the selected console; implements `Screen` |
| `kbd` | 11 keys, one of every kind, 2 scan codes waiting | 482 560 | no modifier sticks; characters and switches are those in force when their key went down |
| `disk` | 2 tasks and start-up, 3 sectors, a partition of 2, calls of 1 and 2 sectors, failing commands | 324 262 | implements `BlockStore`; the leftover interrupt does no harm; every call returns |
| `fat` | 3 clusters of 2 units, 2 directory entries, 2 names, 2 files open at a time, sizes up to 9, a file of 1 or 2 units first or second in the directory; reads of 1 and writes of 3 units, rewinding | 909 770 | chains end, stay taken and apart; a file that is only appended to has its own data; `pos` and `cblk` agree |
| `memory` | first task and 2 slots, 14 pages, 3 descriptors, page tables of 2 entries, images of 1 and heaps grown by 1 or 2 half pages | 279 672 | a page has one owner and is given back but for two known losses; nothing is mapped twice; nobody loses a page of his own |
| `lost_wakeup` | as `task_life` | | violation: `NoLostWakeup` |

The type invariants of the scheduler, mutexes, semaphores, processes, open files, terminal, disk
and memory are proved, and so are `LinkedUnlessBlocked` (`TaskLife`), `CursorOnScreen`,
`MovesOnPage` and `OnlyTextIsShown` (`Console`). `FatTypeOK` is stated in its module and holds
in the instance of `fat`. No run lists these, since the deeper properties would fail with them.

Why the bounds are enough. Three tasks give a running one, one in front of a
waiter and one behind it, which is what order, hand-over and wake-up properties
need. Slices of two ticks distinguish "used up" from "one left", delays of one
and two ticks let two sleepers become due together or apart. Two mutexes give the
only nesting of the kernel (the page allocator's inside the task table's). Two
slots of the task table give a parent with two children and a grandchild that is
left behind. In `file_table` the tables can fill up on every level. In `tty` the
output queue has one place more than there are tasks: every task may hold a
place for the CR of a newline while it waits for a second one, and with as many
tasks as places they would all wait for each other. The code has 512 places and
128 tasks; `TtyAssumption` states the condition.
In `console` a row end, the last row's end and a scroll all come within three characters,
and both positions next to a tab stop occur; 2 rows and 3 columns keep rows and columns apart;
every command of the parser is written, with none, one and all of its parameters.
In `kbd` every combination of held keys occurs; two codes in the controller are a key with a
prefix, or two keys of which the first has not been read when the second goes down.
In `disk` a call of two sectors waits twice, the partition does not begin at sector 0, two
tasks follow each other with the leftover token there; its deadlock check is off because a
kernel that mounted nothing makes no disk call.
In `fat` the disk fills up before and in the middle of a write, the process whose growth has
failed writes on, files are written in front of their ends and become longer than their chains, a
write spans clusters, ends before, at and behind a cluster's end and needs up to two new clusters,
chains get out of order, and both directory entries can be taken; names and open files are
interchangeable (symmetry).
In `memory` memory runs out at every allocation of every call, a program needs two page
tables, heaps end inside a page and at a page's end, and descriptors (never given back at
reaping) run out; its deadlock check is off
because the assertion of `exec_args` may stop a process and everything may run out, as in the code.
Bounds that cut behaviour: `StackV` (a heap that would reach the stack), `MaxDepth` (re-entry of a mutex), `MaxCount` (tokens
of a semaphore), `Word` in `Fat` (a write that would bring a size to `Word` is not made);
`Word` in `Sched` is arithmetic and not a cut.

### Fairness

- The timer keeps interrupting: weak fairness of `task_time_tick`. Nothing in the
  kernel masks IRQ0 for good.
- A task that is inside a system call and has the CPU goes on with it: strong
  fairness, because ticks keep taking the CPU away from it and `EveryTaskRuns`
  gives it back again and again. In `Mutex` and `Sem` this means that whoever is
  inside unlocks and that the other side notifies; nobody has to start a call.
- `Disk`: a drive comes to an end with every command, well or not, and a pending interrupt is
  delivered (weak fairness of the hardware); a task in a call gets the CPU (weak fairness:
  nobody can shut its step out, since it has the channel).
- `FileTable` and `Tty` abstract from the CPU: a process inside a call takes its
  next step (weak fairness), and where other processes can shut a step out again
  and again (the console's mutex, `fork_copy` and the closes of `sys_exit` while
  others close) the step gets its turn (strong fairness, `EveryWaiterEnters`).
- Nobody has to type, write, fork, open or exit.

## 4. What disagrees with the code's own statements

The run `lost_wakeup` shows one of these. For the others, with the constant named changed in the cfg
of the module's run and the property added, TLC shows the behaviour. Where the passing run
excludes a window, it is exactly the window in which this happens.

| property | set | where | what |
|---|---|---|---|
| `NoLostWakeup` | | `core/task.c:912` | `sys_wait` releases the table's mutex before it marks itself WAITING; a child that exits in between wakes nobody and the parent blocks with a zombie child. Line 976: a waiting parent is woken to reap |
| `PidUnique` | `EmptyName = TRUE` | `core/task.c:742` | `sys_execve` empties the name of a process that runs on, and with it the mark of its slot; the next fork builds a child in the same `task_t`, with the same pid (section 2, `TaskLife`). `FreeSlotIsUnused` fails with it. Line 114: the pid is the address, which is unique ("使用地址，能唯一") |
| `RoomForWrite` | added to `MCFat.cfg` as it is; for files that are only appended to, also `Modes <- AppendModes`, `Offsets = {}`, `Writes = {1, 2}` | `fs/fatfs/fatfs.c:724` | after a growth that failed in the middle of a write, the size is ahead of the position: an append-only process overwrites its own data and then writes behind its chain. Line 666: the file is expanded first |
| `ExpandsAtLastCluster` | added to `MCFat.cfg` as it is | `fs/fatfs/fatfs.c:383` | new clusters are linked behind the position's cluster, which need not be the last: the rest of the chain is lost. Line 337: the current cluster is the last one by then |
| `PidUnique` | `RacyFork = TRUE` | `core/task.c:415` | `alloc_task` does not mark the slot it returns; two forks build the same `task_t` and return the same pid. Line 114: the pid is the address, which is unique ("使用地址，能唯一") |
| `AssertHolds` | `RacyClose = TRUE` | `fs/fs.c:276` | the end of `sys_close` changes `ref` without the mutex and frees the file in steps; an open or close in between breaks `ASSERT(p_file->ref > 0)` of line 274 |
| `KeyHasRoom` | `Overrun = TRUE` | `dev/tty.c:267` | `tty_in` tests the semaphore and not the queue; between a reader's `sem_wait` and its get a key is admitted to a full queue. Line 266: the queue must have room ("辅助队列要有空闲空间可代写入") |
| `SequencesStayWhole` | `Mishaps = {"mix"}` in `Console` | `dev/console.c:559` | the mutex is held while the queue is drained and not for a sequence; another task's text, such as log output, lands between the bytes of an escape sequence and is taken for its command. The comment of line 558 gives the mutex as what keeps writers apart |
| `CursorFollows` | `Mishaps = {"stale"}` in `Console` | `dev/console.c:594` | `curr_console_idx` and the position are read before interrupts go off; a switch in between leaves the cursor of the old console on the screen of the new one |
| `ModifiersMatch` | `Mishaps = {"hasty"}` in `Kbd` | `dev/kbd.c:138` | the keyboard acknowledges both bytes of the LED command, `update_led_status` reads one byte, whatever it is: a key typed before Caps Lock was dealt with is swallowed, a modifier's release with it |
| `SelectedAsAsked` | `Mishaps = {"chord"}` in `Kbd` | `dev/kbd.c:190` | Ctrl and a function key act when the function key is let go as well, although line 158 says that only presses are dealt with; with Ctrl pressed later, or two function keys down, the terminal switches unasked |

`memory` excludes its four windows likewise (`Mishaps`, section 2), `fat` what `Careless` names.
The two disagreements of `fat` above are not excluded: the run goes through them.
The passing runs show that everything else holds outside these windows. `task_life` needs no such
exclusion for the lost wake-up: no property there depends on it.

## 5. What is proved

Every safety property of `sched`, `mutex`, `sem`, `task_life`, `file_table`, `tty`, `disk`,
`memory`, `kbd`, `fat` and `console` that a run checks is also a theorem: invariants,
action properties and the refinements of `OpenFiles`, `Pipe`, `BlockStore` and `Screen`. The theorems hold for any number of tasks, mutexes, semaphores, processes,
descriptors, files, devices, sectors, clusters, pages and consoles, and any size of slices, delays,
queues, calls, clusters, directories, programs, heaps, screens and messages, under the named assumptions of the modules
(`SchedAssumption`, ..., `MemoryAssumption`), which TLC evaluates in every run. Where a run
excludes a window of section 4, the theorem names it as a hypothesis:

| theorems of | hypothesis | without it |
|---|---|---|
| `SchedProofs`, `SemProofs`, the disk, the mutexes | none | |
| `TaskLifeProofs`, the processes | `RacyFork = FALSE` and `EmptyName = FALSE` | `PidUnique` fails (two forks of one slot; a fork of a running process's slot) |
| `FileTableProofs` | `RacyClose = FALSE` | `AssertHolds` fails |
| `TtyProofs` | `Overrun = FALSE` | `KeyHasRoom` fails |
| `ChainsStaySound`, `ContentsStayIntact`, `PositionsFollow` | `Careless = {}` | files are freed under their users, directory entries overwritten, ends sought past (section 2, `Fat`) |
| `MemoryProofs`, except the last | `"twice" \notin Mishaps` and `"nameless" \notin Mishaps` | `PagesApart` or `NothingElseLost` fails |
| `NothingMappedTwice` | `Mishaps = {}` | `AssertUnmapped` fails |
| `CursorIsFollowed` | `"stale" \notin Mishaps` | `CursorFollows` fails |
| `NoModifierSticks` | `"hasty" \notin Mishaps` | `ModifiersMatch` fails |
| `EveryKeyAsPressed`, `SelectedIsAsked` | neither `"hasty"` nor `"chord"` in `Mishaps` | `SelectedAsAsked` fails |
| `SequencesKeepToThePage`, `ConsolesAreScreens` | `"mix" \notin Mishaps` and `WholeMessages` | sequences are torn; `ESC [ row ; col H` is not clamped |
| `SequencesReachTheParser` | the same, and `OneByOne` | `InCommand` counts text behind a sequence in the same message as part of it |

Each proof has the same shape: an inductive invariant, a lemma per action, and the properties as
its consequences.

### Scheduler and lists: `SchedProofs`

`SchedTypeCorrect`, `LinkedOnce`, `HeadRuns`, `SleepersCounted`, `QueuedAreReady`, `NobodyLost`,
`NobodyOvertakes`. The invariants are conjuncts of `SchedInv`, together with what makes them
inductive: the ready list and the sleep list are injective and disjoint, so removing a task from
one list removes it for good; a sleeper has ticks left, so that the tick that takes it to 0 is
also the one that wakes it; every slice is at least 1. The proof rests on a few lemmas about the
list operators (`ListRemove` keeps order and drops exactly one task, `Sublists` exist and are
unique in what they contain). `NobodyOvertakes` is an action property and follows from the same
invariant.

Other modules take more from the scheduler than `SchedSpec` allows: a task may leave the ready
list without entering the sleep list. `SchedInv` is therefore stated without `NoTaskLost`, and
lemmas `BlockInv` and `WakeInv` say what such a step preserves.

`InsertLastAppends`, `InsertFirstPrepends`, `RemoveFirstTakesHead`, `RemoveUnlinks` are about
`List`, from `ListAssumption` (a null pointer is no node), for lists of any length without
repetition. Each says that the memory afterwards holds the sequence that `Sched` computes
(`Append`, `Tail`, `ListRemove`, ...), and that no node outside the list has been written, so
that other lists in the same memory stay as they are.

### Mutexes and semaphores: `TaskLifeProofs`, `SemProofs`

`MutexTypeCorrect`, `RecordCorrect`, `MutexExcludes`, `TasksAtOnePlace`, `NobodyBarges`.
`MutexCore` is `SchedInv`, the types, `Record` (`owner` and `locked_count` as against the
callers), `Apart` (a wake-up links a task, which must not be linked elsewhere) and
`WaitersAskedOnce` (the hand-over sets `locked_count` to 1, which is right only if the waiter had
made one call). Exclusion follows from `Record`: two tasks inside would both be the owner.
`MutexInv` adds that no started task is nowhere. That is so in `Mutex`, but not in `TaskLife`,
where `sys_wait` and `sys_exit` take tasks off all lists; so the lemmas about `mutex_lock` and
`mutex_unlock` need and keep `MutexCore` only, and say what they do to the places (`PlacesKept`).

`SemTypeCorrect`, `TokensAreConserved`, `TasksAtOnePlace`, `ServesInOrder`, from
`SemInv = SchedInv /\ SemTypeOK /\ TokensConserved /\ AtOnePlace /\ WaitersWereStarted`.

### Processes: `TaskLifeProofs`

`ParentsCanReap`, `FreeSlotsUnused`, `LifeLinkedOnce`, `LifeTypeCorrect`, from `LifeInv`, over
`MutexCore` and thus the scheduler. `Placed` says which states have a list; `CallsMatch` that the
table's mutex is held exactly in the sections the code puts under it, so that `MutexExcludes`
excludes two tasks from them; `WhereStates` ties a task's state to its step, which is why nobody
wakes a task that is not in `sys_wait` and why a zombie has passed its children on; `ForkSlots`
is what a fork knows of the slot it is filling. `ParentCanReap` is inductive only with these: the
child that a fork names must not be one whose parent has passed `exit_scan`.

### Open files: `FileTableProofs`

`RefsCountFds`, `DevicesCountFiles`, `CloseAssertHolds`, `TableKeepsPromise`, `FileTypeCorrect`,
from `FileInv`. A count equals the number of descriptors only for files that no call has half
opened or half closed (`Settled`); `CallOK` says what the call in the middle knows instead: the
last `sys_close` has ref 0 and is alone with its descriptor, an open that is not finished has
ref 1 and no device. `Apart` says that no two calls are in the middle of one file. The counting
is about cardinalities of sets of pairs (process, descriptor); lemmas say what opening,
duplicating and closing do to them.

### Terminal: `TtyProofs`

`TokensCountPlaces`, `OutputNotStranded`, `QueuesKeepOrder`, `TtyTypeCorrect`, from `TtyInv`. The
rings are taken modulo their size (`FifosOK`: `write` is `count` cells after `read`);
`CharsCounted` and `PlacesCounted` count a token, or a task that has taken one and not used it,
for every character and place; so the two tests in front of the critical sections (`read_test`,
`put_test`) never find a queue empty or full. `OutputWatched` is `NothingStranded` made
inductive: it names the steps from which a task will look at the queue again, and includes that
the owner of the console's mutex does not leave from a test it made too early. The refinement
maps each ring to the sequence of its cells from `read` on.

### Keyboard: `TtyProofs`

`NoModifierSticks`, `EveryKeyAsPressed`, `SelectedIsAsked`, from `KbdInv`. The three properties
speak of an empty controller; in between, the handler lags behind the keys by whatever waits. So
the invariant looks ahead: the scan codes that wait lead the handler, one by one, from where it
is to where the keys want it, and every character that comes up on the way is the next one that
is due (`OnCourse`, over `Leads` and `Takes`). A key that is pressed or let go makes the way longer by
its codes (`AKey`, from a lemma per kind of key: with the prefix E0, the six codes of Pause, ...), the
handler takes the first step of it. `CapsIsLast` is why the byte that `update_led_status` reads
blindly is the keyboard's acknowledgement, and `OneChord` why letting a function key go does not
switch. That the characters arrive as typed does not depend on the width of the controller's
queue or on how late the interrupts come.

### Disk: `DiskProofs`

`DiskStoresBlocks`, `TokensDoNotDrift`, `DiskTypeCorrect`, from `DiskInv`. `TokensBalance` counts
an interrupt that is pending, or a command that will end in one, as a token; `DriveFollows` says,
for a call that reads and for one that writes, where drive and platter are when the call has got
to a given sector, early or not. The abstract `store` changes in one step, at a write's end; until
then the platter is the store with the first sectors of this call written (`AfterWrites`).

### Files on the disk: `DiskProofs`

`ChainsStaySound`, `ContentsStayIntact`, `PositionsFollow`, from `FatInv`. That a chain ends and shares
nothing does not say what it looks like when it is made longer or another one is freed, so the
invariant gives every file a *path* (`IsPath`): a list of its clusters without repetition, each
linked to the next and the last to an end mark. `Laid` says what a file's path carries: a file
that was only appended to is `Sound`, it has each of its units on its path; an overwritten one
`Lies` on its path and may claim to be longer. The paths of all files are apart. `FilesRight` ties open
files to the directory: an entry is open once at most, `pos` is within the size and `cblk` is
where the path says, or no cluster behind its end; a file open for reading agrees with its
entry. `CallRight` is what a read or write knows between two rounds. A write either `Appends`, at
the end of a sound file (in the middle of `move_file_pos` it has filled the last cluster, and
after `expand_file` there is a next one), or it `Overwrites` and is known only to write
into its own file's path or into no cluster at all (`OnItsChain`); after a growth that failed in
`move_file_pos` the position is in front of the size, so that the next write overwrites. It also
has to exclude another system's end mark from the chain being written (`NoHostEnd`), as `move_file_pos` compares with
the code's own mark only.

The operators that follow a chain (`Nth`, `Chain`) are first proved to be recursive for every
length (`NthRec`), then to go along the path and off it (`PathNth`, `PathChain`). The induction
this takes is over a set of numbers and not over a predicate: a non-empty set of naturals has a
least element (`LeastOf`, from the library's `WFMin`), which gives `Induction`. On top of these
stand `PathFrame` (whoever leaves a path's clusters alone leaves the path), `PathAppend` (how
`expand_file` makes it longer), `PathOnly` and `LiesOnPath` (what following a chain finds for a file that
claims more than it has), `Enumerate` and `LinkedPath` (the clusters `cluster_alloc_free` finds
and links are a path), and `WriteSound` (a round of a write appends to the file's units). `InvStep` collects
what every action has to show for the one file it acts on; each action then has its lemma
(`OpenNew`, `Unlink`, `CopyWritten`, `Refused`, `Expand`, ...). An append may link its clusters in front of one allocated before
(`ExpandsAtLastCluster`, section 2): the path is cut at the position and goes on along the new
clusters. Of a file that was only appended to no unit was behind the cut, which the proof shows; of
an overwritten one the cut-off rest is lost, and what is proved is that the file still has a path.

### Memory: `MemoryProofs`

`PagesHaveOneOwner`, `NothingElseLeaks`, `SpacesAreKept`, `MemoryTypeCorrect`, from `MemInv`, and
`NothingMappedTwice`. `Control` says who is where: callers run, the slot a fork fills is free, the
child it copies to is created, the one that is reaped is a zombie, and a space that is being
built or destroyed is nobody's (`DirPrivate`). `Owners` splits the allocated pages into kernel
stacks, pages in a caller's hand, directories, page tables and mapped pages, which are disjoint
(`PagesSplit`), and says that each page is used once in its own set (`OneStack`, ...,
`OneAddress`). A directory that has no owner is empty (`ClearElsewhere`): a page that becomes a
directory does not bring old entries with it. `PagesApart` is about cardinalities; it follows as
the sizes of the five sets add up to that of their union.

`HeapInv` is needed for `NothingMappedTwice` only. It says of every process what is mapped where:
up to the heap's end, rounded up to pages, and at the stack (`HeapRight`); below the
program's end while it is loaded (`LoadsBelow`); up to the old end and what the call has mapped
since in `sys_sbrk` (`GrowsAbove`); and that a call wants only addresses that are not mapped yet
(`WantsNew`). It stands on three lemmas about rounding up to pages.

### Consoles: `ConsoleProofs`

`CursorIsFollowed`, from `CursorInv`: where the records of `console_t` are (`Shapes`), and that
whoever has found its console to be the selected one is alone until its position is output, and
that position is right (`PositionRight`). No byte moves a console's `disp_base`; that takes one
lemma per helper (`MovesKeep`, `CharsKeep`, `WrittenKeeps`).

`CursorStaysOnScreen`, `LineStaysOnScreen` and `PagesAreScreens`, from `ScreenInv`: every cursor
and saved cursor on its page (`OnPage`) and the typed line there up to the cursor (`LineOn`). First
come the places: cells are read row by row and the pages of two consoles have no cell in common
(`RowByRow`, `PageCells`, `ScreensApart`), for all sizes, so the products are reasoned about and
not computed. Then `WrittenEffect` says for a byte of every kind what it does to the page, with
one lemma per helper, and that nothing outside the page changes (`Within`). `LineGrows`, `LineShrinks`
and `LineStays` derive the line from it, and `ByteIsSeen` that it is a step of `Screen`. These
theorems are about every behaviour with `[]MovesOnPage`, and for the refinement
`[]OnlyTextIsShown`, whoever writes.

`SequencesKeepToThePage` derives both from the writers: each message, for a parser that is in no
sequence, is text or whole sequences that keep to the page (`WholeMessages`), and no other writer
comes between its bytes. `Sound` says of the bytes still to come that the parser may be given
them one by one and is in no sequence at the end; `StreamInv` says it of what is in a
console's queue and with its writer, taken together. Putting a byte leaves the two together as they
are, draining takes the head off (`SoundHead`), a new message comes behind (`SoundMore`). The messages
of the run are of this kind; so is every text (`TextIsWhole`), and the shell's
`ESC_CLEAR_SCREEN` (`ClearScreenIsWhole`). `ConsolesAreScreens` puts it all together.

`SequencesReachTheParser` is about the parser and the writer. A message is text or one sequence
(`OneByOne`), as all messages of the run are and `ESC_CLEAR_SCREEN` is (`ClearScreenIsSequence`): after a
sequence (`Ends`) a parser is in no sequence any more, and not before. `SequenceInv` names
for each console the state its parser will have reached when the queue is empty (`Reaches`), says
that what the writer has left fits that state (`Comes`: it is text, a sequence not yet begun, or
the rest of the one the parser will be in), and that a queue with bytes has a task about to drain
it. Putting a byte moves that state on (`ReachesMore`, `ComesNext`), draining one does not
(`ReachesTail`). When nobody drains, the state is the parser's own, and a rest of text is no rest
of a sequence because they end differently (`SuffixOfSequence`).

### Only model-checked, and why

- All liveness (`EveryTaskRuns`, `EveryWaiterEnters`, `NotifiedWaiterRuns`, `ExitCompletes`,
  `ExitReleases`, `WritesReturn`, `CallsReturn`): temporal logic with fairness is beyond the provers.
- What `Bitmap`'s search finds (`OnePageAtATime`): a definition TLC evaluates, for bitmaps of six bits.
- `FatTypeOK`: `FatInv` has the types of what is open and live; entries that are out of date are
  left to TLC.

## 6. Not modelled, and why

- **Console**: hiding the cursor (`console_set_cursor`, `TTY_CMD_ECHO`), parameters and
  positions beyond the screen (section 2), opening a closed terminal again.
- **FAT**: `readdir` (it moves an index that only its caller has) and `mount`, the sector cache and what a crash between two sector
  writes leaves behind; failing disk accesses other than those behind the end of a chain.
- **`task_list`** of the task manager, which nothing reads (section 2, `List`).
- **Start-up**: boot sector, loaders, `kernel_init`, creating the kernel's page table,
  mounting. Straight-line code that runs once, before there is a second process.
- **Hardware entry**: interrupt stubs, the system-call gate, TSS switching. The models
  rest on what they provide: handlers run with interrupts off, system calls with
  interrupts on, and a switch changes only who runs.
- **Formatting, logging, string routines**: no property of the kernel's state is about them.
- **User programs**: they only decide which system calls are made.

## 7. Plan

Done: scheduler, mutex, semaphore, lists, process life cycle, open files, terminal queues, disk,
FAT, memory, consoles, keyboard (checked and proved); bitmap (checked).

1. Next proof: `FatTypeOK`.
2. Next modules: what a crash between two sector writes of `Fat` leaves behind.
