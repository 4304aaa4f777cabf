----------------------------- MODULE FileTable -----------------------------
(***************************************************************************)
(* Open files: file_table and its reference counts (fs/file.c), the file   *)
(* descriptors of each process (core/task.c), sys_open, sys_dup and        *)
(* sys_close (fs/fs.c), what fork and exit do to them, and the devices     *)
(* behind files of devfs with their open counts (dev/dev.c).               *)
(*                                                                         *)
(* The processes run these system calls with interrupts on.  A step covers *)
(* the code between two points where another process matters: a section    *)
(* under file_alloc_mutex (the mutex is the subject of module Mutex), one  *)
(* with interrupts off (dev_open, dev_close), one access to a shared       *)
(* field.  A process's own descriptors are touched by nobody else.         *)
(*                                                                         *)
(* sys_close decrements `ref' without the mutex; -O0 code loads it and     *)
(* stores the result in separate instructions, close_load and close_dec.   *)
(***************************************************************************)
EXTENDS Integers, FiniteSets

CONSTANTS Procs,      (* the task_t slots                                  *)
          First,      (* the first process, which never exits              *)
          MaxFd,      (* TASK_OFILE_NR - 1                                 *)
          Files,      (* the elements of file_table                        *)
          NoFile,     (* a null pointer in a process's file_table          *)
          DevIds,     (* the elements of dev_tbl                           *)
          NoDev,      (* dev_id -1; an element of dev_tbl without desc     *)
          Minors,     (* the devices the tty driver can open               *)
          Paths,      (* all names processes open; the rest are FAT files  *)
          RacyClose   (* FALSE: between the load of ref in sys_close and   *)
                      (* its return nobody else enters a step that reads   *)
                      (* or changes a ref                                  *)

ASSUME FileAssumption ==
       /\ IsFiniteSet(Procs) /\ First \in Procs
       /\ MaxFd \in Nat
       /\ IsFiniteSet(Files)
       /\ NoFile \notin Files /\ NoDev \notin DevIds \cup Minors
       /\ Minors \subseteq Paths
       /\ RacyClose \in BOOLEAN

VARIABLES ref,         (* file_t.ref                                       *)
          file_name,   (* file_t.file_name                                 *)
          dev_id,      (* file_t.dev_id                                    *)
          file_table,  (* task_t.file_table                                *)
          minor,       (* device_t.minor, NoDev while desc is null         *)
          open_count,  (* device_t.open_count                              *)
          pc,          (* the step each process takes next                 *)
          file, fd,    (* the file_t and descriptor a call works on        *)
          old,         (* the value sys_close loaded from ref              *)
          child,       (* the process a fork is copying to                 *)
          exiting      (* the processes in the first loop of sys_exit      *)

fileVars == <<ref, file_name, dev_id>>
devVars == <<minor, open_count>>
localVars == <<pc, file, fd, old, child, exiting>>
vars == <<fileVars, devVars, file_table, localVars>>

Fds == 0 .. MaxFd
Steps == {"gone", "new", "user", "opening", "open_failed", "copying",
          "close_dec", "close_fs", "close_free"}
-----------------------------------------------------------------------------
Init ==
    /\ ref = [f \in Files |-> 0]
    /\ file_name = [f \in Files |-> NoDev]
    /\ dev_id = [f \in Files |-> NoDev]
    /\ file_table = [p \in Procs |-> [i \in Fds |-> NoFile]]
    /\ minor = [d \in DevIds |-> NoDev]
    /\ open_count = [d \in DevIds |-> 0]
    /\ pc = [p \in Procs |-> IF p = First THEN "user" ELSE "gone"]
    /\ file = [p \in Procs |-> NoFile]
    /\ fd = [p \in Procs |-> 0]
    /\ old = [p \in Procs |-> 0]
    /\ child = [p \in Procs |-> p]
    /\ exiting = {}

Goto(p, step) == pc' = [pc EXCEPT ![p] = step]

\* The call returns: its locals are gone.
Return(p) ==
    /\ Goto(p, "user")
    /\ file' = [file EXCEPT ![p] = NoFile]
    /\ fd' = [fd EXCEPT ![p] = 0]
    /\ old' = [old EXCEPT ![p] = 0]

\* p can start a system call on files.
Free(p) == pc[p] = "user" /\ p \notin exiting

\* p is in sys_close, past the load of ref.
Closing(p) == pc[p] \in {"close_dec", "close_fs", "close_free"}

Undisturbed(p) == RacyClose \/ \A q \in Procs \ {p} : ~Closing(q)

Used(p) == {i \in Fds : file_table[p][i] # NoFile}

\* The descriptors the loop of sys_exit still finds open.
Remaining_ButLast(p) == Used(p) \ {MaxFd}
Remaining(p) == Used(p)

\* task_alloc_fd: the lowest descriptor that is not in use.
FirstFree(p) == CHOOSE i \in Fds \ Used(p) : \A j \in Fds \ Used(p) : i <= j

\* file_alloc takes a file_t that nobody refers to.
Unreferenced_OrOne(f) == ref[f] <= 1
Unreferenced(f) == ref[f] = 0

\* file_inc_ref
IncRef_Forgotten(f) == ref
IncRef(f) == [ref EXCEPT ![f] = @ + 1]

\* sys_open up to the call of the file system: file_alloc, then task_alloc_fd.
\* With no file_t left the call returns -1 and nothing has changed.
open_alloc(p) ==
    /\ Free(p)
    /\ Undisturbed(p)
    /\ \E f \in Files, name \in Paths :
        /\ Unreferenced(f)
        /\ ref' = [ref EXCEPT ![f] = 1]
        /\ file_name' = [file_name EXCEPT ![f] = name]
        /\ dev_id' = [dev_id EXCEPT ![f] = NoDev]
        /\ file' = [file EXCEPT ![p] = f]
        /\ \/ /\ Used(p) # Fds
              /\ file_table' = [file_table EXCEPT ![p][FirstFree(p)] = f]
              /\ Goto(p, "opening")
           \/ /\ Used(p) = Fds
              /\ Goto(p, "open_failed")
              /\ UNCHANGED file_table
    /\ UNCHANGED <<devVars, fd, old, child, exiting>>

\* sys_open_failed, reached when the process is out of descriptors: file_free.
open_failed(p) ==
    /\ pc[p] = "open_failed"
    /\ Undisturbed(p)
    /\ ref' = [ref EXCEPT ![file[p]] = IF @ # 0 THEN @ - 1 ELSE @]
    /\ Return(p)
    /\ UNCHANGED <<file_name, dev_id, devVars, file_table, child, exiting>>

\* dev_open finds the device open: one more user of it.
AlreadyOpen_Never(m) == {}
AlreadyOpen(m) == {d \in DevIds : open_count[d] > 0 /\ minor[d] = m}

dev_open(p, m) ==
    \/ \E d \in AlreadyOpen(m) :
        /\ open_count' = [open_count EXCEPT ![d] = @ + 1]
        /\ dev_id' = [dev_id EXCEPT ![file[p]] = d]
        /\ UNCHANGED minor
    \/ /\ AlreadyOpen(m) = {}
       /\ \E d \in DevIds :
            /\ open_count[d] = 0
            /\ open_count' = [open_count EXCEPT ![d] = 1]
            /\ minor' = [minor EXCEPT ![d] = m]
            /\ dev_id' = [dev_id EXCEPT ![file[p]] = d]

\* The file system's open.  When it fails (no such file, dev_tbl full, the driver refuses)
\* sys_open returns -1 at once: the descriptor and the file_t stay taken.
open_fs(p) ==
    /\ pc[p] = "opening"
    /\ LET name == file_name[file[p]] IN
        \/ name \in Minors /\ dev_open(p, name)
        \/ (name \in Minors => AlreadyOpen(name) = {}) /\ UNCHANGED <<dev_id, devVars>>
    /\ Return(p)
    /\ UNCHANGED <<ref, file_name, file_table, child, exiting>>

\* sys_dup
dup(p, i) ==
    LET f == file_table[p][i] IN
    /\ Free(p)
    /\ Undisturbed(p)
    /\ i \in Used(p)
    /\ Used(p) # Fds
    /\ file_table' = [file_table EXCEPT ![p][FirstFree(p)] = f]
    /\ ref' = IncRef(f)
    /\ UNCHANGED <<file_name, dev_id, devVars, localVars>>

\* fork, once it has a slot for the child: copy_opened_files, one descriptor at a time.
fork_begin(p, c) ==
    /\ Free(p)
    /\ pc[c] = "gone"
    /\ child' = [child EXCEPT ![p] = c]
    /\ pc' = [pc EXCEPT ![p] = "copying", ![c] = "new"]
    /\ UNCHANGED <<fileVars, devVars, file_table, file, fd, old, exiting>>

fork_copy(p) ==
    /\ pc[p] = "copying"
    /\ Undisturbed(p)
    /\ \E i \in Used(p) \ Used(child[p]) :
        /\ \A j \in Used(p) \ Used(child[p]) : i <= j
        /\ ref' = IncRef(file_table[p][i])
        /\ file_table' = [file_table EXCEPT ![child[p]][i] = file_table[p][i]]
    /\ UNCHANGED <<file_name, dev_id, devVars, localVars>>

fork_end(p) ==
    /\ pc[p] = "copying"
    /\ Used(p) = Used(child[p])
    /\ pc' = [pc EXCEPT ![p] = "user", ![child[p]] = "user"]
    /\ child' = [child EXCEPT ![p] = p]
    /\ UNCHANGED <<fileVars, devVars, file_table, file, fd, old, exiting>>

\* sys_close, by a process for itself or in sys_exit, which closes in the order of the fds.
close_load(p, i) ==
    /\ pc[p] = "user"
    /\ Undisturbed(p)
    /\ i \in Used(p)
    /\ p \in exiting => i \in Remaining(p) /\ \A j \in Remaining(p) : i <= j
    /\ file' = [file EXCEPT ![p] = file_table[p][i]]
    /\ fd' = [fd EXCEPT ![p] = i]
    /\ old' = [old EXCEPT ![p] = ref[file_table[p][i]]]
    /\ Goto(p, "close_dec")
    /\ UNCHANGED <<fileVars, devVars, file_table, child, exiting>>

\* task_remove_fd
RemoveFd(p) == file_table' = [file_table EXCEPT ![p][fd[p]] = NoFile]

\* The last reference closes the file.
LastReference_Always(p) == TRUE
LastReference(p) == old[p] = 1

close_dec(p) ==
    /\ pc[p] = "close_dec"
    /\ ref' = [ref EXCEPT ![file[p]] = old[p] - 1]
    /\ \/ LastReference(p) /\ Goto(p, "close_fs") /\ UNCHANGED <<file_table, file, fd, old>>
       \/ ~LastReference(p) /\ RemoveFd(p) /\ Return(p)
    /\ UNCHANGED <<file_name, dev_id, devVars, child, exiting>>

\* dev_close: the last user closes the driver and clears the element of dev_tbl.
LastUser(d) == open_count[d] = 1

is_devid_bad(d) == d \notin {e \in DevIds : minor[e] # NoDev}

dev_close(d) ==
    \/ /\ ~is_devid_bad(d)
       /\ open_count' = [open_count EXCEPT ![d] = IF LastUser(d) THEN 0 ELSE @ - 1]
       /\ minor' = [minor EXCEPT ![d] = IF LastUser(d) THEN NoDev ELSE @]
    \/ is_devid_bad(d) /\ UNCHANGED devVars

\* The file system's close.
close_fs(p) ==
    /\ pc[p] = "close_fs"
    /\ dev_close(dev_id[file[p]])
    /\ Goto(p, "close_free")
    /\ UNCHANGED <<fileVars, file_table, file, fd, old, child, exiting>>

\* file_free, then task_remove_fd.
close_free(p) ==
    /\ pc[p] = "close_free"
    /\ ref' = [ref EXCEPT ![file[p]] = IF @ # 0 THEN @ - 1 ELSE @]
    /\ RemoveFd(p)
    /\ Return(p)
    /\ UNCHANGED <<file_name, dev_id, devVars, child, exiting>>

\* sys_exit: its first loop closes every file.
exit_begin(p) ==
    /\ Free(p)
    /\ p # First
    /\ exiting' = exiting \cup {p}
    /\ UNCHANGED <<fileVars, devVars, file_table, pc, file, fd, old, child>>

exit_end(p) ==
    /\ pc[p] = "user"
    /\ p \in exiting
    /\ Remaining(p) = {}
    /\ exiting' = exiting \ {p}
    /\ Goto(p, "gone")
    /\ UNCHANGED <<fileVars, devVars, file_table, file, fd, old, child>>

Begin(p) ==
    \/ open_alloc(p)
    \/ \E i \in Fds : dup(p, i)
    \/ \E c \in Procs : fork_begin(p, c)
    \/ exit_begin(p)

Continue(p) ==
    \/ open_failed(p) \/ open_fs(p)
    \/ fork_copy(p) \/ fork_end(p)
    \/ close_dec(p) \/ close_fs(p) \/ close_free(p)
    \/ exit_end(p)

Next == \E p \in Procs : Begin(p) \/ Continue(p) \/ \E i \in Fds : close_load(p, i)

(* A process inside a system call gets the CPU again and again (EveryTaskRuns of *)
(* module Sched), and its code has no loop without progress.                     *)
Fairness ==
    \A p \in Procs :
        /\ WF_vars(Continue(p))
        /\ SF_vars(fork_copy(p))
        /\ SF_vars(p \in exiting /\ \E i \in Fds : close_load(p, i))

Spec == Init /\ [][Next]_vars /\ Fairness
-----------------------------------------------------------------------------
FileTypeOK ==
    /\ ref \in [Files -> Nat]
    /\ file_name \in [Files -> Paths \cup {NoDev}]
    /\ dev_id \in [Files -> DevIds \cup {NoDev}]
    /\ file_table \in [Procs -> [Fds -> Files \cup {NoFile}]]
    /\ minor \in [DevIds -> Minors \cup {NoDev}]
    /\ open_count \in [DevIds -> Nat]
    /\ pc \in [Procs -> Steps]
    /\ file \in [Procs -> Files \cup {NoFile}]
    /\ fd \in [Procs -> Fds]
    /\ old \in [Procs -> Nat]
    /\ child \in [Procs -> Procs]
    /\ exiting \subseteq Procs

\* The descriptors that refer to f, and the processes at one of `steps' with f.
Holders(f) == {h \in Procs \X Fds : file_table[h[1]][h[2]] = f}
WorkingOn(f, steps) == {p \in Procs : pc[p] \in steps /\ file[p] = f}

\* ref counts the descriptors, except that the last sys_close has given its reference up
\* before it removes the descriptor, and an open that found no descriptor still holds one.
RefsMatchFds ==
    \A f \in Files :
        ref[f] = Cardinality(Holders(f))
                 - Cardinality(WorkingOn(f, {"close_fs", "close_free"}))
                 + Cardinality(WorkingOn(f, {"open_failed"}))

\* The files that are open on device d; the last sys_close gives ref up before the device.
OpenOn(d) == {f \in Files : dev_id[f] = d /\ (ref[f] > 0 \/ WorkingOn(f, {"close_fs"}) # {})}

\* A device's open count is the number of files that are open on it, and it is open once.
DevicesMatchFiles ==
    /\ \A d \in DevIds : open_count[d] = Cardinality(OpenOn(d))
    /\ \A d, e \in DevIds : open_count[d] > 0 /\ minor[d] = minor[e] => d = e

\* sys_exit leaves no descriptor open.
ExitReleases == \A p \in Procs : p \in exiting ~> pc[p] = "gone" /\ Used(p) = {}

\* What users of the table rely on.
Promise == INSTANCE OpenFiles WITH fds <- file_table
KeepsPromise == Promise!Spec

\* fs.c:274 ASSERT(p_file->ref > 0): a file that a descriptor refers to has a reference.
AssertHolds == \A p \in Procs : pc[p] = "close_dec" => old[p] > 0
=============================================================================
