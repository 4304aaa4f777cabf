----------------------------- MODULE OpenFiles -----------------------------
(***************************************************************************)
(* What the open-file table promises its users, without reference counts:  *)
(* a file that any file descriptor of any process refers to is never       *)
(* given to another open, and only a process itself (or its parent, in     *)
(* fork) changes its descriptors.  FileTable implements this.              *)
(***************************************************************************)
CONSTANTS Procs, Fds, Files, NoFile

VARIABLE fds    (* the open file behind each descriptor of each process    *)

InUse(f) == \E p \in Procs, i \in Fds : fds[p][i] = f

Init == fds = [p \in Procs |-> [i \in Fds |-> NoFile]]

\* open: a file that nobody uses.
Open(p, i) ==
    /\ fds[p][i] = NoFile
    /\ \E f \in Files : ~InUse(f) /\ fds' = [fds EXCEPT ![p][i] = f]

\* dup: one of the process's own files, under another descriptor.
Dup(p, i) ==
    /\ fds[p][i] = NoFile
    /\ \E j \in Fds : fds[p][j] # NoFile /\ fds' = [fds EXCEPT ![p][i] = fds[p][j]]

\* fork: a child has its parent's file under the same descriptor.
Inherit(p, i) ==
    /\ fds[p][i] = NoFile
    /\ \E q \in Procs : fds[q][i] # NoFile /\ fds' = [fds EXCEPT ![p][i] = fds[q][i]]

Close(p, i) == fds[p][i] # NoFile /\ fds' = [fds EXCEPT ![p][i] = NoFile]

Next == \E p \in Procs, i \in Fds : Open(p, i) \/ Dup(p, i) \/ Inherit(p, i) \/ Close(p, i)

Spec == Init /\ [][Next]_fds
=============================================================================
