-------------------------------- MODULE Disk --------------------------------
(***************************************************************************)
(* The ATA disk, dev/disk.c.  A call takes the channel's mutex, sends one  *)
(* command and then moves sector after sector; for each it waits on op_sem *)
(* for the drive's interrupt, looks at the status until the drive is not   *)
(* busy, and stops at an error.  While the kernel starts there are no      *)
(* tasks and no interrupts: the same code then only looks at the status,   *)
(* and the interrupts of these commands wait in the interrupt controller   *)
(* until the first task runs.                                              *)
(*                                                                         *)
(* The drives and the interrupt controller are hardware.  op_sem is used   *)
(* as module Sem shows a semaphore to work, the mutex has one owner        *)
(* (module Mutex).                                                         *)
(***************************************************************************)
EXTENDS Integers, Sequences, SequencesExt

CONSTANTS Procs,      (* tasks that use the disk                           *)
          Boot,       (* the kernel's start-up, before there are tasks     *)
          Nobody,     (* nobody holds the mutex                            *)
          Junk,       (* what the data port gives when there is no data    *)
          DiskSize,   (* sectors per drive                                 *)
          Mbr,        (* per drive that exists: <<start, length>> of its   *)
                      (* partitions, length 0 for none                     *)
          Minors,     (* <<drive, partition>> that somebody opens          *)
          MaxCount,   (* bound on the sectors of one call                  *)
          Faults      (* whether a drive may report errors                 *)

Callers == Procs \cup {Boot}
Lbas == 0 .. DiskSize - 1
NoPart == <<0, 0, 0>>

ASSUME DiskAssumption ==
       /\ Boot \notin Procs /\ Nobody \notin Callers
       /\ {DiskSize, MaxCount} \subseteq Nat \ {0}
       /\ \A d \in DOMAIN Mbr : \A i \in DOMAIN Mbr[d] :
            Mbr[d][i] \in Nat \X Nat /\ Mbr[d][i][1] + Mbr[d][i][2] <= DiskSize
       /\ \A m \in Minors : m[1] \in DOMAIN Mbr => m[2] = 0 \/ m[2] \in DOMAIN Mbr[m[1]]
       /\ Faults \in BOOLEAN

VARIABLES part,        (* the open device's partition, <<drive, start, length>> *)
          started,     (* tasks run (task_current() # 0), interrupts are on *)
          task_on_op,
          tokens,      (* op_sem: its count ...                            *)
          waiting,     (* ... and its waiters                              *)
          owner,       (* who holds the channel's mutex                    *)
          pc, call,    (* the callers                                      *)
          \* hardware
          ata,         (* the selected drive                               *)
          platter,     (* what the sectors of the open drive hold          *)
          irq,         (* IRQ 14 is pending                                *)
          \* what only observes
          store,       (* what the completed calls have left               *)
          out,         (* what the last call returned, and to whom         *)
          leftover     (* interrupts kept for the first task               *)

semVars == <<tokens, waiting>>
seen == <<store, out, leftover>>
vars == <<part, started, task_on_op, semVars, owner, pc, call, ata, platter, irq, seen>>

\* The i-th sector of a caller's buffer.
Datum(p, i) == <<p, i>>
Idle == [state |-> "idle", cmd |-> "none", lba |-> 0, left |-> 0, data |-> Junk]
NoCall == [cmd |-> "none", lba |-> 0, count |-> 0, cnt |-> 0, buf |-> <<>>]

\* disk_init has identified the drives by polling: their interrupts may be pending.
Init ==
    /\ part = NoPart
    /\ started = FALSE
    /\ task_on_op = FALSE
    /\ tokens = 0 /\ waiting = <<>>
    /\ owner = Nobody
    /\ pc = [p \in Callers |-> "user"]
    /\ call = [p \in Callers |-> NoCall]
    /\ ata = Idle
    /\ platter = [l \in Lbas |-> Datum(Boot, 0)]
    /\ irq \in BOOLEAN
    /\ store = platter
    /\ out = <<Nobody, <<>> >>
    /\ leftover = 0

\* partinfo, as identify_disk and detect_part_info fill it: 0 is the whole drive.
Partinfo(d, i) == IF i = 0 THEN <<d, 0, DiskSize>> ELSE <<d, Mbr[d][i][1], Mbr[d][i][2]>>

\* disk_open, by the mount of the root file system.
disk_open(d, i) ==
    /\ ~started /\ part = NoPart
    /\ d \in DOMAIN Mbr
    /\ Partinfo(d, i)[3] # 0
    /\ part' = Partinfo(d, i)
    /\ UNCHANGED <<started, task_on_op, semVars, owner, pc, call, ata, platter, irq, seen>>

\* The first task runs.  The controller may or may not have kept the interrupt of a
\* command whose status the kernel has read since.
start ==
    /\ ~started
    /\ pc[Boot] = "user"
    /\ started' = TRUE
    /\ irq' \in {irq, FALSE}
    /\ leftover' = IF irq' /\ task_on_op THEN 1 ELSE 0
    /\ UNCHANGED <<part, task_on_op, semVars, owner, pc, call, ata, platter, store, out>>

\* A caller takes its next step: with interrupts on, a pending one comes first.
At(p, step) ==
    /\ pc[p] = step
    /\ IF started THEN p # Boot /\ ~irq ELSE p = Boot
    /\ ~Contains(waiting, p)
Goto(p, step) == pc' = [pc EXCEPT ![p] = step]
-----------------------------------------------------------------------------
(* The hardware.                                                             *)

\* The drive is done with the sector it is busy with.
drive_done ==
    /\ ata.state = "busy"
    /\ irq' = TRUE
    /\ \/ /\ ata.cmd = "read"
          /\ ata' = [ata EXCEPT !.state = "drq", !.data = platter[ata.lba]]
          /\ UNCHANGED platter
       \/ /\ ata.cmd = "write"
          /\ platter' = [platter EXCEPT ![ata.lba] = ata.data]
          /\ ata' = IF ata.left = 1 THEN Idle
                    ELSE [ata EXCEPT !.state = "drq", !.lba = @ + 1, !.left = @ - 1, !.data = Junk]
    /\ UNCHANGED <<part, started, task_on_op, semVars, owner, pc, call, seen>>

drive_fails ==
    /\ Faults /\ ata.state = "busy"
    /\ irq' = TRUE
    /\ ata' = [Idle EXCEPT !.state = "err"]
    /\ UNCHANGED <<part, started, task_on_op, semVars, owner, pc, call, platter, seen>>

\* A word read from the data port, when the drive has data: it goes on with the next sector.
Taken == CASE ata.state # "drq" -> ata
           [] ata.left = 1 -> Idle
           [] OTHER -> [ata EXCEPT !.state = "busy", !.lba = @ + 1, !.left = @ - 1, !.data = Junk]

Given(datum) == IF ata.state = "drq" THEN [ata EXCEPT !.state = "busy", !.data = datum] ELSE ata
-----------------------------------------------------------------------------
\* do_handler_ide_primary
sem_notify_NoToken == /\ waiting' = IF waiting = <<>> THEN waiting ELSE Tail(waiting)
                      /\ UNCHANGED tokens

sem_notify ==
    \/ waiting # <<>> /\ waiting' = Tail(waiting) /\ UNCHANGED tokens
    \/ waiting = <<>> /\ tokens' = tokens + 1 /\ UNCHANGED waiting

do_handler_ide_primary ==
    /\ started /\ irq
    /\ irq' = FALSE
    /\ IF task_on_op THEN sem_notify ELSE UNCHANGED semVars
    /\ UNCHANGED <<part, started, task_on_op, owner, pc, call, ata, platter, seen>>
-----------------------------------------------------------------------------
(* disk_read and disk_write.                                                 *)

\* The file system asks for sectors of its partition only.
disk_call(p, cmd, start_sector, count) ==
    /\ At(p, "user")
    /\ part # NoPart
    /\ start_sector + count <= part[3]
    /\ p = Boot => cmd = "read"
    /\ call' = [call EXCEPT ![p] = [cmd |-> cmd, lba |-> part[2] + start_sector,
                                    count |-> count, cnt |-> 0, buf |-> <<>>]]
    /\ Goto(p, "lock")
    /\ UNCHANGED <<part, started, task_on_op, semVars, owner, ata, platter, irq, seen>>

lock(p) ==
    /\ At(p, "lock")
    /\ owner = Nobody
    /\ owner' = p
    /\ task_on_op' = TRUE
    /\ Goto(p, "send")
    /\ UNCHANGED <<part, started, semVars, call, ata, platter, irq, seen>>

\* ata_send_cmd: a drive asks for the first sector of a write at once, without interrupt.
ata_send_cmd(p) ==
    LET c == call[p] IN
    /\ At(p, "send")
    /\ ata' = [state |-> IF c.cmd = "read" THEN "busy" ELSE "drq", cmd |-> c.cmd,
               lba |-> c.lba, left |-> c.count, data |-> Junk]
    /\ Goto(p, IF c.cmd = "read" THEN "wait" ELSE "give")
    /\ UNCHANGED <<part, started, task_on_op, semVars, owner, call, platter, irq, seen>>

\* ata_write_data
ata_write_data(p) ==
    /\ At(p, "give")
    /\ ata' = Given(Datum(p, call[p].cnt + 1))
    /\ Goto(p, "wait")
    /\ UNCHANGED <<part, started, task_on_op, semVars, owner, call, platter, irq, seen>>

\* sem_wait of op_sem, skipped while there are no tasks.
Waits_NotAgain(p) == started /\ call[p].cnt = 0
Waits(p) == started

wait(p) ==
    /\ At(p, "wait")
    /\ Goto(p, "poll")
    /\ IF ~Waits(p) THEN UNCHANGED semVars
       ELSE IF tokens > 0 THEN tokens' = tokens - 1 /\ UNCHANGED waiting
                          ELSE waiting' = Append(waiting, p) /\ UNCHANGED tokens
    /\ UNCHANGED <<part, started, task_on_op, owner, call, ata, platter, irq, seen>>

\* ata_wait_data spins until the drive is not busy, or has data or an error.
Settled_Always == TRUE
Settled == ata.state # "busy"

\* Another sector is done: the next one, or the end.
Done(p) == /\ call' = [call EXCEPT ![p].cnt = @ + 1]
           /\ Goto(p, IF call[p].cnt + 1 = call[p].count THEN "unlock"
                      ELSE IF call[p].cmd = "read" THEN "wait" ELSE "give")

poll(p) ==
    /\ At(p, "poll")
    /\ Settled
    /\ IF ata.state = "err" THEN Goto(p, "unlock") /\ UNCHANGED call
       ELSE IF call[p].cmd = "write" THEN Done(p)
       ELSE Goto(p, "take") /\ UNCHANGED call
    /\ UNCHANGED <<part, started, task_on_op, semVars, owner, ata, platter, irq, seen>>

\* ata_read_data
ata_read_data(p) ==
    LET word == IF ata.state = "drq" THEN ata.data ELSE Junk
        c == call[p]
    IN
    /\ At(p, "take")
    /\ ata' = Taken
    /\ call' = [call EXCEPT ![p] = [c EXCEPT !.cnt = @ + 1, !.buf = Append(@, word)]]
    /\ Goto(p, IF c.cnt + 1 = c.count THEN "unlock" ELSE "wait")
    /\ UNCHANGED <<part, started, task_on_op, semVars, owner, platter, irq, seen>>

\* The call is over: it returns how many sectors it has moved.
unlock(p) ==
    LET c == call[p] IN
    /\ At(p, "unlock")
    /\ owner' = Nobody
    /\ store' = platter
    /\ out' = <<p, IF c.cmd = "read" THEN c.buf ELSE [i \in 1 .. c.cnt |-> Datum(p, i)]>>
    /\ call' = [call EXCEPT ![p] = NoCall]
    /\ Goto(p, "user")
    /\ UNCHANGED <<part, started, task_on_op, semVars, ata, platter, irq, leftover>>

Calls(p) == \E cmd \in {"read", "write"}, s \in Lbas, n \in 1 .. MaxCount : disk_call(p, cmd, s, n)

Continue(p) ==
    ata_send_cmd(p) \/ ata_write_data(p) \/ wait(p) \/ poll(p) \/ ata_read_data(p) \/ unlock(p)

Next ==
    \/ \E m \in Minors : disk_open(m[1], m[2])
    \/ start
    \/ drive_done \/ drive_fails \/ do_handler_ide_primary
    \/ \E p \in Callers : Calls(p) \/ lock(p) \/ Continue(p)

(* A drive comes to an end with what it is busy with, a pending interrupt is delivered *)
(* and a task in a call gets the CPU (EveryTaskRuns of Sched).                         *)
Fairness ==
    /\ WF_vars(drive_done \/ drive_fails)
    /\ WF_vars(do_handler_ide_primary)
    /\ WF_vars(\E p \in Callers : Continue(p))

Spec == Init /\ [][Next]_vars /\ Fairness
-----------------------------------------------------------------------------
\* What was pending when tasks started stays in op_sem as a token too many: it never grows
\* and is never used up, so that no task waits for an interrupt that has been.
Pending == IF irq THEN 1 ELSE 0
LeftoverStays ==
    started /\ task_on_op /\ owner = Nobody => tokens + Pending = leftover

\* The calls keep what BlockStore promises: a task whose wait was cut short by the token
\* too many still reads its own sectors, and only when they are there.
Store == INSTANCE BlockStore WITH sectors <- store, Written <- Datum
StoresBlocks == Store!Spec

\* Every call that has got the channel returns and gives it back: no interrupt is lost on
\* the way, whatever errors there are (who waits for the mutex gets it: EveryWaiterEnters).
CallsReturn == owner # Nobody ~> owner = Nobody
=============================================================================
