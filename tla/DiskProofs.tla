----------------------------- MODULE DiskProofs -----------------------------
(***************************************************************************)
(* The disk calls implement BlockStore and the count of op_sem is right    *)
(* between them, for any number of tasks, sectors and partitions, with or  *)
(* without drive errors, and however many interrupts of the start-up the   *)
(* controller has kept.                                                    *)
(*                                                                         *)
(* Above the disk, the FAT16 file system keeps its chains apart, the data  *)
(* of every file in place and the position of every open file on its       *)
(* chain, for any size of the table, of the directory and of a cluster,    *)
(* as long as no process does one of the Careless things.  Growths may     *)
(* fail and files be written in front of their end: what such a file holds *)
(* is not claimed, its chain and everybody else's data are.                *)
(***************************************************************************)
EXTENDS Disk, Fat, SequenceTheorems, FiniteSetTheorems, WellFoundedInduction, TLAPS

Data == {Junk} \cup (Callers \X Nat)
Commands == {"read", "write"}
InCall == {"send", "give", "wait", "poll", "take", "unlock"}

CallType == [cmd : Commands \cup {"none"}, lba : Nat, count : Nat, cnt : Nat, buf : Seq(Data)]
AtaType == [state : {"idle", "busy", "drq", "err"}, cmd : Commands \cup {"none"},
            lba : Nat, left : Nat, data : Data]

DiskTypeOK ==
    /\ part[2] \in Nat /\ part[3] \in Nat /\ part[2] + part[3] <= DiskSize
    /\ started \in BOOLEAN /\ task_on_op \in BOOLEAN /\ irq \in BOOLEAN
    /\ tokens \in Nat /\ waiting \in Seq(Procs)
    /\ owner \in Callers \cup {Nobody}
    /\ pc \in [Callers -> {"user", "lock"} \cup InCall]
    /\ call \in [Callers -> CallType]
    /\ ata \in AtaType
    /\ platter \in [Lbas -> Data] /\ store \in [Lbas -> Data]
    /\ leftover \in Nat

\* Whoever is in a call has the channel.
OwnerInCall == \A p \in Callers : pc[p] \in InCall <=> owner = p

\* A call asks for sectors of the drive only, and knows how far it has got.
InBounds(p) ==
    pc[p] # "user" =>
        /\ call[p].cmd \in Commands
        /\ call[p].count \in 1 .. MaxCount /\ call[p].lba + call[p].count <= DiskSize
        /\ call[p].cnt <= call[p].count
        /\ pc[p] \in {"send", "lock"} => call[p].cnt = 0 /\ call[p].buf = <<>>
        /\ pc[p] \in {"give", "wait", "poll", "take"} => call[p].cnt < call[p].count
        /\ pc[p] = "give" => call[p].cmd = "write"
        /\ pc[p] = "take" => call[p].cmd = "read"

\* Before there are tasks only the kernel's start-up calls, and nothing waits or is counted.
BootAlone ==
    /\ ~started => /\ \A p \in Procs : pc[p] = "user"
                   /\ tokens = 0 /\ waiting = <<>> /\ leftover = 0
    /\ started => pc[Boot] = "user"
    /\ pc[Boot] # "user" => call[Boot].cmd = "read"

WaiterPolls == waiting = <<>> \/ (waiting = <<owner>> /\ owner \in Procs /\ pc[owner] = "poll")

\* What op_sem is short of: an interrupt that is pending or yet to come is as good as a token.
Busy == IF ata.state = "busy" THEN 1 ELSE 0
ToWait == IF \E p \in Callers : pc[p] = "wait" THEN 1 ELSE 0
TokensBalance ==
    /\ started /\ ata.state = "busy" => ~irq
    /\ started /\ task_on_op => tokens + Pending + Busy = leftover + Len(waiting) + ToWait
    /\ ~task_on_op => tokens = 0 /\ leftover = 0
    /\ owner # Nobody => task_on_op

\* The sectors after p's call has written the first k of its own.
AfterWrites(p, k) ==
    [l \in Lbas |-> IF l \in call[p].lba .. call[p].lba + k - 1
                    THEN Datum(p, l - call[p].lba + 1) ELSE store[l]]

\* Where the drive is in the command of p's call, when it has moved k sectors.
DriveAt(p, k) ==
    /\ ata.cmd = call[p].cmd
    /\ ata.lba = call[p].lba + k
    /\ ata.left = call[p].count - k /\ ata.left > 0

Reading(p) ==
    /\ platter = store
    /\ Len(call[p].buf) = call[p].cnt
    /\ \A i \in 1 .. call[p].cnt : call[p].buf[i] = store[call[p].lba + i - 1]
    /\ pc[p] \in {"wait", "poll"} /\ ata.state # "err" =>
        /\ ata.state \in {"busy", "drq"} /\ DriveAt(p, call[p].cnt)
        /\ ata.state = "drq" => ata.data = platter[ata.lba]
    /\ pc[p] = "take" => /\ ata.state = "drq" /\ DriveAt(p, call[p].cnt)
                         /\ ata.data = platter[ata.lba]

Writing(p) ==
    LET k == call[p].cnt IN
    /\ pc[p] = "send" => platter = store
    /\ pc[p] = "give" => ata.state = "drq" /\ DriveAt(p, k) /\ platter = AfterWrites(p, k)
    /\ pc[p] \in {"wait", "poll"} =>
        \/ ata.state = "busy" /\ DriveAt(p, k) /\ ata.data = Datum(p, k + 1) /\ platter = AfterWrites(p, k)
        \/ ata.state = "drq" /\ DriveAt(p, k + 1) /\ platter = AfterWrites(p, k + 1)
        \/ ata.state = "idle" /\ call[p].count = k + 1 /\ platter = AfterWrites(p, k + 1)
        \/ ata.state = "err" /\ platter = AfterWrites(p, k)
    /\ pc[p] = "unlock" => platter = AfterWrites(p, k)

\* The drive is where the call that has the channel believes it is, and at rest without one.
DriveFollows ==
    /\ \A p \in Callers : owner = p =>
        /\ call[p].cmd = "read" => Reading(p)
        /\ call[p].cmd = "write" => Writing(p)
        /\ pc[p] \in {"send", "unlock"} => ata.state \in {"idle", "err"}
    /\ owner = Nobody => platter = store /\ ata.state \in {"idle", "err"}

\* The inductive invariant.
DiskInv ==
    /\ DiskTypeOK
    /\ OwnerInCall
    /\ \A p \in Callers : InBounds(p)
    /\ BootAlone
    /\ WaiterPolls
    /\ TokensBalance
    /\ DriveFollows
-----------------------------------------------------------------------------
\* A caller in a call that can go on is the owner and is not queued on op_sem; nobody is.
LEMMA AtFacts ==
  ASSUME DiskInv, NEW p \in Callers, NEW step \in InCall, At(p, step)
  PROVE  /\ owner = p /\ pc[p] = step /\ waiting = <<>> /\ Len(waiting) = 0
         /\ started => p \in Procs /\ ~irq
         /\ ~started => p = Boot
<1>1. pc[p] = step /\ (started => p # Boot /\ ~irq) /\ (~started => p = Boot)
  BY DEF At
<1>2. owner = p
  BY <1>1 DEF DiskInv, OwnerInCall
<1>3. waiting # <<p>>
  BY DEF At, Contains
<1> QED BY <1>1, <1>2, <1>3 DEF DiskInv, WaiterPolls, Callers

\* Only the owner can be at the wait.
LEMMA ToWaitOfOwner ==
  ASSUME NEW p \in Callers, OwnerInCall, owner = p
  PROVE  ToWait = IF pc[p] = "wait" THEN 1 ELSE 0
BY DEF OwnerInCall, InCall, ToWait

LEMMA ToWaitOfNobody == ASSUME OwnerInCall, owner = Nobody PROVE ToWait = 0
BY DiskAssumption DEF OwnerInCall, InCall, ToWait

\* A step of the owner inside its call leaves the other callers and the phase alone.
LEMMA OwnStep ==
  ASSUME DiskInv, NEW p \in Callers, NEW step \in InCall, At(p, step),
         NEW s \in InCall, pc' = [pc EXCEPT ![p] = s],
         UNCHANGED <<started, leftover, owner>>, ~started => UNCHANGED semVars,
         \A q \in Callers \ {p} : call'[q] = call[q], call'[p].cmd = call[p].cmd,
         InBounds(p)'
  PROVE  /\ \A q \in Callers : pc'[q] = IF q = p THEN s ELSE pc[q]
         /\ pc' \in [Callers -> {"user", "lock"} \cup InCall]
         /\ OwnerInCall'
         /\ \A q \in Callers : InBounds(q)'
         /\ BootAlone'
         /\ ToWait = IF step = "wait" THEN 1 ELSE 0
         /\ ToWait' = IF s = "wait" THEN 1 ELSE 0
<1>1. pc \in [Callers -> {"user", "lock"} \cup InCall]
  BY DEF DiskInv, DiskTypeOK
<1>2. \A q \in Callers : pc'[q] = IF q = p THEN s ELSE pc[q]
  BY <1>1
<1>3. pc' \in [Callers -> {"user", "lock"} \cup InCall]
  BY <1>1
<1>4. /\ owner = p /\ pc[p] = step
      /\ started => p \in Procs /\ p # Boot
      /\ ~started => p = Boot
  BY AtFacts, DiskAssumption
<1>5. OwnerInCall'
  BY <1>2, <1>4 DEF DiskInv, OwnerInCall
<1>6. ASSUME NEW q \in Callers PROVE InBounds(q)'
  <2>1. CASE q = p
    BY <2>1
  <2>2. CASE q # p
    BY <1>2, <2>2 DEF DiskInv, InBounds
  <2> QED BY <2>1, <2>2
<1>7. BootAlone'
  <2>1. step # "user"
    BY DEF InCall
  <2>2. Boot \in Callers /\ Procs \subseteq Callers /\ Boot \notin Procs
    BY DiskAssumption DEF Callers
  <2> QED BY <1>2, <1>4, <2>1, <2>2 DEF DiskInv, BootAlone, semVars
<1>8. ToWait = IF step = "wait" THEN 1 ELSE 0
  BY <1>4, ToWaitOfOwner DEF DiskInv
<1>9. ToWait' = IF s = "wait" THEN 1 ELSE 0
  BY <1>2, <1>4, <1>5 DEF OwnerInCall, InCall, ToWait
<1> QED BY <1>2, <1>3, <1>5, <1>6, <1>7, <1>8, <1>9

LEMMA NothingWrittenYet ==
  ASSUME DiskTypeOK, NEW p \in Callers PROVE AfterWrites(p, 0) = store
<1>1. call[p].lba \in Nat /\ store \in [Lbas -> Data]
  BY DEF DiskTypeOK, CallType
<1> QED BY <1>1 DEF AfterWrites, Lbas

\* The drive writes the sectors of a call in order.
LEMMA OneMoreWritten ==
  ASSUME DiskTypeOK, NEW p \in Callers, NEW k \in Nat, call[p].lba + k < DiskSize
  PROVE  [AfterWrites(p, k) EXCEPT ![call[p].lba + k] = Datum(p, k + 1)] = AfterWrites(p, k + 1)
<1>1. PICK b \in Nat : b = call[p].lba
  BY DEF DiskTypeOK, CallType
<1>2. b + k \in Lbas
  BY <1>1, DiskAssumption DEF Lbas
<1>3. \A l \in Lbas : l \in Nat
  BY DEF Lbas
<1>4. ASSUME NEW l \in Lbas
      PROVE  [AfterWrites(p, k) EXCEPT ![b + k] = Datum(p, k + 1)][l] = AfterWrites(p, k + 1)[l]
  <2>1. CASE l = b + k
    <3>1. AfterWrites(p, k + 1)[l] = Datum(p, l - b + 1) /\ l - b + 1 = k + 1
      BY <1>1, <1>3, <2>1 DEF AfterWrites
    <3>2. [AfterWrites(p, k) EXCEPT ![b + k] = Datum(p, k + 1)][l] = Datum(p, k + 1)
      BY <1>2, <2>1 DEF AfterWrites
    <3> QED BY <3>1, <3>2
  <2>2. CASE l # b + k
    <3>1. l \in b .. b + k - 1 <=> l \in b .. b + (k + 1) - 1
      BY <1>1, <1>3, <2>2
    <3>2. AfterWrites(p, k + 1)[l] = AfterWrites(p, k)[l]
      BY <1>1, <3>1 DEF AfterWrites
    <3> QED BY <2>2, <3>2 DEF AfterWrites
  <2> QED BY <2>1, <2>2
<1> DEFINE F == [AfterWrites(p, k) EXCEPT ![b + k] = Datum(p, k + 1)]
           G == AfterWrites(p, k + 1)
<1>5. F = [l \in Lbas |-> F[l]] /\ G = [l \in Lbas |-> G[l]]
  BY DEF AfterWrites
<1>6. \A l \in Lbas : F[l] = G[l]
  BY <1>4
<1> HIDE DEF F, G
<1>7. F = G
  BY <1>5, <1>6
<1> QED BY <1>1, <1>7 DEF F, G

LEMMA DiskInitInv == Init => DiskInv
<1> SUFFICES ASSUME Init PROVE DiskInv
  OBVIOUS
<1>1. DiskTypeOK
  <2>1. Datum(Boot, 0) \in Data /\ Junk \in Data
    BY DEF Data, Callers, Datum
  <2>2. NoCall \in CallType /\ ata \in AtaType
    BY <2>1 DEF Init, NoCall, CallType, Idle, AtaType
  <2>3. part[2] = 0 /\ part[3] = 0
    BY DEF Init, NoPart
  <2>4. DiskSize \in Nat /\ 0 + 0 <= DiskSize
    BY DiskAssumption
  <2>5. /\ pc \in [Callers -> {"user", "lock"} \cup InCall]
        /\ call \in [Callers -> CallType]
        /\ platter \in [Lbas -> Data] /\ store \in [Lbas -> Data]
    BY <2>1, <2>2 DEF Init
  <2>6. /\ started \in BOOLEAN /\ task_on_op \in BOOLEAN /\ irq \in BOOLEAN
        /\ owner \in Callers \cup {Nobody}
    BY DEF Init
  <2>7. tokens \in Nat /\ waiting \in Seq(Procs) /\ leftover \in Nat
    BY DEF Init
  <2> QED BY <2>2, <2>3, <2>4, <2>5, <2>6, <2>7 DEF DiskTypeOK
<1>2. \A p \in Callers : pc[p] = "user"
  BY DEF Init
<1>3. OwnerInCall
  BY <1>2, DiskAssumption DEF Init, OwnerInCall, InCall
<1>4. \A p \in Callers : InBounds(p)
  BY <1>2 DEF InBounds
<1>5. BootAlone /\ WaiterPolls
  BY <1>2 DEF Init, BootAlone, WaiterPolls, Callers
<1>6. TokensBalance
  BY DEF Init, TokensBalance, Idle
<1>7. DriveFollows
  BY DiskAssumption DEF Init, DriveFollows, Idle
<1> QED BY <1>1, <1>3, <1>4, <1>5, <1>6, <1>7 DEF DiskInv
-----------------------------------------------------------------------------
\* Nothing the drive and the calls know changes.
LEMMA SameDrive ==
  ASSUME DiskInv, UNCHANGED <<owner, pc, call, ata, platter, store>> PROVE DriveFollows'
BY DEF DiskInv, DriveFollows, Reading, Writing, AfterWrites, DriveAt

LEMMA DiskOpenInv ==
  ASSUME DiskInv, NEW m \in Minors, disk_open(m[1], m[2]) PROVE DiskInv'
<1>1. /\ m[1] \in DOMAIN Mbr
      /\ part' = Partinfo(m[1], m[2])
      /\ UNCHANGED <<started, task_on_op, tokens, waiting, owner, pc, call, ata, platter, irq,
                     store, leftover>>
  BY DEF disk_open, semVars, seen
<1>2. part'[2] \in Nat /\ part'[3] \in Nat /\ part'[2] + part'[3] <= DiskSize
  <2>1. CASE m[2] = 0
    BY <1>1, <2>1, DiskAssumption DEF Partinfo
  <2>2. CASE m[2] # 0
    <3>1. m[2] \in DOMAIN Mbr[m[1]]
      BY <1>1, <2>2, DiskAssumption
    <3>2. /\ Mbr[m[1]][m[2]] \in Nat \X Nat
          /\ Mbr[m[1]][m[2]][1] + Mbr[m[1]][m[2]][2] <= DiskSize
      BY <1>1, <3>1, DiskAssumption
    <3>3. part'[2] = Mbr[m[1]][m[2]][1] /\ part'[3] = Mbr[m[1]][m[2]][2]
      BY <1>1, <2>2 DEF Partinfo
    <3> QED BY <3>2, <3>3
  <2> QED BY <2>1, <2>2
<1>3. DiskTypeOK'
  BY <1>1, <1>2 DEF DiskInv, DiskTypeOK
<1>4. OwnerInCall' /\ BootAlone' /\ WaiterPolls' /\ TokensBalance'
  BY <1>1 DEF DiskInv, OwnerInCall, BootAlone, WaiterPolls, TokensBalance, Pending, Busy, ToWait
<1>5. \A p \in Callers : InBounds(p)'
  BY <1>1 DEF DiskInv, InBounds
<1> QED BY <1>1, <1>3, <1>4, <1>5, SameDrive DEF DiskInv

LEMMA StartInv == ASSUME DiskInv, start PROVE DiskInv'
<1>1. /\ ~started /\ started' = TRUE /\ pc[Boot] = "user"
      /\ irq' \in {irq, FALSE}
      /\ leftover' = IF irq' /\ task_on_op THEN 1 ELSE 0
      /\ UNCHANGED <<part, task_on_op, tokens, waiting, owner, pc, call, ata, platter, store>>
  BY DEF start, semVars
<1>2. /\ \A p \in Callers : pc[p] = "user"
      /\ tokens = 0 /\ waiting = <<>> /\ Len(waiting) = 0
  BY <1>1 DEF DiskInv, BootAlone, Callers
<1>3. owner = Nobody
  BY <1>2 DEF DiskInv, OwnerInCall, DiskTypeOK, InCall
<1>4. ata.state # "busy"
  BY <1>3 DEF DiskInv, DriveFollows
<1>5. DiskTypeOK'
  <2>1. irq' \in BOOLEAN /\ leftover' \in Nat
    BY <1>1 DEF DiskInv, DiskTypeOK
  <2> QED BY <1>1, <2>1 DEF DiskInv, DiskTypeOK
<1>6. OwnerInCall' /\ BootAlone' /\ WaiterPolls'
  BY <1>1, <1>2, <1>3 DEF DiskInv, OwnerInCall, BootAlone, WaiterPolls, Callers
<1>7. TokensBalance'
  <2>1. /\ tokens' = 0 /\ waiting' = <<>> /\ Len(waiting') = 0 /\ ata'.state # "busy"
        /\ owner' = Nobody /\ irq' \in BOOLEAN /\ OwnerInCall'
    BY <1>1, <1>2, <1>3, <1>4, <1>6 DEF DiskInv, DiskTypeOK
  <2>2. ToWait' = 0 /\ Busy' = 0
    BY <2>1, DiskAssumption DEF OwnerInCall, InCall, ToWait, Busy
  <2>3. task_on_op' => Pending' = leftover'
    BY <1>1 DEF Pending
  <2>4. ~task_on_op' => leftover' = 0
    BY <1>1
  <2>5. Pending' \in Nat /\ leftover' \in Nat
    BY <1>5 DEF DiskTypeOK, Pending
  <2> QED BY <2>1, <2>2, <2>3, <2>4, <2>5 DEF TokensBalance
<1>8. \A p \in Callers : InBounds(p)'
  BY <1>1 DEF DiskInv, InBounds
<1> QED BY <1>1, <1>5, <1>6, <1>7, <1>8, SameDrive DEF DiskInv

\* The drive is busy only for a call that is about to wait for it or does.
LEMMA BusyForOwner ==
  ASSUME DiskInv, ata.state = "busy"
  PROVE  /\ owner \in Callers /\ pc[owner] \in {"wait", "poll"} /\ call[owner].cmd \in Commands
         /\ call[owner].cnt \in Nat /\ call[owner].cnt < call[owner].count
         /\ DriveAt(owner, call[owner].cnt)
         /\ call[owner].lba \in Nat /\ call[owner].count \in Nat
         /\ call[owner].lba + call[owner].count <= DiskSize
<1>1. owner \in Callers
  BY DEF DiskInv, DiskTypeOK, DriveFollows
<1>2. pc[owner] \in InCall /\ InBounds(owner)
  BY <1>1 DEF DiskInv, OwnerInCall
<1>3. /\ call[owner].cmd \in Commands
      /\ call[owner].count \in Nat /\ call[owner].lba + call[owner].count <= DiskSize
      /\ pc[owner] \in {"wait", "poll"} => call[owner].cnt < call[owner].count
      /\ pc[owner] = "give" => call[owner].cmd = "write"
      /\ pc[owner] = "take" => call[owner].cmd = "read"
  BY <1>2 DEF InBounds, InCall
<1>4. call[owner].cnt \in Nat /\ call[owner].lba \in Nat
  BY <1>1 DEF DiskInv, DiskTypeOK, CallType
<1>5. pc[owner] \in {"wait", "poll"}
  BY <1>1, <1>2, <1>3 DEF DiskInv, DriveFollows, Reading, Writing, InCall
<1>6. DriveAt(owner, call[owner].cnt)
  BY <1>1, <1>3, <1>5 DEF DiskInv, DriveFollows, Reading, Writing, Commands
<1> QED BY <1>1, <1>3, <1>4, <1>5, <1>6

\* What the drive does to the semaphore's account: the interrupt it owed is pending.
LEMMA DriveAccounts ==
  ASSUME DiskInv, ata.state = "busy", ata'.state # "busy", irq' = TRUE,
         UNCHANGED <<started, task_on_op, tokens, waiting, owner, pc, leftover>>
  PROVE  TokensBalance'
<1>1. started => ~irq
  BY DEF DiskInv, TokensBalance
<1>2. Busy = 1 /\ Busy' = 0 /\ Pending' = 1 /\ (started => Pending = 0)
  BY <1>1 DEF Busy, Pending
<1>3. ToWait' = ToWait /\ ToWait \in Nat
  BY DEF ToWait
<1>4. tokens \in Nat /\ leftover \in Nat /\ Len(waiting) \in Nat
  BY DEF DiskInv, DiskTypeOK
<1> QED BY <1>2, <1>3, <1>4 DEF DiskInv, TokensBalance

LEMMA DriveFailsInv == ASSUME DiskInv, drive_fails PROVE DiskInv'
<1>1. /\ ata.state = "busy" /\ irq' = TRUE
      /\ ata' = [Idle EXCEPT !.state = "err"]
      /\ UNCHANGED <<part, started, task_on_op, tokens, waiting, owner, pc, call, platter,
                     store, leftover>>
  BY DEF drive_fails, semVars, seen
<1>2. ata' \in AtaType /\ ata'.state = "err"
  BY <1>1 DEF Idle, AtaType, Data
<1>3. DiskTypeOK'
  BY <1>1, <1>2 DEF DiskInv, DiskTypeOK
<1>4. OwnerInCall' /\ BootAlone' /\ WaiterPolls' /\ \A p \in Callers : InBounds(p)'
  BY <1>1 DEF DiskInv, OwnerInCall, BootAlone, WaiterPolls, InBounds
<1>5. TokensBalance'
  BY <1>1, <1>2, DriveAccounts
<1>6. DriveFollows'
  <2>1. owner \in Callers /\ pc[owner] \in {"wait", "poll"} /\ call[owner].cmd \in Commands
    BY <1>1, BusyForOwner
  <2>2. ASSUME call[owner].cmd = "read" PROVE Reading(owner)'
    BY <1>1, <1>2, <2>1, <2>2 DEF DiskInv, DriveFollows, Reading
  <2>3. ASSUME call[owner].cmd = "write" PROVE Writing(owner)'
    BY <1>1, <1>2, <2>1, <2>3 DEF DiskInv, DriveFollows, Writing, AfterWrites
  <2> QED BY <1>1, <1>2, <2>1, <2>2, <2>3, DiskAssumption DEF DriveFollows
<1> QED BY <1>3, <1>4, <1>5, <1>6 DEF DiskInv

LEMMA DriveDoneInv == ASSUME DiskInv, drive_done PROVE DiskInv'
<1>1. /\ ata.state = "busy" /\ irq' = TRUE
      /\ UNCHANGED <<part, started, task_on_op, tokens, waiting, owner, pc, call, store, leftover>>
  BY DEF drive_done, semVars, seen
<1>2. PICK p \in Callers, k \in Nat, b \in Nat, n \in Nat :
        /\ p = owner /\ k = call[p].cnt /\ b = call[p].lba /\ n = call[p].count
        /\ pc[p] \in {"wait", "poll"} /\ call[p].cmd \in Commands
        /\ k < n /\ b + n <= DiskSize /\ DriveAt(p, k)
  BY <1>1, BusyForOwner
<1>3. ata.lba = b + k /\ ata.left = n - k /\ ata.cmd = call[p].cmd /\ b + k \in Lbas
  <2>1. ata.lba = b + k /\ ata.left = n - k /\ ata.cmd = call[p].cmd
    BY <1>2 DEF DriveAt
  <2> QED BY <1>2, <2>1, DiskAssumption DEF Lbas
<1>4. DiskTypeOK
  BY DEF DiskInv
<1>5. OwnerInCall' /\ BootAlone' /\ WaiterPolls' /\ \A q \in Callers : InBounds(q)'
  BY <1>1 DEF DiskInv, OwnerInCall, BootAlone, WaiterPolls, InBounds
<1>6. CASE call[p].cmd = "read"
  <2>1. /\ ata' = [ata EXCEPT !.state = "drq", !.data = platter[ata.lba]]
        /\ UNCHANGED platter
    BY <1>3, <1>6 DEF drive_done
  <2>2. platter[b + k] \in Data
    BY <1>3, <1>4 DEF DiskTypeOK
  <2>3. /\ ata' \in AtaType /\ ata'.state = "drq" /\ ata'.data = platter[ata'.lba]
        /\ ata'.cmd = ata.cmd /\ ata'.lba = ata.lba /\ ata'.left = ata.left
    BY <1>3, <1>4, <2>1, <2>2 DEF DiskTypeOK, AtaType
  <2>4. DiskTypeOK'
    BY <1>1, <1>4, <2>1, <2>3 DEF DiskTypeOK
  <2>5. Reading(p)'
    <3>1. Reading(p)
      BY <1>2, <1>6 DEF DiskInv, DriveFollows
    <3>2. DriveAt(p, k)'
      BY <1>1, <1>2, <2>3 DEF DriveAt
    <3> QED BY <1>1, <1>2, <2>1, <2>3, <3>1, <3>2 DEF Reading
  <2>6. DriveFollows'
    BY <1>1, <1>2, <1>6, <2>5, DiskAssumption DEF DriveFollows
  <2>7. TokensBalance'
    BY <1>1, <2>3, DriveAccounts
  <2> QED BY <1>5, <2>4, <2>6, <2>7 DEF DiskInv
<1>7. CASE call[p].cmd = "write"
  <2>1. /\ platter' = [platter EXCEPT ![b + k] = ata.data]
        /\ ata' = IF ata.left = 1 THEN Idle
                  ELSE [ata EXCEPT !.state = "drq", !.lba = @ + 1, !.left = @ - 1, !.data = Junk]
    BY <1>3, <1>7 DEF drive_done
  <2>2. ata.data = Datum(p, k + 1) /\ platter = AfterWrites(p, k)
    BY <1>1, <1>2, <1>7 DEF DiskInv, DriveFollows, Writing
  <2>3. /\ AfterWrites(p, k + 1)' = AfterWrites(p, k + 1)
        /\ platter' = AfterWrites(p, k + 1)
    <3>1. platter' = [AfterWrites(p, k) EXCEPT ![call[p].lba + k] = Datum(p, k + 1)]
      BY <1>2, <2>1, <2>2
    <3>2. call[p].lba + k < DiskSize
      BY <1>2, DiskAssumption
    <3>3. platter' = AfterWrites(p, k + 1)
      BY <1>4, <3>1, <3>2, OneMoreWritten
    <3> QED BY <1>1, <3>3 DEF AfterWrites
  <2>4. platter' \in [Lbas -> Data]
    <3>1. Datum(p, k + 1) \in Data
      BY DEF Data, Datum
    <3> QED BY <1>4, <2>1, <2>2, <3>1 DEF DiskTypeOK
  <2>5. /\ ata' \in AtaType /\ ata'.state \in {"idle", "drq"}
        /\ ata'.state = "idle" => n = k + 1
        /\ ata'.state = "drq" => /\ ata'.cmd = ata.cmd /\ ata'.lba = b + (k + 1)
                                 /\ ata'.left = n - (k + 1) /\ ata'.left > 0
    <3>1. Junk \in Data /\ ata \in AtaType
      BY <1>4 DEF Data, DiskTypeOK
    <3>2. CASE ata.left = 1
      BY <1>2, <1>3, <2>1, <3>1, <3>2 DEF Idle, AtaType
    <3>3. CASE ata.left # 1
      <4>1. ata' = [ata EXCEPT !.state = "drq", !.lba = @ + 1, !.left = @ - 1, !.data = Junk]
        BY <2>1, <3>3
      <4>2. ata.left > 1 /\ ata.left - 1 \in Nat /\ ata.lba + 1 \in Nat
        BY <1>2, <1>3, <3>3
      <4>3. /\ ata'.state = "drq" /\ ata'.cmd = ata.cmd /\ ata'.lba = ata.lba + 1
            /\ ata'.left = ata.left - 1 /\ ata'.data = Junk /\ ata' \in AtaType
        BY <3>1, <4>1, <4>2 DEF AtaType
      <4> QED BY <1>2, <1>3, <4>2, <4>3
    <3> QED BY <3>2, <3>3
  <2>6. DiskTypeOK'
    BY <1>1, <1>4, <2>4, <2>5 DEF DiskTypeOK
  <2>7. Writing(p)'
    <3>1. ata'.state = "drq" => DriveAt(p, k + 1)'
      BY <1>1, <1>2, <1>3, <2>5 DEF DriveAt
    <3>2. call'[p] = call[p] /\ pc'[p] = pc[p]
      BY <1>1
    <3> QED BY <1>2, <2>3, <2>5, <3>1, <3>2 DEF Writing
  <2>8. DriveFollows'
    BY <1>1, <1>2, <1>7, <2>7, DiskAssumption DEF DriveFollows
  <2>9. TokensBalance'
    BY <1>1, <2>5, DriveAccounts
  <2> QED BY <1>5, <2>6, <2>8, <2>9 DEF DiskInv
<1> QED BY <1>2, <1>6, <1>7 DEF Commands

LEMMA HandlerInv == ASSUME DiskInv, do_handler_ide_primary PROVE DiskInv'
<1>1. /\ started /\ irq /\ irq' = FALSE
      /\ IF task_on_op THEN sem_notify ELSE UNCHANGED semVars
      /\ UNCHANGED <<part, started, task_on_op, owner, pc, call, ata, platter, store, leftover>>
  BY DEF do_handler_ide_primary, seen
<1>2. DiskTypeOK
  BY DEF DiskInv
<1>3. /\ tokens' \in Nat /\ waiting' \in Seq(Procs) /\ (waiting' = waiting \/ waiting' = <<>>)
      /\ task_on_op => tokens' - Len(waiting') = tokens - Len(waiting) + 1
      /\ ~task_on_op => tokens' = tokens /\ waiting' = waiting
  <2>1. tokens \in Nat /\ waiting \in Seq(Procs) /\ (waiting = <<>> \/ waiting = <<owner>>)
    BY <1>2 DEF DiskTypeOK, DiskInv, WaiterPolls
  <2>2. CASE task_on_op /\ waiting # <<>>
    <3>1. waiting' = Tail(waiting) /\ tokens' = tokens /\ waiting = <<owner>>
      BY <1>1, <2>1, <2>2 DEF sem_notify
    <3>2. waiting' = <<>> /\ Len(waiting') = 0 /\ Len(waiting) = 1
      BY <3>1
    <3> QED BY <2>1, <2>2, <3>1, <3>2
  <2>3. CASE task_on_op /\ waiting = <<>>
    BY <1>1, <2>1, <2>3 DEF sem_notify
  <2>4. CASE ~task_on_op
    BY <1>1, <2>1, <2>4 DEF semVars
  <2> QED BY <2>2, <2>3, <2>4
<1>4. DiskTypeOK'
  BY <1>1, <1>2, <1>3 DEF DiskTypeOK
<1>5. OwnerInCall' /\ BootAlone' /\ WaiterPolls' /\ \A p \in Callers : InBounds(p)'
  BY <1>1, <1>3 DEF DiskInv, OwnerInCall, BootAlone, WaiterPolls, InBounds
<1>6. TokensBalance'
  <2>1. Pending = 1 /\ Pending' = 0 /\ Busy' = Busy /\ ToWait' = ToWait
    BY <1>1 DEF Pending, Busy, ToWait
  <2>2. /\ tokens \in Nat /\ leftover \in Nat /\ Len(waiting) \in Nat /\ Len(waiting') \in Nat
        /\ Busy \in Nat /\ ToWait \in Nat
    BY <1>2, <1>3 DEF DiskTypeOK, Busy, ToWait
  <2> QED BY <1>1, <1>3, <2>1, <2>2 DEF DiskInv, TokensBalance
<1> QED BY <1>1, <1>4, <1>5, <1>6, SameDrive DEF DiskInv
-----------------------------------------------------------------------------
\* A step of a caller that does not have the channel, and leaves what does alone.
LEMMA OthersStep ==
  ASSUME DiskInv, NEW p \in Callers, owner # p,
         UNCHANGED <<owner, ata, platter, store>>,
         \A q \in Callers \ {p} : pc'[q] = pc[q] /\ call'[q] = call[q]
  PROVE  DriveFollows'
<1>1. owner = Nobody => DriveFollows'
  BY DiskAssumption DEF DiskInv, DriveFollows
<1>2. CASE owner # Nobody
  <2>1. PICK q \in Callers : q = owner
    BY <1>2 DEF DiskInv, DiskTypeOK
  <2>2. pc'[q] = pc[q] /\ call'[q] = call[q] /\ q # p
    BY <2>1
  <2>3. ASSUME call'[q].cmd = "read" PROVE Reading(q)'
    BY <2>1, <2>2, <2>3 DEF DiskInv, DriveFollows, Reading, DriveAt
  <2>4. ASSUME call'[q].cmd = "write" PROVE Writing(q)'
    BY <2>1, <2>2, <2>4 DEF DiskInv, DriveFollows, Writing, DriveAt, AfterWrites
  <2>5. pc'[q] \in {"send", "unlock"} => ata'.state \in {"idle", "err"}
    BY <2>1, <2>2 DEF DiskInv, DriveFollows
  <2> QED BY <1>2, <2>1, <2>3, <2>4, <2>5 DEF DriveFollows
<1> QED BY <1>1, <1>2

LEMMA DiskCallInv ==
  ASSUME DiskInv, NEW p \in Callers, NEW cmd \in Commands, NEW s \in Lbas, NEW n \in 1 .. MaxCount,
         disk_call(p, cmd, s, n)
  PROVE  DiskInv'
<1>1. /\ pc[p] = "user" /\ (started => p # Boot) /\ (~started => p = Boot)
      /\ s + n <= part[3]
      /\ p = Boot => cmd = "read"
      /\ call' = [call EXCEPT ![p] = [cmd |-> cmd, lba |-> part[2] + s,
                                     count |-> n, cnt |-> 0, buf |-> <<>>]]
      /\ pc' = [pc EXCEPT ![p] = "lock"]
      /\ UNCHANGED <<part, started, task_on_op, tokens, waiting, owner, ata, platter, irq,
                     store, leftover>>
  BY DEF disk_call, At, Goto, semVars, seen
<1>2. /\ pc \in [Callers -> {"user", "lock"} \cup InCall] /\ call \in [Callers -> CallType]
      /\ part[2] \in Nat /\ part[3] \in Nat /\ part[2] + part[3] <= DiskSize
  BY DEF DiskInv, DiskTypeOK
<1>3. s \in Nat /\ n \in Nat /\ n > 0 /\ MaxCount \in Nat /\ DiskSize \in Nat
  BY DiskAssumption DEF Lbas
<1>4. /\ \A q \in Callers \ {p} : pc'[q] = pc[q] /\ call'[q] = call[q]
      /\ pc'[p] = "lock"
      /\ call'[p] = [cmd |-> cmd, lba |-> part[2] + s, count |-> n, cnt |-> 0, buf |-> <<>>]
  BY <1>1, <1>2
<1>5. owner # p
  BY <1>1 DEF DiskInv, OwnerInCall, InCall
<1>6. DiskTypeOK'
  <2>1. [cmd |-> cmd, lba |-> part[2] + s, count |-> n, cnt |-> 0, buf |-> <<>>] \in CallType
    BY <1>2, <1>3 DEF CallType
  <2>2. call' \in [Callers -> CallType] /\ pc' \in [Callers -> {"user", "lock"} \cup InCall]
    BY <1>1, <1>2, <2>1
  <2> QED BY <1>1, <2>2 DEF DiskInv, DiskTypeOK
<1>7. OwnerInCall'
  BY <1>1, <1>4, <1>5 DEF DiskInv, OwnerInCall, InCall
<1>8. ASSUME NEW q \in Callers PROVE InBounds(q)'
  <2>1. CASE q = p
    <3>1. part[2] + s + n <= DiskSize
      BY <1>1, <1>2, <1>3
    <3> QED BY <1>3, <1>4, <2>1, <3>1 DEF InBounds
  <2>2. CASE q # p
    BY <1>4, <2>2 DEF DiskInv, InBounds
  <2> QED BY <2>1, <2>2
<1>9. BootAlone'
  <2>1. Boot \in Callers /\ Procs \subseteq Callers /\ Boot \notin Procs
    BY DiskAssumption DEF Callers
  <2> QED BY <1>1, <1>4, <2>1 DEF DiskInv, BootAlone
<1>10. WaiterPolls'
  BY <1>1, <1>4, <1>5 DEF DiskInv, WaiterPolls, Callers
<1>11. TokensBalance'
  <2>1. ToWait' = ToWait
    BY <1>1, <1>4 DEF ToWait
  <2> QED BY <1>1, <2>1 DEF DiskInv, TokensBalance, Pending, Busy
<1>12. DriveFollows'
  BY <1>1, <1>4, <1>5, OthersStep
<1> QED BY <1>6, <1>7, <1>8, <1>9, <1>10, <1>11, <1>12 DEF DiskInv

LEMMA LockInv == ASSUME DiskInv, NEW p \in Callers, lock(p) PROVE DiskInv'
<1>1. /\ pc[p] = "lock" /\ (started => p # Boot /\ ~irq) /\ (~started => p = Boot)
      /\ owner = Nobody /\ owner' = p /\ task_on_op' = TRUE
      /\ pc' = [pc EXCEPT ![p] = "send"]
      /\ UNCHANGED <<part, started, tokens, waiting, call, ata, platter, irq, store, leftover>>
  BY DEF lock, At, Goto, semVars, seen
<1>2. /\ pc \in [Callers -> {"user", "lock"} \cup InCall]
      /\ pc' \in [Callers -> {"user", "lock"} \cup InCall]
  BY <1>1 DEF DiskInv, DiskTypeOK, InCall
<1>3. pc'[p] = "send" /\ \A q \in Callers \ {p} : pc'[q] = pc[q]
  BY <1>1, <1>2
<1>4. /\ waiting = <<>> /\ Len(waiting) = 0
      /\ platter = store /\ ata.state \in {"idle", "err"}
      /\ \A q \in Callers : pc[q] \notin InCall
  BY <1>1, DiskAssumption DEF DiskInv, WaiterPolls, DriveFollows, OwnerInCall, Callers
<1>5. DiskTypeOK'
  BY <1>1, <1>2 DEF DiskInv, DiskTypeOK
<1>6. OwnerInCall'
  BY <1>1, <1>3, <1>4 DEF OwnerInCall, InCall
<1>7. \A q \in Callers : InBounds(q)'
  BY <1>1, <1>3 DEF DiskInv, InBounds
<1>8. BootAlone'
  <2>1. Boot \in Callers /\ Procs \subseteq Callers /\ Boot \notin Procs
    BY DiskAssumption DEF Callers
  <2> QED BY <1>1, <1>3, <2>1 DEF DiskInv, BootAlone
<1>9. WaiterPolls'
  BY <1>1, <1>4 DEF WaiterPolls
<1>10. TokensBalance'
  <2>1. ToWait = 0 /\ ToWait' = 0
    BY <1>3, <1>4 DEF ToWait, InCall
  <2>2. Busy = 0 /\ Busy' = 0 /\ Pending' = Pending /\ (started => Pending = 0)
    BY <1>1, <1>4 DEF Busy, Pending
  <2>3. tokens \in Nat /\ leftover \in Nat
    BY DEF DiskInv, DiskTypeOK
  <2> QED BY <1>1, <1>4, <2>1, <2>2, <2>3 DEF DiskInv, TokensBalance
<1>11. DriveFollows'
  <2>1. call'[p].cnt = 0 /\ call'[p].buf = <<>> /\ Len(call'[p].buf) = 0
    BY <1>1 DEF DiskInv, InBounds
  <2>2. Reading(p)' /\ Writing(p)'
    BY <1>1, <1>3, <1>4, <2>1 DEF Reading, Writing
  <2> QED BY <1>1, <1>3, <1>4, <2>2, DiskAssumption DEF DriveFollows
<1> QED BY <1>5, <1>6, <1>7, <1>8, <1>9, <1>10, <1>11 DEF DiskInv

LEMMA SendInv == ASSUME DiskInv, NEW p \in Callers, ata_send_cmd(p) PROVE DiskInv'
<1> DEFINE s == IF call[p].cmd = "read" THEN "wait" ELSE "give"
<1>1. /\ At(p, "send")
      /\ ata' = [state |-> IF call[p].cmd = "read" THEN "busy" ELSE "drq", cmd |-> call[p].cmd,
                 lba |-> call[p].lba, left |-> call[p].count, data |-> Junk]
      /\ pc' = [pc EXCEPT ![p] = s]
      /\ UNCHANGED <<part, started, task_on_op, tokens, waiting, owner, call, platter, irq,
                     store, leftover>>
  BY DEF ata_send_cmd, Goto, semVars, seen
<1>2. /\ owner = p /\ pc[p] = "send" /\ waiting = <<>> /\ Len(waiting) = 0
      /\ started => p \in Procs /\ ~irq
  BY <1>1, AtFacts DEF InCall
<1>3. DiskTypeOK /\ call[p] \in CallType
  BY DEF DiskInv, DiskTypeOK
<1>4. /\ call[p].cmd \in Commands /\ call[p].count \in 1 .. MaxCount
      /\ call[p].cnt = 0 /\ call[p].buf = <<>> /\ Len(call[p].buf) = 0
      /\ call[p].lba + call[p].count <= DiskSize
  BY <1>2 DEF DiskInv, InBounds
<1>5. s \in InCall /\ pc'[p] = s
  BY <1>1, <1>3 DEF InCall, DiskTypeOK
<1>6. InBounds(p)'
  BY <1>1, <1>4, <1>5, DiskAssumption DEF InBounds, Commands
<1>7. /\ pc' \in [Callers -> {"user", "lock"} \cup InCall]
      /\ OwnerInCall' /\ BootAlone' /\ \A q \in Callers : InBounds(q)'
      /\ ToWait = 0 /\ ToWait' = IF s = "wait" THEN 1 ELSE 0
  <2> HIDE DEF s
  <2>1. "send" \in InCall /\ "send" # "wait"
    BY DEF InCall
  <2> QED BY <1>1, <1>5, <1>6, <2>1, OwnStep DEF semVars
<1>8. DiskTypeOK'
  <2>1. ata' \in AtaType
    BY <1>1, <1>3, <1>4, DiskAssumption DEF AtaType, CallType, Data
  <2> QED BY <1>1, <1>3, <1>7, <2>1 DEF DiskTypeOK
<1>9. WaiterPolls'
  BY <1>1, <1>2 DEF WaiterPolls
<1>10. TokensBalance'
  <2>1. ata.state # "busy"
    BY <1>2 DEF DiskInv, DriveFollows
  <2>2. Busy = 0 /\ Busy' = ToWait' /\ Pending' = Pending
    BY <1>1, <1>7, <2>1 DEF Busy, Pending
  <2>3. /\ tokens \in Nat /\ leftover \in Nat /\ ToWait' \in Nat /\ Pending \in Nat
        /\ Len(waiting') = 0
    BY <1>1, <1>2, <1>3, <1>7 DEF DiskTypeOK, Pending
  <2> QED BY <1>1, <1>2, <1>7, <2>2, <2>3 DEF DiskInv, TokensBalance
<1>11. DriveFollows'
  <2>1. platter = store
    BY <1>2, <1>4 DEF DiskInv, DriveFollows, Reading, Writing, Commands
  <2>2. DriveAt(p, 0)'
    BY <1>1, <1>3, <1>4, DiskAssumption DEF DriveAt, CallType
  <2>3. CASE call[p].cmd = "read"
    <3>1. call[p].lba \in Lbas /\ ata'.lba = call[p].lba
      BY <1>1, <1>3, <1>4, DiskAssumption DEF CallType, Lbas
    <3>2. Reading(p)'
      BY <1>1, <1>4, <1>5, <2>1, <2>2, <2>3 DEF Reading
    <3> QED BY <1>1, <1>2, <1>5, <2>3, <3>2, DiskAssumption DEF DriveFollows
  <2>4. CASE call[p].cmd = "write"
    <3>1. AfterWrites(p, 0)' = AfterWrites(p, 0) /\ AfterWrites(p, 0) = store
      BY <1>1, <1>3, NothingWrittenYet DEF AfterWrites
    <3>2. Writing(p)'
      BY <1>1, <1>4, <1>5, <2>1, <2>2, <2>4, <3>1 DEF Writing
    <3> QED BY <1>1, <1>2, <1>5, <2>4, <3>2, DiskAssumption DEF DriveFollows
  <2> QED BY <1>4, <2>3, <2>4 DEF Commands
<1> QED BY <1>7, <1>8, <1>9, <1>10, <1>11 DEF DiskInv

LEMMA GiveInv == ASSUME DiskInv, NEW p \in Callers, ata_write_data(p) PROVE DiskInv'
<1>1. /\ At(p, "give")
      /\ ata' = Given(Datum(p, call[p].cnt + 1))
      /\ pc' = [pc EXCEPT ![p] = "wait"]
      /\ UNCHANGED <<part, started, task_on_op, tokens, waiting, owner, call, platter, irq,
                     store, leftover>>
  BY DEF ata_write_data, Goto, semVars, seen
<1>2. /\ owner = p /\ pc[p] = "give" /\ waiting = <<>> /\ Len(waiting) = 0
      /\ started => p \in Procs /\ ~irq
  BY <1>1, AtFacts DEF InCall
<1>3. DiskTypeOK /\ call[p] \in CallType
  BY DEF DiskInv, DiskTypeOK
<1>4. PICK k \in Nat : k = call[p].cnt
  BY <1>3 DEF CallType
<1>5. call[p].cmd = "write" /\ InBounds(p) /\ k < call[p].count
  BY <1>2, <1>4 DEF DiskInv, InBounds
<1>6. ata.state = "drq" /\ DriveAt(p, k) /\ platter = AfterWrites(p, k)
  BY <1>2, <1>4, <1>5 DEF DiskInv, DriveFollows, Writing
<1>7. pc'[p] = "wait"
  BY <1>1, <1>3 DEF DiskTypeOK
<1>8. InBounds(p)'
  BY <1>1, <1>2, <1>5, <1>7 DEF InBounds
<1>9. /\ pc' \in [Callers -> {"user", "lock"} \cup InCall]
      /\ OwnerInCall' /\ BootAlone' /\ \A q \in Callers : InBounds(q)'
      /\ ToWait = 0 /\ ToWait' = 1
  <2>1. "give" \in InCall /\ "give" # "wait" /\ "wait" \in InCall
    BY DEF InCall
  <2> QED BY <1>1, <1>8, <2>1, OwnStep DEF semVars
<1>10. /\ ata'.state = "busy" /\ ata'.data = Datum(p, k + 1)
       /\ ata'.cmd = ata.cmd /\ ata'.lba = ata.lba /\ ata'.left = ata.left /\ ata' \in AtaType
  <2>1. Datum(p, k + 1) \in Data
    BY DEF Data, Datum
  <2>2. ata' = [ata EXCEPT !.state = "busy", !.data = Datum(p, k + 1)]
    BY <1>1, <1>4, <1>6 DEF Given
  <2> QED BY <1>3, <2>1, <2>2 DEF DiskTypeOK, AtaType
<1>11. DiskTypeOK'
  BY <1>1, <1>3, <1>9, <1>10 DEF DiskTypeOK
<1>12. WaiterPolls'
  BY <1>1, <1>2 DEF WaiterPolls
<1>13. TokensBalance'
  <2>1. Busy = 0 /\ Busy' = 1 /\ Pending' = Pending
    BY <1>1, <1>6, <1>10 DEF Busy, Pending
  <2>2. tokens \in Nat /\ leftover \in Nat /\ Pending \in Nat /\ Len(waiting') = 0
    BY <1>1, <1>2, <1>3 DEF DiskTypeOK, Pending
  <2> QED BY <1>1, <1>2, <1>9, <2>1, <2>2 DEF DiskInv, TokensBalance
<1>14. DriveFollows'
  <2>1. DriveAt(p, k)' /\ AfterWrites(p, k)' = AfterWrites(p, k)
    BY <1>1, <1>6, <1>10 DEF DriveAt, AfterWrites
  <2>2. call'[p] = call[p]
    BY <1>1
  <2>3. Writing(p)'
    BY <1>1, <1>4, <1>6, <1>7, <1>10, <2>1, <2>2 DEF Writing
  <2> QED BY <1>1, <1>2, <1>5, <1>7, <2>3, DiskAssumption DEF DriveFollows
<1> QED BY <1>9, <1>11, <1>12, <1>13, <1>14 DEF DiskInv

LEMMA WaitInv == ASSUME DiskInv, NEW p \in Callers, wait(p) PROVE DiskInv'
<1>1. /\ At(p, "wait")
      /\ pc' = [pc EXCEPT ![p] = "poll"]
      /\ UNCHANGED <<part, started, task_on_op, owner, call, ata, platter, irq, store, leftover>>
      /\ ~started => UNCHANGED semVars
  BY DEF wait, Waits, Goto, seen
<1>2. /\ owner = p /\ pc[p] = "wait" /\ waiting = <<>> /\ Len(waiting) = 0
      /\ started => p \in Procs /\ ~irq
  BY <1>1, AtFacts DEF InCall
<1>3. DiskTypeOK
  BY DEF DiskInv
<1>4. /\ tokens' \in Nat /\ waiting' \in Seq(Procs)
      /\ waiting' = <<>> \/ (waiting' = <<p>> /\ p \in Procs)
      /\ started => tokens' - Len(waiting') = tokens - 1
      /\ ~started => tokens' = tokens /\ waiting' = waiting
  <2>1. tokens \in Nat
    BY <1>3 DEF DiskTypeOK
  <2>2. CASE ~started
    BY <1>1, <1>2, <2>1, <2>2 DEF semVars
  <2>3. CASE started /\ tokens > 0
    <3>1. tokens' = tokens - 1 /\ waiting' = waiting
      BY <2>3 DEF wait, Waits
    <3> QED BY <1>2, <2>1, <2>3, <3>1
  <2>4. CASE started /\ ~(tokens > 0)
    <3>1. tokens' = tokens /\ waiting' = Append(waiting, p)
      BY <2>4 DEF wait, Waits
    <3>2. waiting' = <<p>> /\ Len(waiting') = 1 /\ waiting' \in Seq(Procs)
      BY <1>2, <2>4, <3>1
    <3> QED BY <1>2, <2>1, <2>4, <3>1, <3>2
  <2> QED BY <2>2, <2>3, <2>4
<1>5. pc'[p] = "poll"
  BY <1>1, <1>3 DEF DiskTypeOK
<1>6. InBounds(p)'
  BY <1>1, <1>2, <1>5 DEF DiskInv, InBounds
<1>7. /\ pc' \in [Callers -> {"user", "lock"} \cup InCall]
      /\ OwnerInCall' /\ BootAlone' /\ \A q \in Callers : InBounds(q)'
      /\ ToWait = 1 /\ ToWait' = 0
  <2>1. "wait" \in InCall /\ "poll" \in InCall /\ "poll" # "wait"
    BY DEF InCall
  <2> QED BY <1>1, <1>6, <2>1, OwnStep
<1>8. DiskTypeOK'
  BY <1>1, <1>3, <1>4, <1>7 DEF DiskTypeOK
<1>9. WaiterPolls'
  BY <1>1, <1>2, <1>4, <1>5 DEF WaiterPolls
<1>10. TokensBalance'
  <2>1. Busy' = Busy /\ Busy \in Nat /\ Pending' = Pending /\ Pending \in Nat
    BY <1>1 DEF Busy, Pending
  <2>2. /\ tokens \in Nat /\ tokens' \in Nat /\ leftover \in Nat /\ Len(waiting') \in Nat
    BY <1>3, <1>4 DEF DiskTypeOK
  <2>3. started' /\ task_on_op' => tokens' + Pending' + Busy' = leftover' + Len(waiting') + ToWait'
    BY <1>1, <1>2, <1>4, <1>7, <2>1, <2>2 DEF DiskInv, TokensBalance
  <2>4. ~task_on_op' => tokens' = 0 /\ leftover' = 0
    BY <1>1, <1>2, DiskAssumption DEF DiskInv, TokensBalance, Callers
  <2> QED BY <1>1, <2>3, <2>4 DEF DiskInv, TokensBalance
<1>11. DriveFollows'
  <2>1. call'[p] = call[p] /\ ata' = ata
    BY <1>1
  <2>2. ASSUME call[p].cmd = "read" PROVE Reading(p)'
    BY <1>1, <1>2, <1>5, <2>1, <2>2 DEF DiskInv, DriveFollows, Reading, DriveAt
  <2>3. ASSUME call[p].cmd = "write" PROVE Writing(p)'
    BY <1>1, <1>2, <1>5, <2>1, <2>3 DEF DiskInv, DriveFollows, Writing, DriveAt, AfterWrites
  <2> QED BY <1>1, <1>2, <1>5, <2>1, <2>2, <2>3, DiskAssumption DEF DriveFollows
<1> QED BY <1>7, <1>8, <1>9, <1>10, <1>11 DEF DiskInv

LEMMA PollInv == ASSUME DiskInv, NEW p \in Callers, poll(p) PROVE DiskInv'
<1>1. /\ At(p, "poll") /\ ata.state # "busy"
      /\ UNCHANGED <<part, started, task_on_op, tokens, waiting, owner, ata, platter, irq,
                     store, leftover>>
  BY DEF poll, Settled, semVars, seen
<1>2. /\ owner = p /\ pc[p] = "poll" /\ waiting = <<>> /\ Len(waiting) = 0
      /\ started => p \in Procs /\ ~irq
  BY <1>1, AtFacts DEF InCall
<1>3. DiskTypeOK /\ call \in [Callers -> CallType]
  BY DEF DiskInv, DiskTypeOK
<1>4. PICK k \in Nat, n \in Nat : k = call[p].cnt /\ n = call[p].count /\ k < n
  <2>1. call[p].cnt \in Nat /\ call[p].count \in Nat
    BY <1>3 DEF CallType
  <2>2. call[p].cnt < call[p].count
    BY <1>2 DEF DiskInv, InBounds
  <2> QED BY <2>1, <2>2
<1>5. InBounds(p) /\ call[p].cmd \in Commands
  BY <1>2 DEF DiskInv, InBounds
\* Where the call goes from here, and what it knows then.
<1>6. PICK s \in {"unlock", "give", "take"}, j \in {k, k + 1} :
        /\ pc' = [pc EXCEPT ![p] = s] /\ call' = [call EXCEPT ![p].cnt = j]
        /\ ata.state = "err" => s = "unlock" /\ j = k
        /\ ata.state # "err" /\ call[p].cmd = "write" =>
             j = k + 1 /\ s = IF k + 1 = n THEN "unlock" ELSE "give"
        /\ ata.state # "err" /\ call[p].cmd = "read" => j = k /\ s = "take"
  <2>1. call = [call EXCEPT ![p].cnt = k]
    BY <1>3, <1>4 DEF CallType
  <2>2. CASE ata.state = "err"
    <3>1. pc' = [pc EXCEPT ![p] = "unlock"] /\ call' = call
      BY <2>2 DEF poll, Goto
    <3> QED BY <2>1, <2>2, <3>1
  <2>3. CASE ata.state # "err" /\ call[p].cmd = "write"
    <3>1. Done(p)
      BY <2>3 DEF poll
    <3>2. /\ call' = [call EXCEPT ![p].cnt = k + 1]
          /\ pc' = [pc EXCEPT ![p] = IF k + 1 = n THEN "unlock" ELSE "give"]
      BY <1>4, <2>3, <3>1 DEF Done, Goto
    <3> QED BY <2>3, <3>2
  <2>4. CASE ata.state # "err" /\ call[p].cmd = "read"
    <3>1. pc' = [pc EXCEPT ![p] = "take"] /\ call' = call
      BY <2>4 DEF poll, Goto
    <3> QED BY <2>1, <2>4, <3>1
  <2> QED BY <1>5, <2>2, <2>3, <2>4 DEF Commands
<1>7. /\ j \in Nat /\ s \in InCall /\ s # "wait"
      /\ \A q \in Callers \ {p} : call'[q] = call[q]
      /\ call'[p].cnt = j /\ call'[p].cmd = call[p].cmd /\ call'[p].lba = call[p].lba
      /\ call'[p].count = n /\ call'[p].buf = call[p].buf
      /\ call' \in [Callers -> CallType] /\ pc'[p] = s
  <2>1. j \in Nat /\ s \in InCall /\ s # "wait"
    BY <1>4 DEF InCall
  <2>2. pc'[p] = s
    BY <1>3, <1>6 DEF DiskTypeOK
  <2>3. call' = [call EXCEPT ![p] = [call[p] EXCEPT !.cnt = j]]
    BY <1>6
  <2>4. \A q \in Callers \ {p} : call'[q] = call[q]
    BY <1>3, <2>3
  <2>5. call'[p] = [call[p] EXCEPT !.cnt = j] /\ call[p] \in CallType
    BY <1>3, <2>3
  <2>6. call'[p] \in CallType
    BY <2>1, <2>5 DEF CallType
  <2>7. /\ call'[p].cnt = j /\ call'[p].cmd = call[p].cmd /\ call'[p].lba = call[p].lba
        /\ call'[p].count = n /\ call'[p].buf = call[p].buf
    BY <1>4, <2>5 DEF CallType
  <2>8. call' \in [Callers -> CallType]
    BY <1>3, <2>3, <2>5, <2>6
  <2> QED BY <2>1, <2>2, <2>4, <2>7, <2>8
<1>8. InBounds(p)'
  <2>1. call[p].count \in 1 .. MaxCount /\ call[p].lba + call[p].count <= DiskSize
    BY <1>2, <1>5 DEF InBounds
  <2>2. j <= n /\ (s # "unlock" => j < n) /\ (s = "give" => call[p].cmd = "write")
        /\ (s = "take" => call[p].cmd = "read")
    BY <1>4, <1>5, <1>6 DEF Commands
  <2>3. /\ call'[p].cmd \in Commands /\ call'[p].count \in 1 .. MaxCount
        /\ call'[p].lba + call'[p].count <= DiskSize /\ call'[p].cnt <= call'[p].count
        /\ pc'[p] \notin {"send", "lock"}
        /\ pc'[p] \in {"give", "wait", "poll", "take"} => call'[p].cnt < call'[p].count
        /\ pc'[p] = "give" => call'[p].cmd = "write"
        /\ pc'[p] = "take" => call'[p].cmd = "read"
    BY <1>4, <1>5, <1>6, <1>7, <2>1, <2>2
  <2> QED BY <2>3 DEF InBounds
<1>9. /\ pc' \in [Callers -> {"user", "lock"} \cup InCall]
      /\ OwnerInCall' /\ BootAlone' /\ \A q \in Callers : InBounds(q)'
      /\ ToWait = 0 /\ ToWait' = 0
  <2>1. "poll" \in InCall /\ "poll" # "wait"
    BY DEF InCall
  <2> QED BY <1>1, <1>6, <1>7, <1>8, <2>1, OwnStep DEF semVars
<1>10. DiskTypeOK'
  BY <1>1, <1>3, <1>7, <1>9 DEF DiskTypeOK
<1>11. WaiterPolls'
  BY <1>1, <1>2 DEF WaiterPolls
<1>12. TokensBalance'
  BY <1>1, <1>9 DEF DiskInv, TokensBalance, Busy, Pending
<1>13. DriveFollows'
  <2>1. CASE call[p].cmd = "read"
    <3>1. Reading(p)
      BY <1>2, <2>1 DEF DiskInv, DriveFollows
    <3>2. j = k /\ s \in {"unlock", "take"}
          /\ (s = "take" => ata.state = "drq" /\ DriveAt(p, k) /\ ata.data = platter[ata.lba])
          /\ (s = "unlock" => ata.state = "err")
      BY <1>1, <1>2, <1>4, <1>6, <2>1, <3>1 DEF Reading
    <3>3. DriveAt(p, k)' <=> DriveAt(p, k)
      BY <1>1, <1>4, <1>7 DEF DriveAt
    <3>4. Reading(p)'
      BY <1>1, <1>4, <1>7, <3>1, <3>2, <3>3 DEF Reading
    <3> QED BY <1>1, <1>2, <1>7, <2>1, <3>2, <3>4, DiskAssumption DEF DriveFollows
  <2>2. CASE call[p].cmd = "write"
    <3>1. Writing(p)
      BY <1>2, <2>2 DEF DiskInv, DriveFollows
    <3>2. \/ ata.state = "drq" /\ DriveAt(p, k + 1) /\ platter = AfterWrites(p, k + 1)
          \/ ata.state = "idle" /\ n = k + 1 /\ platter = AfterWrites(p, k + 1)
          \/ ata.state = "err" /\ platter = AfterWrites(p, k)
      BY <1>1, <1>2, <1>4, <3>1 DEF Writing
    <3>3. ata.state = "drq" => k + 1 # n
      BY <1>4, <3>2 DEF DriveAt
    <3>4. DriveAt(p, j)' <=> DriveAt(p, j)
      BY <1>1, <1>4, <1>7 DEF DriveAt
    <3>5. AfterWrites(p, j)' = AfterWrites(p, j)
      BY <1>1, <1>7 DEF AfterWrites
    <3>6. s = "give" => ata.state = "drq" /\ DriveAt(p, j) /\ platter = AfterWrites(p, j)
      BY <1>6, <2>2, <3>2
    <3>7. s = "unlock" => ata.state \in {"idle", "err"} /\ platter = AfterWrites(p, j)
      BY <1>6, <2>2, <3>2, <3>3
    <3>8. s # "take"
      BY <1>6, <2>2
    <3>9. Writing(p)'
      BY <1>1, <1>6, <1>7, <3>4, <3>5, <3>6, <3>7, <3>8 DEF Writing
    <3> QED BY <1>1, <1>2, <1>6, <1>7, <2>2, <3>7, <3>9, DiskAssumption DEF DriveFollows
  <2> QED BY <1>5, <2>1, <2>2 DEF Commands
<1> QED BY <1>9, <1>10, <1>11, <1>12, <1>13 DEF DiskInv

LEMMA TakeInv == ASSUME DiskInv, NEW p \in Callers, ata_read_data(p) PROVE DiskInv'
<1>1. /\ At(p, "take") /\ ata' = Taken
      /\ UNCHANGED <<part, started, task_on_op, tokens, waiting, owner, platter, irq,
                     store, leftover>>
  BY DEF ata_read_data, semVars, seen
<1>2. /\ owner = p /\ pc[p] = "take" /\ waiting = <<>> /\ Len(waiting) = 0
      /\ started => p \in Procs /\ ~irq
  BY <1>1, AtFacts DEF InCall
<1>3. DiskTypeOK /\ call \in [Callers -> CallType]
  BY DEF DiskInv, DiskTypeOK
<1>4. PICK k \in Nat, n \in Nat, b \in Nat, B \in Seq(Data) :
        k = call[p].cnt /\ n = call[p].count /\ k < n /\ b = call[p].lba /\ B = call[p].buf
  <2>1. call[p].cnt \in Nat /\ call[p].count \in Nat /\ call[p].lba \in Nat /\ call[p].buf \in Seq(Data)
    BY <1>3 DEF CallType
  <2>2. call[p].cnt < call[p].count
    BY <1>2 DEF DiskInv, InBounds
  <2> QED BY <2>1, <2>2
<1>5. call[p].cmd = "read" /\ n \in 1 .. MaxCount /\ b + n <= DiskSize
  BY <1>2, <1>4 DEF DiskInv, InBounds
<1>6. /\ platter = store /\ Len(B) = k
      /\ \A i \in 1 .. k : B[i] = store[b + i - 1]
      /\ ata.state = "drq" /\ DriveAt(p, k) /\ ata.data = platter[ata.lba]
  BY <1>2, <1>4, <1>5 DEF DiskInv, DriveFollows, Reading
<1>7. ata.lba = b + k /\ ata.left = n - k /\ ata.cmd = "read" /\ ata.data = store[b + k]
  BY <1>4, <1>5, <1>6 DEF DriveAt
<1>8. PICK s \in {"unlock", "wait"}, d \in Data :
        /\ s = IF k + 1 = n THEN "unlock" ELSE "wait"
        /\ d = store[b + k]
        /\ pc' = [pc EXCEPT ![p] = s]
        /\ call' = [call EXCEPT ![p] = [call[p] EXCEPT !.cnt = k + 1, !.buf = Append(B, d)]]
  <2>1. store[b + k] \in Data
    <3>1. DiskSize \in Nat /\ b + n <= DiskSize /\ k < n
      BY <1>4, <1>5, DiskAssumption
    <3>2. b + k \in Lbas
      BY <3>1 DEF Lbas
    <3> QED BY <1>3, <3>2 DEF DiskTypeOK
  <2>2. /\ pc' = [pc EXCEPT ![p] = IF k + 1 = n THEN "unlock" ELSE "wait"]
        /\ call' = [call EXCEPT ![p] = [call[p] EXCEPT !.cnt = k + 1, !.buf = Append(B, store[b + k])]]
    BY <1>4, <1>6, <1>7 DEF ata_read_data, Goto
  <2> QED BY <2>1, <2>2
<1>9. /\ s \in InCall /\ pc'[p] = s
      /\ \A q \in Callers \ {p} : call'[q] = call[q]
      /\ call'[p].cnt = k + 1 /\ call'[p].cmd = "read" /\ call'[p].lba = b
      /\ call'[p].count = n /\ call'[p].buf = Append(B, d)
      /\ call' \in [Callers -> CallType]
  <2>1. s \in InCall /\ pc'[p] = s
    BY <1>3, <1>8 DEF InCall, DiskTypeOK
  <2>2. \A q \in Callers \ {p} : call'[q] = call[q]
    BY <1>3, <1>8
  <2>3. call'[p] = [call[p] EXCEPT !.cnt = k + 1, !.buf = Append(B, d)] /\ call[p] \in CallType
    BY <1>3, <1>8
  <2>4. call'[p] \in CallType
    <3>1. Append(B, d) \in Seq(Data) /\ k + 1 \in Nat
      OBVIOUS
    <3> QED BY <2>3, <3>1 DEF CallType
  <2>5. /\ call'[p].cnt = k + 1 /\ call'[p].cmd = "read" /\ call'[p].lba = b
        /\ call'[p].count = n /\ call'[p].buf = Append(B, d)
    BY <1>4, <1>5, <2>3 DEF CallType
  <2>6. call' \in [Callers -> CallType]
    BY <1>3, <1>8, <2>3, <2>4
  <2> QED BY <2>1, <2>2, <2>5, <2>6
<1>10. InBounds(p)'
  BY <1>4, <1>5, <1>8, <1>9 DEF InBounds, Commands
<1>11. /\ pc' \in [Callers -> {"user", "lock"} \cup InCall]
       /\ OwnerInCall' /\ BootAlone' /\ \A q \in Callers : InBounds(q)'
       /\ ToWait = 0 /\ ToWait' = IF s = "wait" THEN 1 ELSE 0
  <2>1. "take" \in InCall /\ "take" # "wait"
    BY DEF InCall
  <2>2. /\ call'[p].cmd = call[p].cmd /\ UNCHANGED semVars
        /\ UNCHANGED <<started, leftover, owner>> /\ pc' = [pc EXCEPT ![p] = s]
        /\ s \in InCall /\ \A q \in Callers \ {p} : call'[q] = call[q]
    BY <1>1, <1>5, <1>8, <1>9 DEF semVars
  <2>3. At(p, "take")
    BY <1>1
  <2> QED BY <1>10, <2>1, <2>2, <2>3, OwnStep
<1>12. /\ ata' \in AtaType
       /\ s = "unlock" => ata'.state = "idle"
       /\ s = "wait" => /\ ata'.state = "busy" /\ ata'.cmd = "read"
                        /\ ata'.lba = b + (k + 1) /\ ata'.left = n - (k + 1) /\ ata'.left > 0
  <2>1. ata \in AtaType /\ Junk \in Data
    BY <1>3 DEF DiskTypeOK, Data
  <2>2. CASE ata.left = 1
    <3>1. ata' = Idle
      BY <1>1, <1>6, <2>2 DEF Taken
    <3>2. s = "unlock"
      BY <1>4, <1>7, <1>8, <2>2
    <3> QED BY <2>1, <3>1, <3>2 DEF Idle, AtaType
  <2>3. CASE ata.left # 1
    <3>1. ata' = [ata EXCEPT !.state = "busy", !.lba = @ + 1, !.left = @ - 1, !.data = Junk]
      BY <1>1, <1>6, <2>3 DEF Taken
    <3>2. /\ ata.left > 1 /\ ata.left - 1 \in Nat /\ ata.lba + 1 \in Nat /\ s = "wait"
          /\ ata.left - 1 = n - (k + 1) /\ ata.lba + 1 = b + (k + 1)
      <4>1. k < n /\ ata.left = n - k /\ ata.lba = b + k /\ k + 1 # n
        BY <1>4, <1>7, <2>3
      <4> QED BY <1>8, <4>1
    <3>3. /\ ata'.state = "busy" /\ ata'.cmd = ata.cmd /\ ata'.lba = ata.lba + 1
          /\ ata'.left = ata.left - 1 /\ ata' \in AtaType
      BY <2>1, <3>1, <3>2 DEF AtaType
    <3> QED BY <1>7, <3>2, <3>3
  <2> QED BY <2>2, <2>3
<1>13. DiskTypeOK'
  BY <1>1, <1>3, <1>9, <1>11, <1>12 DEF DiskTypeOK
<1>14. WaiterPolls'
  BY <1>1, <1>2 DEF WaiterPolls
<1>15. TokensBalance'
  <2>1. Busy = 0 /\ Busy' = ToWait' /\ Pending' = Pending
    BY <1>1, <1>6, <1>8, <1>11, <1>12 DEF Busy, Pending
  <2>2. /\ tokens \in Nat /\ leftover \in Nat /\ Pending \in Nat /\ ToWait' \in Nat
        /\ Len(waiting') = 0
    BY <1>1, <1>2, <1>3, <1>11 DEF DiskTypeOK, Pending
  <2> QED BY <1>1, <1>2, <1>11, <2>1, <2>2 DEF DiskInv, TokensBalance
<1>16. DriveFollows'
  <2>1. Len(Append(B, d)) = k + 1
    BY <1>4, <1>6
  <2>2. ASSUME NEW i \in 1 .. k + 1 PROVE Append(B, d)[i] = store[b + i - 1]
    <3>1. CASE i = k + 1
      <4>1. Append(B, d)[i] = d /\ b + i - 1 = b + k
        BY <1>4, <1>6, <3>1
      <4> QED BY <1>8, <4>1
    <3>2. CASE i # k + 1
      <4>1. i \in 1 .. k
        BY <1>4, <3>2
      <4>2. Append(B, d)[i] = B[i]
        BY <1>4, <1>6, <4>1
      <4> QED BY <1>6, <4>1, <4>2
    <3> QED BY <3>1, <3>2
  <2>3. s = "wait" => DriveAt(p, k + 1)'
    BY <1>9, <1>12 DEF DriveAt
  <2>4. Reading(p)'
    <3>1. platter' = store' /\ store' = store
      BY <1>1, <1>6
    <3>2. s = "wait" => ata'.state = "busy" /\ ata'.state # "drq" /\ ata'.state # "err"
      BY <1>12
    <3> QED BY <1>8, <1>9, <2>1, <2>2, <2>3, <3>1, <3>2 DEF Reading
  <2> QED BY <1>1, <1>2, <1>8, <1>9, <1>12, <2>4, DiskAssumption DEF DriveFollows
<1> QED BY <1>11, <1>13, <1>14, <1>15, <1>16 DEF DiskInv

LEMMA UnlockInv == ASSUME DiskInv, NEW p \in Callers, unlock(p) PROVE DiskInv'
<1>1. /\ At(p, "unlock")
      /\ owner' = Nobody /\ store' = platter
      /\ call' = [call EXCEPT ![p] = NoCall] /\ pc' = [pc EXCEPT ![p] = "user"]
      /\ UNCHANGED <<part, started, task_on_op, tokens, waiting, ata, platter, irq, leftover>>
  BY DEF unlock, Goto, semVars
<1>2. /\ owner = p /\ pc[p] = "unlock" /\ waiting = <<>> /\ Len(waiting) = 0
      /\ started => p \in Procs /\ ~irq
  BY <1>1, AtFacts DEF InCall
<1>3. DiskTypeOK
  BY DEF DiskInv
<1>4. pc'[p] = "user" /\ \A q \in Callers \ {p} : pc'[q] = pc[q] /\ call'[q] = call[q]
  BY <1>1, <1>3 DEF DiskTypeOK
<1>5. ata.state \in {"idle", "err"}
  BY <1>2 DEF DiskInv, DriveFollows
<1>6. DiskTypeOK'
  <2>1. NoCall \in CallType
    BY DEF NoCall, CallType
  <2>2. call' \in [Callers -> CallType] /\ pc' \in [Callers -> {"user", "lock"} \cup InCall]
    BY <1>1, <1>3, <2>1 DEF DiskTypeOK
  <2> QED BY <1>1, <1>3, <2>2 DEF DiskTypeOK
<1>7. OwnerInCall'
  BY <1>1, <1>2, <1>4, DiskAssumption DEF DiskInv, OwnerInCall, InCall
<1>8. ASSUME NEW q \in Callers PROVE InBounds(q)'
  BY <1>4 DEF DiskInv, InBounds
<1>9. BootAlone'
  <2>1. Boot \in Callers /\ Procs \subseteq Callers /\ Boot \notin Procs
    BY DiskAssumption DEF Callers
  <2> QED BY <1>1, <1>2, <1>4, <2>1 DEF DiskInv, BootAlone
<1>10. WaiterPolls'
  BY <1>1, <1>2 DEF WaiterPolls
<1>11. TokensBalance'
  <2>1. ToWait = 0
    BY <1>2, ToWaitOfOwner DEF DiskInv
  <2>2. ToWait' = 0
    BY <1>1, <1>7, DiskAssumption DEF OwnerInCall, InCall, ToWait
  <2> QED BY <1>1, <1>2, <2>1, <2>2 DEF DiskInv, TokensBalance, Busy, Pending
<1>12. DriveFollows'
  BY <1>1, <1>5, DiskAssumption DEF DriveFollows
<1> QED BY <1>6, <1>7, <1>8, <1>9, <1>10, <1>11, <1>12 DEF DiskInv

LEMMA DiskNextInv == ASSUME DiskInv, [Next]_vars PROVE DiskInv'
<1>1. ASSUME NEW m \in Minors, disk_open(m[1], m[2]) PROVE DiskInv'
  BY <1>1, DiskOpenInv
<1>2. ASSUME NEW p \in Callers, Calls(p) PROVE DiskInv'
  BY <1>2, DiskCallInv DEF Calls, Commands
<1>3. ASSUME NEW p \in Callers, Continue(p) PROVE DiskInv'
  BY <1>3, SendInv, GiveInv, WaitInv, PollInv, TakeInv, UnlockInv DEF Continue
<1>4. CASE UNCHANGED vars
  <2>1. UNCHANGED <<part, started, task_on_op, tokens, waiting, owner, pc, call, ata, platter,
                    irq, store, leftover>>
    BY <1>4 DEF vars, semVars, seen
  <2>2. DiskTypeOK' /\ OwnerInCall' /\ BootAlone' /\ WaiterPolls'
    BY <2>1 DEF DiskInv, DiskTypeOK, OwnerInCall, BootAlone, WaiterPolls
  <2>3. TokensBalance' /\ \A p \in Callers : InBounds(p)'
    BY <2>1 DEF DiskInv, TokensBalance, Pending, Busy, ToWait, InBounds
  <2> QED BY <2>1, <2>2, <2>3, SameDrive DEF DiskInv
<1> QED BY <1>1, <1>2, <1>3, <1>4, StartInv, DriveDoneInv, DriveFailsInv, HandlerInv, LockInv DEF Next

LEMMA DiskInvariant == Spec => []DiskInv
<1>1. DiskInv /\ [Next]_vars => DiskInv'
  BY DiskNextInv
<1> QED BY DiskInitInv, <1>1, PTL DEF Spec
-----------------------------------------------------------------------------
\* Every variable of dev/disk.c and of a call in it keeps its range, and so does what the
\* model says of the drive: no sector outside the drive is ever addressed.
THEOREM DiskTypeCorrect == Spec => []DiskTypeOK
<1>1. DiskInv => DiskTypeOK
  BY DEF DiskInv
<1> QED BY DiskInvariant, <1>1, PTL

\* However many calls there are, and whatever errors, op_sem counts between them what the
\* start-up has left, at most one token: each sem_wait of disk_read and disk_write
\* (disk.c) has met one sem_notify of do_handler_ide_primary.
THEOREM TokensDoNotDrift == Spec => []LeftoverStays
<1>1. ASSUME DiskInv PROVE LeftoverStays
  <2> SUFFICES ASSUME started, task_on_op, owner = Nobody PROVE tokens + Pending = leftover
    BY DEF LeftoverStays
  <2>1. Busy = 0
    BY <1>1 DEF DiskInv, DriveFollows, Busy
  <2>2. ToWait = 0
    BY <1>1, ToWaitOfNobody DEF DiskInv
  <2>3. Len(waiting) = 0
    BY <1>1, DiskAssumption DEF DiskInv, WaiterPolls, Callers
  <2>4. tokens \in Nat /\ Pending \in Nat /\ leftover \in Nat
    BY <1>1 DEF DiskInv, DiskTypeOK, Pending
  <2> QED BY <1>1, <2>1, <2>2, <2>3, <2>4 DEF DiskInv, TokensBalance
<1> QED BY DiskInvariant, <1>1, PTL

\* What a call of disk_read has put into the buffer when it returns.
LEMMA ReturnedRead ==
  ASSUME DiskInv, NEW p \in Callers, owner = p, call[p].cmd = "read"
  PROVE  call[p].buf = [i \in 1 .. call[p].cnt |-> store[call[p].lba + i - 1]]
<1>1. PICK B \in Seq(Data), k \in Nat, b \in Nat : B = call[p].buf /\ k = call[p].cnt /\ b = call[p].lba
  BY DEF DiskInv, DiskTypeOK, CallType
<1>2. Len(B) = k /\ \A i \in 1 .. k : B[i] = store[b + i - 1]
  BY <1>1 DEF DiskInv, DriveFollows, Reading
<1>3. B = [i \in 1 .. k |-> B[i]]
  BY <1>2
<1>4. [i \in 1 .. k |-> B[i]] = [i \in 1 .. k |-> store[b + i - 1]]
  BY <1>2
<1> QED BY <1>1, <1>3, <1>4

\* The end of a call is the call, for BlockStore.
LEMMA UnlockStores ==
  ASSUME DiskInv, NEW p \in Callers, unlock(p) PROVE Store!Next
<1>1. /\ At(p, "unlock") /\ store' = platter
      /\ out' = <<p, IF call[p].cmd = "read" THEN call[p].buf
                     ELSE [i \in 1 .. call[p].cnt |-> Datum(p, i)]>>
  BY DEF unlock
<1>2. owner = p /\ pc[p] = "unlock"
  BY <1>1, AtFacts DEF InCall
<1>3. PICK b \in Nat, k \in Nat : b = call[p].lba /\ k = call[p].cnt
  BY DEF DiskInv, DiskTypeOK, CallType
<1>4. /\ call[p].cmd \in Commands /\ b \in Lbas /\ k \in 0 .. MaxCount
      /\ Store!Span(b, k) \subseteq Lbas
  <2>1. PICK n \in Nat : n \in 1 .. MaxCount /\ k <= n /\ b + n <= DiskSize
    BY <1>2, <1>3, DiskAssumption DEF DiskInv, InBounds
  <2>2. b <= DiskSize - 1 /\ b + k - 1 <= DiskSize - 1 /\ k <= MaxCount /\ DiskSize \in Nat
    BY <2>1, DiskAssumption
  <2>3. b \in Lbas /\ k \in 0 .. MaxCount /\ b .. b + k - 1 \subseteq Lbas
    BY <2>2, DiskAssumption DEF Lbas
  <2> QED BY <1>2, <2>3 DEF DiskInv, InBounds, Store!Span
<1>5. CASE call[p].cmd = "read"
  <2>1. store' = store
    BY <1>1, <1>2, <1>5 DEF DiskInv, DriveFollows, Reading
  <2>2. out' = <<p, [i \in 1 .. k |-> store[b + i - 1]]>>
    BY <1>1, <1>2, <1>3, <1>5, ReturnedRead
  <2>3. Store!Read(p, b, k)
    BY <2>1, <2>2 DEF Store!Read
  <2> QED BY <1>4, <2>3 DEF Store!Next
<1>6. CASE call[p].cmd = "write"
  <2>1. store' = AfterWrites(p, k)
    BY <1>1, <1>2, <1>3, <1>6 DEF DiskInv, DriveFollows, Writing
  <2>2. store' = [l \in Lbas |-> IF l \in b .. b + k - 1 THEN Datum(p, l - b + 1) ELSE store[l]]
    BY <1>3, <2>1 DEF AfterWrites
  <2>3. out' = <<p, [i \in 1 .. k |-> Datum(p, i)]>>
    BY <1>1, <1>3, <1>6
  <2>4. Store!Write(p, b, k)
    BY <2>2, <2>3 DEF Store!Write, Store!Span
  <2> QED BY <1>4, <2>4 DEF Store!Next
<1> QED BY <1>4, <1>5, <1>6 DEF Commands

\* The disk is a BlockStore: a call of disk_read returns what the sectors held all along
\* it, one of disk_write leaves its data in them and nothing else, also when an interrupt
\* of the start-up has let a task past the semaphore too early.
THEOREM DiskStoresBlocks == Spec => StoresBlocks
<1>1. Init => Store!Init
  BY DEF Init, Store!Init
<1>2. ASSUME DiskInv, [Next]_vars PROVE [Store!Next]_(Store!vars)
  <2>1. CASE \E p \in Callers : unlock(p)
    BY <1>2, <2>1, UnlockStores
  <2>2. CASE ~\E p \in Callers : unlock(p)
    <3>1. UNCHANGED <<store, out>>
      BY <1>2, <2>2 DEF Next, vars, seen, disk_open, start, drive_done, drive_fails,
         do_handler_ide_primary, Calls, disk_call, lock, Continue, ata_send_cmd,
         ata_write_data, wait, poll, ata_read_data
    <3> QED BY <3>1 DEF Store!vars
  <2> QED BY <2>1, <2>2
<1> QED BY DiskInvariant, <1>1, <1>2, PTL DEF Spec, StoresBlocks, Store!Spec
-----------------------------------------------------------------------------
(* The file system: chains, contents and positions.                        *)

\* A set of numbers has a least one ...
LEMMA LeastOf ==
    ASSUME NEW T \in SUBSET Nat, T # {}
    PROVE  \E m \in T : \A n \in T : m <= n
  <1>1. \E m \in T : \A n \in T : ~ (<<n, m>> \in OpToRel(<, Nat))
    BY WFMin, NatLessThanWellFounded
  <1>2. PICK m \in T : \A n \in T : ~ (<<n, m>> \in OpToRel(<, Nat))
    BY <1>1
  <1>3. ASSUME NEW n \in T PROVE m <= n
    <2>1. n \in Nat /\ m \in Nat
      OBVIOUS
    <2>2. ~ (n < m)
      BY <1>2, <2>1 DEF OpToRel
    <2>. QED BY <2>1, <2>2
  <1>. QED BY <1>3

\* ... so that a set with 0 and with the successor of each member has every number: the
\* induction over k that Nth(c, k) asks for.
LEMMA Induction ==
    ASSUME NEW S, 0 \in S, \A n \in Nat : n \in S => n + 1 \in S
    PROVE  Nat \subseteq S
  <1>. SUFFICES ASSUME NEW x \in Nat, x \notin S PROVE FALSE
    OBVIOUS
  <1>. DEFINE T == {n \in Nat : n \notin S}
  <1>1. T \in SUBSET Nat /\ T # {}
    OBVIOUS
  <1>. HIDE DEF T
  <1>2. PICK m \in T : \A n \in T : m <= n
    BY <1>1, LeastOf
  <1>. USE DEF T
  <1>3. m \in Nat /\ m # 0
    BY <1>2
  <1>4. m - 1 \in Nat /\ m - 1 \in S
    BY <1>2, <1>3
  <1>. QED BY <1>2, <1>3, <1>4

\* cluster_get_next, Nth and Chain in any table F, so that two tables can be compared.
NextIn(F, c) == IF c \in Clusters THEN F[c] ELSE Invalid

NthIn(F, c, k) ==
    LET n[i \in 0 .. k] == IF i = 0 THEN c ELSE NextIn(F, n[i - 1])
    IN  n[k]

ChainIn(F, c) == {NthIn(F, c, k) : k \in 0 .. LastCluster - 2} \cap Clusters

LEMMA AsInTable ==
    /\ \A c, k : Nth(c, k) = NthIn(fat, c, k)
    /\ \A c : Chain(c) = ChainIn(fat, c)
    /\ \A c : cluster_get_next(c) = NextIn(fat, c)
  BY DEF Nth, NthIn, Chain, ChainIn, cluster_get_next, cluster_is_valid, NextIn

\* w lists the first clusters of the chain, w[0] to w[k].
Walk(F, c, k, w) == w = [i \in 0 .. k |-> IF i = 0 THEN c ELSE NextIn(F, w[i - 1])]

LEMMA WalkExists ==
    ASSUME NEW F, NEW c, NEW k \in Nat
    PROVE  \E w : Walk(F, c, k, w)
  <1>. DEFINE S == {n \in Nat : \E w : Walk(F, c, n, w)}
  <1>1. 0 \in S
    <2>1. Walk(F, c, 0, [i \in 0 .. 0 |-> c])
      BY DEF Walk
    <2>. QED BY <2>1
  <1>2. ASSUME NEW n \in Nat, n \in S PROVE n + 1 \in S
    <2>1. PICK w : Walk(F, c, n, w)
      BY <1>2
    <2>. DEFINE v == [i \in 0 .. n + 1 |-> IF i = 0 THEN c ELSE NextIn(F, w[i - 1])]
    <2>2. ASSUME NEW i \in 0 .. n + 1, i # 0 PROVE v[i - 1] = w[i - 1]
      <3>1. i - 1 \in 0 .. n /\ i - 1 \in 0 .. n + 1
        BY <2>2
      <3>. QED BY <3>1, <2>1 DEF Walk
    <2>3. v = [i \in 0 .. n + 1 |-> IF i = 0 THEN c ELSE NextIn(F, v[i - 1])]
      BY <2>2
    <2>4. Walk(F, c, n + 1, v)
      BY <2>3 DEF Walk
    <2>. QED BY <2>4
  <1>. HIDE DEF S
  <1>3. Nat \subseteq S
    BY <1>1, <1>2, Induction
  <1>. QED BY <1>3 DEF S

LEMMA WalksAgree ==
    ASSUME NEW F, NEW c, NEW j \in Nat, NEW k \in Nat, NEW v, NEW w,
           Walk(F, c, j, v), Walk(F, c, k, w), NEW i \in Nat, i <= j, i <= k
    PROVE  v[i] = w[i]
  <1>. DEFINE S == {n \in Nat : n <= j /\ n <= k => v[n] = w[n]}
  <1>1. 0 \in S
    BY DEF Walk
  <1>2. ASSUME NEW n \in Nat, n \in S PROVE n + 1 \in S
    <2>. SUFFICES ASSUME n + 1 <= j, n + 1 <= k PROVE v[n + 1] = w[n + 1]
      OBVIOUS
    <2>1. v[n] = w[n] /\ n + 1 \in 0 .. j /\ n + 1 \in 0 .. k /\ (n + 1) - 1 = n /\ n + 1 # 0
      BY <1>2
    <2>2. v[n + 1] = NextIn(F, v[n])
      BY <2>1 DEF Walk
    <2>3. w[n + 1] = NextIn(F, w[n])
      BY <2>1 DEF Walk
    <2>. QED BY <2>1, <2>2, <2>3
  <1>. HIDE DEF S
  <1>3. Nat \subseteq S
    BY <1>1, <1>2, Induction
  <1>. QED BY <1>3 DEF S

LEMMA NthWalk ==
    ASSUME NEW F, NEW c, NEW k \in Nat, NEW w, Walk(F, c, k, w)
    PROVE  NthIn(F, c, k) = w[k]
  <1>. DEFINE v == CHOOSE x : Walk(F, c, k, x)
  <1>1. Walk(F, c, k, v)
    OBVIOUS
  <1>2. NthIn(F, c, k) = v[k]
    BY DEF NthIn, Walk
  <1>. HIDE DEF v
  <1>. QED BY <1>1, <1>2, WalksAgree

\* The recursion of Nth, for every k and not only below a fixed one.
LEMMA NthRec ==
    ASSUME NEW F, NEW c, NEW k \in Nat
    PROVE  /\ NthIn(F, c, 0) = c
           /\ NthIn(F, c, k + 1) = NextIn(F, NthIn(F, c, k))
  <1>1. PICK w : Walk(F, c, k + 1, w)
    BY WalkExists
  <1>2. PICK v : Walk(F, c, k, v)
    BY WalkExists
  <1>3. PICK u : Walk(F, c, 0, u)
    BY WalkExists
  <1>4. NthIn(F, c, k + 1) = w[k + 1] /\ NthIn(F, c, k) = v[k] /\ NthIn(F, c, 0) = u[0]
    BY <1>1, <1>2, <1>3, NthWalk
  <1>5. u[0] = c
    BY <1>3 DEF Walk
  <1>6. v[k] = w[k]
    BY <1>1, <1>2, WalksAgree
  <1>7. w[k + 1] = NextIn(F, w[k])
    BY <1>1 DEF Walk
  <1>. QED BY <1>4, <1>5, <1>6, <1>7

\* p lists, without repetition, the m clusters of a chain that starts at c and comes to an end.
IsPath(F, p, m, c) ==
    /\ m \in Nat
    /\ p \in [0 .. m - 1 -> Clusters]
    /\ \A j, k \in 0 .. m - 1 : p[j] = p[k] => j = k
    /\ m = 0 => c \notin Clusters
    /\ m > 0 => p[0] = c
    /\ \A k \in 0 .. m - 1 : /\ F[p[k]] # Free
                             /\ k + 1 < m => F[p[k]] = p[k + 1]
                             /\ k + 1 = m => F[p[k]] \notin Clusters

\* The clusters of the path.
On(p, m) == {p[k] : k \in 0 .. m - 1}

LEMMA MarksOutside == Clusters \subseteq Nat /\ Free \notin Clusters /\ Invalid \notin Clusters /\ HostEnd \notin Clusters
  BY FatAssumption DEF Clusters, Free, Invalid, HostEnd

\* Walking from c goes along the path and then off it for good.
LEMMA PathNth ==
    ASSUME NEW F, NEW p, NEW m, NEW c, IsPath(F, p, m, c)
    PROVE  /\ \A k \in 0 .. m - 1 : NthIn(F, c, k) = p[k]
           /\ NthIn(F, c, m) = IF m = 0 THEN c ELSE F[p[m - 1]]
           /\ \A k \in Nat : k > m => NthIn(F, c, k) = Invalid
           /\ \A k \in Nat : k >= m => NthIn(F, c, k) \notin Clusters
  <1>0. m \in Nat
    BY DEF IsPath
  <1>. DEFINE S == {k \in Nat : k < m => NthIn(F, c, k) = p[k]}
  <1>1. 0 \in S
    BY NthRec, <1>0 DEF IsPath
  <1>2. ASSUME NEW n \in Nat, n \in S PROVE n + 1 \in S
    <2>. SUFFICES ASSUME n + 1 < m PROVE NthIn(F, c, n + 1) = p[n + 1]
      OBVIOUS
    <2>1. n < m /\ n \in 0 .. m - 1
      BY <1>0
    <2>2. NthIn(F, c, n) = p[n] /\ p[n] \in Clusters
      BY <2>1, <1>2 DEF IsPath
    <2>3. F[p[n]] = p[n + 1]
      BY <2>1 DEF IsPath
    <2>. QED BY <2>2, <2>3, NthRec DEF NextIn
  <1>. HIDE DEF S
  <1>3. Nat \subseteq S
    BY <1>1, <1>2, Induction
  <1>4. \A k \in 0 .. m - 1 : NthIn(F, c, k) = p[k]
    BY <1>3, <1>0 DEF S
  <1>5. /\ NthIn(F, c, m) = IF m = 0 THEN c ELSE F[p[m - 1]]
        /\ NthIn(F, c, m) \notin Clusters
    <2>1. CASE m = 0
      BY <2>1, NthRec DEF IsPath
    <2>2. CASE m # 0
      <3>1. m - 1 \in Nat /\ m - 1 \in 0 .. m - 1 /\ (m - 1) + 1 = m
        BY <1>0, <2>2
      <3>2. NthIn(F, c, m - 1) = p[m - 1] /\ p[m - 1] \in Clusters /\ F[p[m - 1]] \notin Clusters
        BY <3>1, <1>4 DEF IsPath
      <3>3. NthIn(F, c, (m - 1) + 1) = NextIn(F, NthIn(F, c, m - 1))
        BY <3>1, NthRec
      <3>. QED BY <2>2, <3>1, <3>2, <3>3 DEF NextIn
    <2>. QED BY <2>1, <2>2
  <1>. DEFINE T == {k \in Nat : NthIn(F, c, m + 1 + k) = Invalid}
  <1>6. 0 \in T
    BY <1>0, <1>5, NthRec DEF NextIn
  <1>7. ASSUME NEW n \in Nat, n \in T PROVE n + 1 \in T
    <2>1. m + 1 + n \in Nat /\ m + 1 + (n + 1) = (m + 1 + n) + 1
      BY <1>0
    <2>2. NthIn(F, c, (m + 1 + n) + 1) = NextIn(F, NthIn(F, c, m + 1 + n))
      BY <2>1, NthRec
    <2>. QED BY <1>7, <2>1, <2>2, MarksOutside DEF NextIn
  <1>. HIDE DEF T
  <1>8. Nat \subseteq T
    BY <1>6, <1>7, Induction
  <1>9. ASSUME NEW k \in Nat, k > m PROVE NthIn(F, c, k) = Invalid
    <2>1. k - (m + 1) \in T /\ m + 1 + (k - (m + 1)) = k
      BY <1>8, <1>9, <1>0
    <2>. QED BY <2>1 DEF T
  <1>10. \A k \in Nat : k >= m => NthIn(F, c, k) \notin Clusters
    BY <1>5, <1>9, <1>0, MarksOutside
  <1>. QED BY <1>4, <1>5, <1>9, <1>10

LEMMA PathLength ==
    ASSUME NEW F, NEW p, NEW m, NEW c, IsPath(F, p, m, c)
    PROVE  m \in Nat /\ m <= LastCluster - 1
  <1>1. m \in Nat /\ p \in Injection(0 .. m - 1, Clusters)
    BY DEF IsPath, Injection, IsInjective
  <1>2. IsFiniteSet(Clusters) /\ Cardinality(Clusters) = LastCluster - 1
    BY FS_Interval, FatAssumption DEF Clusters
  <1>3. Cardinality(0 .. m - 1) <= LastCluster - 1
    BY <1>1, <1>2, FS_Injection
  <1>4. Cardinality(0 .. m - 1) = m
    <2>1. m - 1 \in Int /\ 0 \in Int /\ (0 > m - 1 <=> m = 0) /\ (m - 1) - 0 + 1 = m
      BY <1>1
    <2>. QED BY <2>1, FS_Interval
  <1>. QED BY <1>1, <1>3, <1>4

\* A chain with a path is the set of the path's clusters, all of them taken.
LEMMA PathChain ==
    ASSUME NEW F, NEW p, NEW m, NEW c, IsPath(F, p, m, c)
    PROVE  /\ ChainIn(F, c) = On(p, m)
           /\ On(p, m) \subseteq Clusters
           /\ \A x \in On(p, m) : F[x] # Free
  <1>1. m \in Nat /\ m <= LastCluster - 1 /\ LastCluster \in Nat
    BY PathLength, FatAssumption
  <1>2. On(p, m) \subseteq Clusters /\ \A x \in On(p, m) : F[x] # Free
    BY DEF On, IsPath
  <1>3. ASSUME NEW x \in ChainIn(F, c) PROVE x \in On(p, m)
    <2>1. PICK k \in 0 .. LastCluster - 2 : x = NthIn(F, c, k)
      BY DEF ChainIn
    <2>2. x \in Clusters
      BY DEF ChainIn
    <2>3. k < m
      BY <2>1, <2>2, <1>1, PathNth
    <2>4. k \in 0 .. m - 1
      BY <2>1, <2>3, <1>1
    <2>. QED BY <2>1, <2>4, PathNth DEF On
  <1>4. ASSUME NEW x \in On(p, m) PROVE x \in ChainIn(F, c)
    <2>1. PICK k \in 0 .. m - 1 : x = p[k]
      BY DEF On
    <2>2. k \in 0 .. LastCluster - 2 /\ x = NthIn(F, c, k)
      BY <2>1, <1>1, PathNth
    <2>. QED BY <2>2, <1>2 DEF ChainIn
  <1>. QED BY <1>2, <1>3, <1>4

\* A path is left alone by whoever leaves its clusters alone.
LEMMA PathFrame ==
    ASSUME NEW F, NEW F2, NEW p, NEW m, NEW c, IsPath(F, p, m, c),
           \A x \in On(p, m) : F2[x] = F[x]
    PROVE  /\ IsPath(F2, p, m, c)
           /\ ChainIn(F2, c) = ChainIn(F, c)
           /\ \A k \in Nat : NthIn(F2, c, k) = NthIn(F, c, k)
  <1>0. \A k \in 0 .. m - 1 : F2[p[k]] = F[p[k]]
    BY DEF On
  <1>1. IsPath(F2, p, m, c)
    BY <1>0 DEF IsPath
  <1>2. ChainIn(F2, c) = ChainIn(F, c)
    BY <1>1, PathChain
  <1>3. ASSUME NEW k \in Nat PROVE NthIn(F2, c, k) = NthIn(F, c, k)
    <2>0. m \in Nat
      BY DEF IsPath
    <2>1. CASE k \in 0 .. m - 1
      BY <2>1, <1>1, PathNth
    <2>2. CASE k = m
      <3>1. m > 0 => F2[p[m - 1]] = F[p[m - 1]]
        BY <1>0, <2>0
      <3>. QED BY <3>1, <2>0, <2>2, <1>1, PathNth
    <2>3. CASE k > m
      BY <2>3, <1>1, PathNth
    <2>. QED BY <2>0, <2>1, <2>2, <2>3
  <1>. QED BY <1>1, <1>2, <1>3

LEMMA MakePath ==
    ASSUME NEW F, NEW r, NEW c, NEW w \in Nat, NEW t \in Int, w # 0, w - 1 = t,
           r \in [0 .. t -> Clusters],
           \A j, k \in 0 .. t : r[j] = r[k] => j = k,
           r[0] = c,
           \A k \in 0 .. t : /\ F[r[k]] # Free
                             /\ k + 1 < w => F[r[k]] = r[k + 1]
                             /\ k + 1 = w => F[r[k]] \notin Clusters
    PROVE  IsPath(F, r, w, c)
  <1>1. t \in Int /\ 0 .. w - 1 = 0 .. t
    OBVIOUS
  <1>2. r \in [0 .. w - 1 -> Clusters]
    BY <1>1
  <1>3. \A j, k \in 0 .. w - 1 : r[j] = r[k] => j = k
    BY <1>1
  <1>4. ASSUME NEW k \in 0 .. w - 1
        PROVE  /\ F[r[k]] # Free
               /\ k + 1 < w => F[r[k]] = r[k + 1]
               /\ k + 1 = w => F[r[k]] \notin Clusters
    <2>1. k \in 0 .. t
      BY <1>1
    <2>. QED BY <2>1
  <1>5. w = 0 => c \notin Clusters
    OBVIOUS
  <1>. QED BY <1>2, <1>3, <1>4, <1>5 DEF IsPath

\* r goes along p as far as q and then along e, which starts at d.
Joins(F, F2, p, m, q, e, n, d, r) ==
    /\ \A k \in 0 .. m - 1 : k < q => F2[p[k]] = F[p[k]]
    /\ F2[p[q]] = d
    /\ On(p, m) \cap On(e, n) = {}
    /\ r = [k \in 0 .. q + n |-> IF k <= q THEN p[k] ELSE e[k - q - 1]]

\* How expand_file makes a chain longer: the new path is again one.
LEMMA PathAppend ==
    ASSUME NEW F, NEW F2, NEW p, NEW m, NEW c, NEW e, NEW n, NEW d, NEW q \in 0 .. m - 1, NEW r,
           IsPath(F, p, m, c), IsPath(F2, e, n, d), n > 0, Joins(F, F2, p, m, q, e, n, d, r)
    PROVE  IsPath(F2, r, q + 1 + n, c)
  <1>. USE DEF Joins
  <1>1. m \in Nat /\ n \in Nat /\ q \in Nat /\ q < m
    BY DEF IsPath
  <1>2. \A k \in 0 .. q + n : k <= q => k \in 0 .. m - 1 /\ r[k] = p[k] /\ p[k] \in Clusters /\ p[k] \in On(p, m)
    BY <1>1 DEF IsPath, On
  <1>3. \A k \in 0 .. q + n : k > q => /\ k - q - 1 \in 0 .. n - 1
                                       /\ r[k] = e[k - q - 1]
                                       /\ e[k - q - 1] \in Clusters /\ e[k - q - 1] \in On(e, n)
    BY <1>1 DEF IsPath, On
  <1>4. (q + 1 + n) - 1 = q + n /\ q + 1 + n \in Nat /\ q + 1 + n # 0 /\ 0 \in 0 .. q + n
    BY <1>1
  <1>5. r \in [0 .. q + n -> Clusters]
    <2>1. ASSUME NEW k \in 0 .. q + n PROVE r[k] \in Clusters
      <3>1. CASE k <= q
        BY <3>1, <1>2
      <3>2. CASE k > q
        BY <3>2, <1>3
      <3>. QED BY <3>1, <3>2, <1>1
    <2>. QED BY <2>1
  <1>6. ASSUME NEW j \in 0 .. q + n, NEW k \in 0 .. q + n, r[j] = r[k] PROVE j = k
    <2>1. CASE j <= q /\ k <= q
      BY <2>1, <1>2, <1>6 DEF IsPath
    <2>2. CASE j > q /\ k > q
      <3>. DEFINE x == j - q - 1
                  y == k - q - 1
      <3>1. x \in 0 .. n - 1 /\ r[j] = e[x] /\ y \in 0 .. n - 1 /\ r[k] = e[y]
        BY <2>2, <1>3
      <3>2. x = y => j = k
        BY <1>1
      <3>3. \A v, w \in 0 .. n - 1 : e[v] = e[w] => v = w
        BY DEF IsPath
      <3>. HIDE DEF x, y
      <3>4. e[x] = e[y]
        BY <3>1, <1>6
      <3>. QED BY <3>1, <3>2, <3>3, <3>4
    <2>3. CASE j <= q /\ k > q
      BY <2>3, <1>2, <1>3, <1>6
    <2>4. CASE j > q /\ k <= q
      BY <2>4, <1>2, <1>3, <1>6
    <2>. QED BY <1>1, <2>1, <2>2, <2>3, <2>4
  <1>7. r[0] = c
    BY <1>1, <1>2, <1>4 DEF IsPath
  <1>8. d = e[0] /\ d \in Clusters
    <2>1. 0 \in 0 .. n - 1
      BY <1>1
    <2>. QED BY <1>1, <2>1 DEF IsPath
  <1>9. ASSUME NEW k \in 0 .. q + n
        PROVE  /\ F2[r[k]] # Free
               /\ k + 1 < q + 1 + n => F2[r[k]] = r[k + 1]
               /\ k + 1 = q + 1 + n => F2[r[k]] \notin Clusters
    <2>1. CASE k < q
      <3>1. k \in 0 .. m - 1 /\ k + 1 \in 0 .. q + n /\ k + 1 <= q /\ k + 1 < m /\ k + 1 # q + 1 + n
        BY <2>1, <1>1
      <3>2. r[k] = p[k] /\ r[k + 1] = p[k + 1] /\ F2[p[k]] = F[p[k]] /\ F[p[k]] = p[k + 1] /\ F[p[k]] # Free
        BY <3>1, <2>1, <1>2 DEF IsPath
      <3>. QED BY <3>1, <3>2
    <2>2. CASE k = q
      <3>1. k + 1 \in 0 .. q + n /\ k + 1 > q /\ (k + 1) - q - 1 = 0 /\ k + 1 # q + 1 + n
        BY <2>2, <1>1
      <3>2. r[k] = p[q] /\ r[k + 1] = e[0]
        BY <3>1, <2>2, <1>2, <1>3, <1>1
      <3>. QED BY <3>1, <3>2, <1>8, MarksOutside
    <2>3. CASE k > q
      <3>. DEFINE j == k - q - 1
      <3>1. j \in 0 .. n - 1 /\ r[k] = e[j]
        BY <2>3, <1>3
      <3>2. ASSUME k + 1 < q + 1 + n PROVE j + 1 < n /\ k + 1 \in 0 .. q + n /\ k + 1 > q /\ (k + 1) - q - 1 = j + 1
        <4>1. k \in Int /\ q \in Int /\ n \in Int /\ k >= 0
          BY <1>1
        <4>. QED BY <4>1, <3>2, <2>3
      <3>3. ASSUME k + 1 = q + 1 + n PROVE j + 1 = n
        BY <3>3, <1>1
      <3>4. ASSUME k + 1 < q + 1 + n PROVE r[k + 1] = e[j + 1]
        <4>1. r[k + 1] = e[(k + 1) - q - 1]
          BY <3>2, <3>4, <1>3
        <4>. QED BY <3>2, <3>4, <4>1
      <3>. HIDE DEF j
      <3>. QED BY <3>1, <3>2, <3>3, <3>4 DEF IsPath
    <2>. QED BY <1>1, <2>1, <2>2, <2>3
  <1>. DEFINE w == q + 1 + n
  <1>10. w \in Nat /\ w # 0 /\ w - 1 = q + n
    BY <1>4
  <1>11. \A k \in 0 .. q + n : /\ F2[r[k]] # Free
                               /\ k + 1 < w => F2[r[k]] = r[k + 1]
                               /\ k + 1 = w => F2[r[k]] \notin Clusters
    BY <1>9
  <1>. HIDE DEF w
  <1>. DEFINE t == q + n
  <1>12. IsPath(F2, r, w, c)
    <2>1. \A j, k \in 0 .. t : r[j] = r[k] => j = k
      BY <1>6
    <2>2. r \in [0 .. t -> Clusters] /\ w - 1 = t
      BY <1>5, <1>10
    <2>3. \A k \in 0 .. t : /\ F2[r[k]] # Free
                            /\ k + 1 < w => F2[r[k]] = r[k + 1]
                            /\ k + 1 = w => F2[r[k]] \notin Clusters
      BY <1>11
    <2>. HIDE DEF t
    <2>. HIDE DEF w
    <2>4. w \in Nat /\ w # 0 /\ r[0] = c /\ t \in Int
      BY <1>7, <1>10, <2>2
    <2>5. 0 .. w - 1 = 0 .. t
      BY <2>2
    <2>6. /\ r \in [0 .. w - 1 -> Clusters]
          /\ \A j, k \in 0 .. w - 1 : r[j] = r[k] => j = k
          /\ \A k \in 0 .. w - 1 : /\ F2[r[k]] # Free
                                   /\ k + 1 < w => F2[r[k]] = r[k + 1]
                                   /\ k + 1 = w => F2[r[k]] \notin Clusters
      BY <2>1, <2>2, <2>3, <2>5, Zenon
    <2>. QED BY <2>4, <2>6 DEF IsPath
  <1>. QED BY <1>12 DEF w

LEMMA UpTo ==
    ASSUME NEW n \in Nat
    PROVE  IsFiniteSet(0 .. n - 1) /\ Cardinality(0 .. n - 1) = n
  <1>1. n - 1 \in Int /\ 0 \in Int /\ (0 > n - 1 <=> n = 0) /\ (n - 1) - 0 + 1 = n
    OBVIOUS
  <1>. QED BY <1>1, FS_Interval

\* e lists the n lowest members of T.
Lists(e, n, T) ==
    /\ e \in [0 .. n - 1 -> T]
    /\ \A j, k \in 0 .. n - 1 : j < k => e[j] < e[k]
    /\ \A x \in T : x \in On(e, n) \/ \A k \in 0 .. n - 1 : e[k] < x

\* The clusters cluster_alloc_free finds, from the lowest on.
LEMMA Enumerate ==
    ASSUME NEW T \in SUBSET Nat, IsFiniteSet(T), NEW n \in Nat, n <= Cardinality(T)
    PROVE  \E e : Lists(e, n, T)
  <1>. DEFINE N == {i \in Nat : i <= Cardinality(T) => \E e : Lists(e, i, T)}
  <1>0. Cardinality(T) \in Nat
    BY FS_CardinalityType
  <1>1. 0 \in N
    <2>1. Lists([k \in 0 .. 0 - 1 |-> 0], 0, T)
      <3>1. 0 .. 0 - 1 = {}
        OBVIOUS
      <3>. QED BY <3>1 DEF Lists, On
    <2>. QED BY <2>1
  <1>2. ASSUME NEW i \in Nat, i \in N PROVE i + 1 \in N
    <2>. SUFFICES ASSUME i + 1 <= Cardinality(T) PROVE \E e : Lists(e, i + 1, T)
      OBVIOUS
    <2>1. i <= Cardinality(T)
      BY <1>0
    <2>2. PICK e : Lists(e, i, T)
      BY <1>2, <2>1
    <2>. DEFINE R == {x \in T : x \notin On(e, i)}
    <2>3. R # {}
      <3>. SUFFICES ASSUME R = {} PROVE FALSE
        OBVIOUS
      <3>1. e \in Surjection(0 .. i - 1, T)
        BY <2>2 DEF Lists, On, Surjection
      <3>2. Cardinality(T) <= i
        BY <3>1, UpTo, FS_Surjection
      <3>. QED BY <3>2, <1>0
    <2>4. PICK x \in R : \A y \in R : x <= y
      BY <2>3, LeastOf
    <2>. DEFINE d == [k \in 0 .. i |-> IF k = i THEN x ELSE e[k]]
    <2>5. x \in T /\ x \in Nat /\ x \notin On(e, i) /\ \A k \in 0 .. i - 1 : e[k] < x /\ e[k] \in T /\ e[k] \in Nat
      BY <2>2, <2>4 DEF Lists
    <2>6. d[i] = x /\ \A k \in 0 .. i - 1 : k \in 0 .. i /\ k # i /\ d[k] = e[k]
      OBVIOUS
    <2>7. \A k \in 0 .. i : k = i \/ k \in 0 .. i - 1
      OBVIOUS
    <2>8. d \in [0 .. i -> T] /\ i \in 0 .. i
      BY <2>5, <2>6, <2>7
    <2>. HIDE DEF d
    <2>9. ASSUME NEW j \in 0 .. i, NEW k \in 0 .. i, j < k PROVE d[j] < d[k]
      <3>1. j \in 0 .. i - 1
        BY <2>9
      <3>2. CASE k = i
        BY <3>1, <3>2, <2>5, <2>6
      <3>3. CASE k \in 0 .. i - 1
        <4>1. e[j] < e[k]
          BY <2>2, <3>1, <3>3, <2>9 DEF Lists
        <4>. QED BY <4>1, <3>1, <3>3, <2>6
      <3>. QED BY <2>7, <3>2, <3>3
    <2>10. ASSUME NEW y \in T, y \notin On(d, i + 1), NEW k \in 0 .. i PROVE d[k] < y
      <3>0. (i + 1) - 1 = i
        OBVIOUS
      <3>1. \A j \in 0 .. i : y # d[j]
        BY <2>10, <3>0 DEF On
      <3>2. y \notin On(e, i) /\ y # x
        BY <3>1, <2>6, <2>8 DEF On
      <3>3. x <= y
        BY <3>2, <2>4
      <3>4. y \in Nat /\ x < y
        BY <3>2, <3>3, <2>5
      <3>5. CASE k = i
        BY <3>5, <3>4, <2>6
      <3>6. CASE k \in 0 .. i - 1
        BY <3>6, <3>4, <2>5, <2>6
      <3>. QED BY <2>7, <3>5, <3>6
    <2>11. (i + 1) - 1 = i
      OBVIOUS
    <2>12. Lists(d, i + 1, T)
      BY <2>8, <2>9, <2>10, <2>11 DEF Lists
    <2>. QED BY <2>12
  <1>. HIDE DEF N
  <1>3. Nat \subseteq N
    BY <1>1, <1>2, Induction
  <1>. QED BY <1>3 DEF N

LEMMA ListInjective ==
    ASSUME NEW T \in SUBSET Nat, NEW n \in Nat, NEW e, Lists(e, n, T)
    PROVE  \A j, k \in 0 .. n - 1 : e[j] = e[k] => j = k
  <1>. SUFFICES ASSUME NEW j \in 0 .. n - 1, NEW k \in 0 .. n - 1, e[j] = e[k], j # k PROVE FALSE
    OBVIOUS
  <1>1. e[j] \in Nat /\ e[k] \in Nat
    BY DEF Lists
  <1>2. j < k \/ k < j
    OBVIOUS
  <1>. QED BY <1>1, <1>2 DEF Lists

FreeClusters(F) == {c \in Clusters : F[c] = Free}

\* Lowest(n) are n free clusters, if there are that many.
LEMMA LowestFree ==
    ASSUME NEW n \in Nat, n <= Cardinality({c \in Clusters : IsFree(c)})
    PROVE  /\ Lowest(n) \subseteq FreeClusters(fat)
           /\ Cardinality(Lowest(n)) = n
           /\ \A c \in Clusters \ Lowest(n) : IsFree(c) => \A s \in Lowest(n) : s < c
  <1>. DEFINE T == {c \in Clusters : IsFree(c)}
  <1>1. IsFiniteSet(Clusters) /\ Clusters \subseteq Nat
    BY FS_Interval, FatAssumption DEF Clusters
  <1>2. T \in SUBSET Nat /\ IsFiniteSet(T)
    BY <1>1, FS_Subset
  <1>3. PICK e : Lists(e, n, T)
    BY <1>2, Enumerate
  <1>4. On(e, n) \in SUBSET T
    BY <1>3 DEF On, Lists
  <1>5. Cardinality(On(e, n)) = n
    <2>1. \A j, k \in 0 .. n - 1 : e[j] = e[k] => j = k
      BY <1>2, <1>3, ListInjective
    <2>2. e \in [0 .. n - 1 -> On(e, n)]
      BY <1>3 DEF On, Lists
    <2>3. e \in Surjection(0 .. n - 1, On(e, n)) /\ e \in Injection(0 .. n - 1, On(e, n))
      BY <2>1, <2>2 DEF On, Surjection, Injection, IsInjective
    <2>4. IsFiniteSet(On(e, n))
      BY <1>2, <1>4, FS_Subset
    <2>. QED BY <2>3, <2>4, UpTo, FS_Injection
  <1>6. \A c \in Clusters \ On(e, n) : IsFree(c) => \A s \in On(e, n) : s < c
    BY <1>3 DEF Lists, On
  <1>. DEFINE Low(S) == Cardinality(S) = n /\ \A c \in Clusters \ S : IsFree(c) => \A s \in S : s < c
  <1>7. \E S \in SUBSET T : Low(S)
    BY <1>4, <1>5, <1>6
  <1>8. Lowest(n) \in SUBSET T /\ Low(Lowest(n))
    BY <1>7 DEF Lowest
  <1>9. T = FreeClusters(fat)
    BY DEF IsFree, FreeClusters
  <1>. QED BY <1>8, <1>9

LEMMA FirstIsFirst ==
    ASSUME NEW S \in SUBSET Nat, S # {}
    PROVE  FirstOf(S) \in S /\ \A d \in S : FirstOf(S) <= d
  BY LeastOf DEF FirstOf

\* F links the clusters of S from the lowest on.
LinksOf(F, S) ==
    \A c \in S : LET later == {d \in S : c < d}
                 IN  F[c] = IF later = {} THEN Invalid ELSE FirstOf(later)

\* The clusters that Link puts one behind the other are a path.
LEMMA LinkedPath ==
    ASSUME NEW F, NEW S \in SUBSET Clusters, NEW n \in Nat, n > 0, Cardinality(S) = n, LinksOf(F, S)
    PROVE  \E e : /\ IsPath(F, e, n, FirstOf(S))
                  /\ On(e, n) = S
                  /\ \A c \in S : F[c] \in S \cup {Invalid}
                  /\ FirstOf(S) \in S
  <1>1. IsFiniteSet(S) /\ S \in SUBSET Nat
    <2>1. IsFiniteSet(Clusters) /\ Clusters \subseteq Nat
      BY FS_Interval, FatAssumption DEF Clusters
    <2>. QED BY <2>1, FS_Subset
  <1>2. PICK e : Lists(e, n, S)
    <2>1. n <= Cardinality(S)
      OBVIOUS
    <2>. QED BY <1>1, <2>1, Enumerate
  <1>3. \A j, k \in 0 .. n - 1 : e[j] = e[k] => j = k
    BY <1>1, <1>2, ListInjective
  <1>4. On(e, n) = S
    <2>1. e \in Injection(0 .. n - 1, S)
      BY <1>2, <1>3 DEF Lists, Injection, IsInjective
    <2>2. Cardinality(0 .. n - 1) = Cardinality(S)
      BY UpTo
    <2>3. e \in Surjection(0 .. n - 1, S)
      BY <2>1, <2>2, <1>1, FS_Injection
    <2>. QED BY <2>3 DEF Surjection, On
  <1>5. \A k \in 0 .. n - 1 : e[k] \in S /\ e[k] \in Nat /\ e[k] \in Clusters
    BY <1>1, <1>2 DEF Lists
  <1>6. S # {}
    <2>1. 0 \in 0 .. n - 1
      OBVIOUS
    <2>. QED BY <2>1, <1>5
  <1>7. FirstOf(S) \in S /\ \A d \in S : FirstOf(S) <= d
    BY <1>1, <1>6, FirstIsFirst
  <1>8. e[0] = FirstOf(S)
    <2>1. PICK k \in 0 .. n - 1 : FirstOf(S) = e[k]
      BY <1>4, <1>7 DEF On
    <2>2. 0 \in 0 .. n - 1 /\ FirstOf(S) <= e[0]
      BY <1>5, <1>7
    <2>3. k = 0 \/ e[0] < e[k]
      BY <2>2, <1>2 DEF Lists
    <2>. QED BY <2>1, <2>2, <2>3, <1>5
  <1>9. ASSUME NEW k \in 0 .. n - 1, k + 1 < n PROVE F[e[k]] = e[k + 1]
    <2>. DEFINE later == {d \in S : e[k] < d}
    <2>1. k + 1 \in 0 .. n - 1 /\ k < k + 1
      BY <1>9
    <2>2. e[k + 1] \in later
      BY <2>1, <1>2, <1>5 DEF Lists
    <2>3. later \in SUBSET Nat
      BY <1>1
    <2>4. FirstOf(later) \in later /\ FirstOf(later) <= e[k + 1]
      BY <2>2, <2>3, FirstIsFirst
    <2>5. F[e[k]] = FirstOf(later)
      BY <2>2, <1>5 DEF LinksOf
    <2>6. PICK j \in 0 .. n - 1 : FirstOf(later) = e[j]
      BY <2>4, <1>4 DEF On
    <2>7. e[k] < e[j] /\ e[j] <= e[k + 1]
      BY <2>4, <2>6
    <2>8. j > k
      <3>1. j < k => e[j] < e[k]
        BY <1>2 DEF Lists
      <3>2. j = k => e[j] = e[k]
        OBVIOUS
      <3>. QED BY <3>1, <3>2, <2>7, <1>5
    <2>9. j <= k + 1
      <3>1. k + 1 < j => e[k + 1] < e[j]
        BY <1>2, <2>1 DEF Lists
      <3>. QED BY <3>1, <2>1, <2>7, <1>5
    <2>10. j = k + 1
      BY <2>8, <2>9
    <2>. QED BY <2>5, <2>6, <2>10
  <1>10. ASSUME NEW k \in 0 .. n - 1, k + 1 = n PROVE F[e[k]] = Invalid
    <2>. DEFINE later == {d \in S : e[k] < d}
    <2>1. later = {}
      <3>. SUFFICES ASSUME NEW d \in S, e[k] < d PROVE FALSE
        OBVIOUS
      <3>1. PICK j \in 0 .. n - 1 : d = e[j]
        BY <1>4 DEF On
      <3>2. j = k \/ j < k
        BY <1>10
      <3>3. j < k => e[j] < e[k]
        BY <1>2 DEF Lists
      <3>. QED BY <3>1, <3>2, <3>3, <1>5
    <2>. QED BY <2>1, <1>5 DEF LinksOf
  <1>. DEFINE t == n - 1
  <1>11. \A k \in 0 .. t : /\ F[e[k]] # Free
                           /\ k + 1 < n => F[e[k]] = e[k + 1]
                           /\ k + 1 = n => F[e[k]] \notin Clusters
    <2>1. ASSUME NEW k \in 0 .. n - 1
          PROVE  /\ F[e[k]] # Free
                 /\ k + 1 < n => F[e[k]] = e[k + 1]
                 /\ k + 1 = n => F[e[k]] \notin Clusters
      <3>1. CASE k + 1 < n
        <4>1. k + 1 \in 0 .. n - 1 /\ k + 1 # n
          BY <3>1
        <4>. QED BY <4>1, <3>1, <1>9, <1>5, MarksOutside
      <3>2. CASE k + 1 = n
        <4>1. Invalid # Free
          BY FatAssumption DEF Invalid, Free
        <4>. QED BY <3>2, <1>10, MarksOutside, <4>1
      <3>. QED BY <3>1, <3>2
    <2>. QED BY <2>1
  <1>12. IsPath(F, e, n, FirstOf(S))
    <2>1. e \in [0 .. t -> Clusters] /\ t \in Int /\ n - 1 = t /\ n # 0
      <3>1. e \in [0 .. n - 1 -> Clusters]
        BY <1>2, <1>5 DEF Lists
      <3>. QED BY <3>1
    <2>2. \A j, k \in 0 .. t : e[j] = e[k] => j = k
      BY <1>3
    <2>. HIDE DEF t
    <2>. QED BY <2>1, <2>2, <1>8, <1>11, MakePath
  <1>13. ASSUME NEW c \in S PROVE F[c] \in S \cup {Invalid}
    <2>. DEFINE later == {d \in S : c < d}
    <2>1. later \in SUBSET Nat
      BY <1>1
    <2>2. F[c] = IF later = {} THEN Invalid ELSE FirstOf(later)
      BY DEF LinksOf
    <2>3. later # {} => FirstOf(later) \in later
      BY <2>1, FirstIsFirst
    <2>. QED BY <2>2, <2>3
  <1>. QED BY <1>4, <1>7, <1>12, <1>13

\* Entries of the directory, open files and the call in progress.
Item == [name : Names \cup {NameEnd, NameFree}, sblk : Clusters \cup {Free, Invalid}, size : Nat]
File == [ref : {0, 1}, mode : SUBSET Flags, size : Nat, pos : Nat,
         sblk : Clusters \cup {Free, Invalid}, cblk : Clusters \cup {Free, Invalid, HostEnd},
         p_index : Entries]
Call == [step : {"idle", "copy", "expand", "move"}, f : Files \cup {NoFile}, writing : BOOLEAN,
         left : Nat, inc : Int, then : {"idle", "copy", "move"}]

Typed(F, dr, fl, o) ==
    /\ F \in [Clusters -> Clusters \cup {Free, Invalid, HostEnd}]
    /\ dr \in [Entries -> Item]
    /\ fl \in [Files -> File]
    /\ o \in Call

LiveIn(dr) == {i \in Entries : dr[i].name \in Names}

\* An open file that has an entry: the others are those whose open failed.
Holds(fl, f) == fl[f].ref > 0 /\ fl[f].sblk # Free

\* Open files and the directory agree: a file is opened once at a time (Careless = {}), its
\* pos is within it, cblk is the cluster of pos.
FilesRight(F, dr, fl) ==
    /\ \A i \in LiveIn(dr) : dr[i].sblk # Free
    /\ \A f \in Files : fl[f].ref > 0 /\ fl[f].sblk = Free =>
                            fl[f].mode = {} /\ fl[f].size = 0 /\ fl[f].pos = 0
    /\ \A f \in Files : Holds(fl, f) =>
        /\ fl[f].p_index \in LiveIn(dr)
        /\ fl[f].pos <= fl[f].size
        /\ fl[f].cblk = NthIn(F, fl[f].sblk, fl[f].pos \div Cb)
        /\ fl[f].mode = {} => /\ fl[f].sblk = dr[fl[f].p_index].sblk
                              /\ fl[f].size = dr[fl[f].p_index].size
    /\ \A f, g \in Files :
        Holds(fl, f) /\ Holds(fl, g) /\ fl[f].p_index = fl[g].p_index => f = g

WriterIn(fl, i) == {f \in Files : fl[f].ref > 0 /\ fl[f].mode # {} /\ fl[f].p_index = i}
ViewIn(dr, fl, i) ==
    IF WriterIn(fl, i) = {} THEN [sblk |-> dr[i].sblk, size |-> dr[i].size]
    ELSE LET f == CHOOSE f \in WriterIn(fl, i) : TRUE IN [sblk |-> fl[f].sblk, size |-> fl[f].size]

\* The file that starts at cluster c has its path, and its units are on it.
OnPath(F, D, i, c, size, p, m) ==
    /\ IsPath(F, p, m, c)
    /\ size <= m * Cb
    /\ \A k \in 0 .. m - 1, o \in 0 .. Cb - 1 : k * Cb + o < size => D[p[k]][o] = <<i, k * Cb + o>>

Sound(F, D, i, c, size) == \E p, m : OnPath(F, D, i, c, size, p, m)

\* The same but for the units if it is one of the overwritten files W, which may be longer than
\* their path and hold anything.
Lies(F, D, W, i, c, size) ==
    IF i \in W THEN c \in Clusters /\ Sound(F, D, i, c, 0) ELSE Sound(F, D, i, c, size)

\* Every file of L lies on a path of its own, v tells where it starts and how long it is.
Laid(F, D, W, L, v) ==
    /\ \A i \in L : Lies(F, D, W, i, v[i].sblk, v[i].size)
    /\ \A i \in L : \A j \in L \ {i} : ChainIn(F, v[i].sblk) \cap ChainIn(F, v[j].sblk) = {}

Views(dr, fl) == [i \in LiveIn(dr) |-> ViewIn(dr, fl, i)]

PartOf(t, left) == LET room == Cb - (t.pos % Cb) IN IF left > room THEN room ELSE left

NoHostEnd(F, c) == \A x \in ChainIn(F, c) : F[x] # HostEnd

\* The round has filled the file's last cluster.
AtEdge(t, left) ==
    /\ t.size = t.pos + PartOf(t, left)
    /\ (t.pos % Cb) + PartOf(t, left) = Cb
    /\ t.cblk \in Clusters

\* A write that appends: it is at the end of its file, and the chain it makes longer ends with
\* the code's own mark, the only one at which a round of the write adds a cluster.
Appends(F, t, o) ==
    /\ o.step = "copy" =>
        /\ t.pos = t.size /\ t.cblk \in Clusters
        /\ NoHostEnd(F, t.sblk) \/ (t.pos % Cb) + o.left < Cb
    /\ o.step = "expand" => \/ o.then = "copy" /\ t.pos = t.size /\ o.inc = o.left
                            \/ o.then = "move" /\ AtEdge(t, o.left) /\ o.inc = Cb
    /\ o.step = "move" => /\ AtEdge(t, o.left)
                          /\ NextIn(F, t.cblk) \in Clusters
                          /\ NoHostEnd(F, t.sblk)

\* A write into an overwritten file: its rounds have room in the size of the file.
Overwrites(t, o) ==
    /\ o.step = "expand" => o.inc > 0 /\ o.then \in {"copy", "move"}
    /\ o.step = "move" \/ (o.step = "expand" /\ o.then = "move") =>
            t.pos + PartOf(t, o.left) <= t.size

\* The call in progress.
CallRight(F, W, fl, o) ==
    o.step # "idle" =>
        LET t == fl[o.f] IN
        /\ o.f \in Files /\ Holds(fl, o.f) /\ o.left > 0
        /\ o.writing => t.mode # {}
        /\ o.step \in {"expand", "move"} => o.writing
        /\ o.step = "copy" /\ ~o.writing => t.pos + o.left <= t.size
        /\ o.writing => IF t.p_index \in W THEN Overwrites(t, o) ELSE Appends(F, t, o)

\* The inductive invariant.  A file that was overwritten keeps only its path: its size may have
\* run past its chain, which no later call repairs.  Paths are what makes the rest inductive:
\* that chains end, are apart and hold the right units is not enough to say what a chain looks
\* like once it is made longer.
FatInv ==
    /\ Typed(fat, dir, file, op)
    /\ FilesRight(fat, dir, file)
    /\ Laid(fat, data, overwritten, LiveIn(dir), Views(dir, file))
    /\ CallRight(fat, overwritten, file, op)

LEMMA DivMod ==
    ASSUME NEW n \in Nat
    PROVE  /\ n \div Cb \in Nat /\ n % Cb \in 0 .. Cb - 1
           /\ n = (n \div Cb) * Cb + (n % Cb)
           /\ n < (n \div Cb) * Cb + Cb
  <1>1. Cb \in Nat \ {0}
    BY FatAssumption
  <1>2. ASSUME NEW a \in Nat, NEW b \in Nat \ {0}
        PROVE  a = (a \div b) * b + (a % b) /\ a \div b \in Nat /\ a % b \in 0 .. b - 1 /\ a < (a \div b) * b + b
    OBVIOUS
  <1>. QED BY <1>1, <1>2

LEMMA Products ==
    ASSUME NEW j \in Nat, NEW k \in Nat
    PROVE  /\ j * Cb \in Nat
           /\ j <= k => j * Cb <= k * Cb
           /\ j < k => j * Cb + Cb <= k * Cb
           /\ (k + 1) * Cb = k * Cb + Cb
  <1>1. Cb \in Nat
    BY FatAssumption
  <1>2. ASSUME NEW a \in Nat, NEW b \in Nat, NEW c \in Nat
        PROVE  a * c \in Nat /\ (a <= b => a * c <= b * c) /\ (a < b => a * c + c <= b * c) /\ (b + 1) * c = b * c + c
    <2>1. a * c \in Nat /\ b * c \in Nat
      OBVIOUS
    <2>2. b = a + (b - a)
      OBVIOUS
    <2>3. b * c = a * c + (b - a) * c
      OBVIOUS
    <2>4. a <= b => (b - a) * c >= 0
      OBVIOUS
    <2>5. a < b => (b - a - 1) * c >= 0 /\ (b - a) * c = (b - a - 1) * c + c
      OBVIOUS
    <2>6. (b + 1) * c = b * c + c
      OBVIOUS
    <2>. QED BY <2>1, <2>3, <2>4, <2>5, <2>6
  <1>. QED BY <1>1, <1>2

LEMMA DivUnique ==
    ASSUME NEW n \in Nat, NEW q \in Nat, NEW r \in 0 .. Cb - 1, n = q * Cb + r
    PROVE  n \div Cb = q /\ n % Cb = r
  <1>0. Cb \in Nat /\ Cb > 0
    BY FatAssumption
  <1>1. /\ n \div Cb \in Nat /\ n % Cb \in 0 .. Cb - 1
        /\ n = (n \div Cb) * Cb + (n % Cb)
    BY DivMod
  <1>. DEFINE d == n \div Cb
              e == n % Cb
  <1>. HIDE DEF d, e
  <1>2. d \in Nat /\ e \in 0 .. Cb - 1 /\ d * Cb \in Int /\ q * Cb \in Int /\ d * Cb + e = q * Cb + r
    BY <1>1, Products DEF d, e
  <1>3. ~ (d < q)
    <2>1. d < q => d * Cb + Cb <= q * Cb
      BY <1>2, Products
    <2>. QED BY <2>1, <1>0, <1>2
  <1>4. ~ (q < d)
    <2>1. q < d => q * Cb + Cb <= d * Cb
      BY <1>2, Products
    <2>. QED BY <2>1, <1>0, <1>2
  <1>5. d = q
    BY <1>2, <1>3, <1>4
  <1>6. e = r
    BY <1>5, <1>2
  <1>. QED BY <1>5, <1>6 DEF d, e

\* Nothing is written to cluster c.
SameUnits(D, D2, c) == \A o \in 0 .. Cb - 1 : D2[c][o] = D[c][o]

LEMMA OnPathFrame ==
    ASSUME NEW F, NEW F2, NEW D, NEW D2, NEW i, NEW c, NEW size, NEW p, NEW m,
           OnPath(F, D, i, c, size, p, m),
           \A x \in ChainIn(F, c) : F2[x] = F[x] /\ SameUnits(D, D2, x)
    PROVE  /\ OnPath(F2, D2, i, c, size, p, m)
           /\ ChainIn(F2, c) = ChainIn(F, c)
           /\ \A k \in Nat : NthIn(F2, c, k) = NthIn(F, c, k)
           /\ NoHostEnd(F, c) => NoHostEnd(F2, c)
  <1>1. IsPath(F, p, m, c)
    BY DEF OnPath
  <1>2. \A x \in On(p, m) : F2[x] = F[x] /\ SameUnits(D, D2, x)
    BY <1>1, PathChain
  <1>a. IsPath(F2, p, m, c)
    BY <1>1, <1>2, PathFrame
  <1>3. /\ IsPath(F2, p, m, c)
        /\ ChainIn(F2, c) = ChainIn(F, c)
        /\ \A k \in Nat : NthIn(F2, c, k) = NthIn(F, c, k)
    BY <1>1, <1>2, <1>a, PathFrame
  <1>4. \A k \in 0 .. m - 1 : \A o \in 0 .. Cb - 1 : D2[p[k]][o] = D[p[k]][o]
    BY <1>2 DEF On, SameUnits
  <1>5. OnPath(F2, D2, i, c, size, p, m)
    BY <1>3, <1>4 DEF OnPath
  <1>. QED BY <1>3, <1>5 DEF NoHostEnd

\* The clusters of a sound file are taken.
LEMMA SoundChain ==
    ASSUME NEW F, NEW D, NEW i, NEW c, NEW size, Sound(F, D, i, c, size)
    PROVE  /\ ChainIn(F, c) \subseteq Clusters
           /\ \A x \in ChainIn(F, c) : F[x] # Free
  BY PathChain DEF Sound, OnPath

\* A file keeps its path when its units no longer count.
LEMMA PathOnly ==
    ASSUME NEW F, NEW D, NEW D2, NEW i, NEW c, NEW size, Sound(F, D, i, c, size)
    PROVE  Sound(F, D2, i, c, 0)
  <1>1. PICK p, m : OnPath(F, D, i, c, size, p, m)
    BY DEF Sound
  <1>2. IsPath(F, p, m, c) /\ m \in Nat
    BY <1>1 DEF OnPath, IsPath
  <1>3. 0 <= m * Cb
    BY <1>2, Products
  <1>4. ASSUME NEW k \in 0 .. m - 1, NEW o \in 0 .. Cb - 1 PROVE ~ (k * Cb + o < 0)
    <2>1. k \in Nat /\ o \in Nat
      BY <1>2, FatAssumption
    <2>2. k * Cb \in Nat
      BY <2>1, Products
    <2>. QED BY <2>1, <2>2
  <1>5. OnPath(F, D2, i, c, 0, p, m)
    BY <1>2, <1>3, <1>4 DEF OnPath
  <1>. QED BY <1>5 DEF Sound

LEMMA LiesOnPath ==
    ASSUME NEW F, NEW D, NEW W, NEW i, NEW c, NEW size, Lies(F, D, W, i, c, size)
    PROVE  /\ \E z : Sound(F, D, i, c, z)
           /\ \E p, m : IsPath(F, p, m, c)
           /\ ChainIn(F, c) \subseteq Clusters
           /\ \A x \in ChainIn(F, c) : F[x] # Free
  <1>1. PICK z : Sound(F, D, i, c, z)
    BY DEF Lies
  <1>2. ChainIn(F, c) \subseteq Clusters /\ \A x \in ChainIn(F, c) : F[x] # Free
    BY <1>1, SoundChain
  <1>3. \E p, m : IsPath(F, p, m, c)
    BY <1>1 DEF Sound, OnPath
  <1>. QED BY <1>1, <1>2, <1>3

\* A cluster that is reached along a chain is on it.
LEMMA OnItsChain ==
    ASSUME NEW F, NEW D, NEW W, NEW i, NEW c, NEW size, Lies(F, D, W, i, c, size),
           NEW q \in Nat, NthIn(F, c, q) \in Clusters
    PROVE  NthIn(F, c, q) \in ChainIn(F, c) /\ F[NthIn(F, c, q)] # Free
  <1>1. PICK p, m : IsPath(F, p, m, c)
    BY LiesOnPath
  <1>2. m \in Nat
    BY <1>1 DEF IsPath
  <1>3. q \in 0 .. m - 1
    BY <1>1, <1>2, PathNth
  <1>4. NthIn(F, c, q) \in On(p, m)
    BY <1>1, <1>3, PathNth DEF On
  <1>. QED BY <1>1, <1>4, PathChain

\* Nothing changes in the table but old, the chain of file x, and free clusters.
Spared(F, F2, L, v, x, old) ==
    /\ x \in L => old = ChainIn(F, v[x].sblk)
    /\ x \notin L => old = {}
    /\ \A c \in Clusters : c \notin old /\ F[c] # Free => F2[c] = F[c]

\* At most file x changes, from its chain old to the one that w says.
OnlyOne(F, F2, D, D2, W, W2, L, L2, v, w, x, old) ==
    /\ Spared(F, F2, L, v, x, old)
    /\ \A c \in Clusters : c \notin old /\ F[c] # Free => SameUnits(D, D2, c)
    /\ L2 \subseteq L \cup {x}
    /\ \A i \in L2 : i # x => w[i] = v[i] /\ (i \in W2 <=> i \in W)
    /\ x \in L2 => /\ Lies(F2, D2, W2, x, w[x].sblk, w[x].size)
                   /\ ChainIn(F2, w[x].sblk) \subseteq old \cup FreeClusters(F)

\* One file changes, the others keep theirs.
LEMMA LaidStep ==
    ASSUME NEW F, NEW F2, NEW D, NEW D2, NEW W, NEW W2, NEW L, NEW L2, NEW v, NEW w, NEW x, NEW old,
           Laid(F, D, W, L, v), OnlyOne(F, F2, D, D2, W, W2, L, L2, v, w, x, old)
    PROVE  Laid(F2, D2, W2, L2, w)
  <1>. USE DEF OnlyOne, Spared
  <1>1. ASSUME NEW i \in L2, i # x
        PROVE  /\ i \in L /\ w[i] = v[i]
               /\ Lies(F2, D2, W2, i, w[i].sblk, w[i].size)
               /\ ChainIn(F2, w[i].sblk) = ChainIn(F, v[i].sblk)
               /\ ChainIn(F, v[i].sblk) \cap old = {}
               /\ ChainIn(F, v[i].sblk) \cap FreeClusters(F) = {}
    <2>. DEFINE z == IF i \in W THEN 0 ELSE v[i].size
    <2>1. i \in L /\ w[i] = v[i] /\ (i \in W2 <=> i \in W)
      BY <1>1
    <2>a. Lies(F, D, W, i, v[i].sblk, v[i].size)
      BY <2>1 DEF Laid
    <2>2. PICK p, m : OnPath(F, D, i, v[i].sblk, z, p, m)
      BY <2>a DEF Lies, Sound
    <2>3. ChainIn(F, v[i].sblk) \cap old = {}
      BY <2>1, <1>1 DEF Laid
    <2>4. ChainIn(F, v[i].sblk) \subseteq Clusters /\ \A c \in ChainIn(F, v[i].sblk) : F[c] # Free
      BY <2>a, LiesOnPath
    <2>5. \A c \in ChainIn(F, v[i].sblk) : F2[c] = F[c] /\ SameUnits(D, D2, c)
      BY <2>3, <2>4
    <2>6. /\ OnPath(F2, D2, i, v[i].sblk, z, p, m)
          /\ ChainIn(F2, v[i].sblk) = ChainIn(F, v[i].sblk)
      BY <2>2, <2>5, OnPathFrame
    <2>7. Lies(F2, D2, W2, i, v[i].sblk, v[i].size)
      BY <2>1, <2>a, <2>6 DEF Lies, Sound
    <2>. QED BY <2>1, <2>3, <2>4, <2>6, <2>7 DEF FreeClusters
  <1>2. \A i \in L2 : Lies(F2, D2, W2, i, w[i].sblk, w[i].size)
    BY <1>1
  <1>3. ASSUME NEW i \in L2, NEW j \in L2 \ {i}
        PROVE  ChainIn(F2, w[i].sblk) \cap ChainIn(F2, w[j].sblk) = {}
    <2>1. CASE i # x /\ j # x
      <3>1. ChainIn(F, v[i].sblk) \cap ChainIn(F, v[j].sblk) = {}
        BY <1>1, <2>1, <1>3 DEF Laid
      <3>. QED BY <3>1, <1>1, <2>1
    <2>2. CASE i = x
      BY <2>2, <1>1
    <2>3. CASE j = x
      BY <2>3, <1>1
    <2>. QED BY <2>1, <2>2, <2>3
  <1>. QED BY <1>2, <1>3 DEF Laid

\* What is known of the chain of x's successors carries over as well.
LEMMA OthersKept ==
    ASSUME NEW F, NEW F2, NEW D, NEW W, NEW L, NEW v, NEW x, NEW old, NEW i \in L,
           Laid(F, D, W, L, v), i # x, Spared(F, F2, L, v, x, old)
    PROVE  \A k \in Nat : NthIn(F2, v[i].sblk, k) = NthIn(F, v[i].sblk, k)
  <1>. USE DEF Spared
  <1>1. Lies(F, D, W, i, v[i].sblk, v[i].size)
    BY DEF Laid
  <1>2. PICK p, m : IsPath(F, p, m, v[i].sblk)
    BY <1>1, LiesOnPath
  <1>3. On(p, m) = ChainIn(F, v[i].sblk) /\ On(p, m) \subseteq Clusters /\ \A c \in On(p, m) : F[c] # Free
    BY <1>2, PathChain
  <1>4. On(p, m) \cap old = {}
    BY <1>3 DEF Laid
  <1>5. \A c \in On(p, m) : F2[c] = F[c]
    BY <1>3, <1>4
  <1>6. IsPath(F2, p, m, v[i].sblk)
    BY <1>2, <1>5, PathFrame
  <1>. QED BY <1>2, <1>5, <1>6, PathFrame

\* What is known of a file that is open, and of one that is not.
LEMMA ViewOf ==
    ASSUME NEW F, NEW dr, NEW fl, FilesRight(F, dr, fl)
    PROVE  /\ \A f \in Files : Holds(fl, f) =>
                ViewIn(dr, fl, fl[f].p_index) = [sblk |-> fl[f].sblk, size |-> fl[f].size]
           /\ \A i \in LiveIn(dr) : (\A f \in Files : Holds(fl, f) => fl[f].p_index # i) =>
                ViewIn(dr, fl, i) = [sblk |-> dr[i].sblk, size |-> dr[i].size]
  <1>1. \A i : \A f \in WriterIn(fl, i) : f \in Files /\ Holds(fl, f) /\ fl[f].p_index = i /\ fl[f].mode # {}
    BY DEF FilesRight, WriterIn, Holds
  <1>2. ASSUME NEW f \in Files, Holds(fl, f)
        PROVE  ViewIn(dr, fl, fl[f].p_index) = [sblk |-> fl[f].sblk, size |-> fl[f].size]
    <2>. DEFINE i == fl[f].p_index
    <2>1. \A g \in WriterIn(fl, i) : g = f
      BY <1>1, <1>2 DEF FilesRight
    <2>2. CASE fl[f].mode = {}
      <3>1. WriterIn(fl, i) = {}
        BY <1>1, <2>1, <2>2
      <3>2. fl[f].sblk = dr[i].sblk /\ fl[f].size = dr[i].size
        BY <1>2, <2>2 DEF FilesRight
      <3>. QED BY <3>1, <3>2 DEF ViewIn
    <2>3. CASE fl[f].mode # {}
      <3>1. f \in WriterIn(fl, i)
        BY <1>2, <2>3 DEF WriterIn, Holds
      <3>2. WriterIn(fl, i) # {} /\ (CHOOSE g \in WriterIn(fl, i) : TRUE) = f
        BY <3>1, <2>1
      <3>. HIDE DEF i
      <3>3. ViewIn(dr, fl, i) = [sblk |-> fl[f].sblk, size |-> fl[f].size]
        BY <3>2 DEF ViewIn
      <3>. QED BY <3>3 DEF i
    <2>. QED BY <2>2, <2>3
  <1>3. ASSUME NEW i \in LiveIn(dr), \A f \in Files : Holds(fl, f) => fl[f].p_index # i
        PROVE  ViewIn(dr, fl, i) = [sblk |-> dr[i].sblk, size |-> dr[i].size]
    <2>1. WriterIn(fl, i) = {}
      BY <1>1, <1>3
    <2>. QED BY <2>1 DEF ViewIn
  <1>. QED BY <1>2, <1>3

LEMMA InvSafe == FatInv => ChainsSound /\ ContentsIntact /\ PosFollowsChain
  <1>. SUFFICES ASSUME FatInv PROVE ChainsSound /\ ContentsIntact /\ PosFollowsChain
    OBVIOUS
  <1>1. Live = LiveIn(dir) /\ \A i : View(i) = ViewIn(dir, file, i)
    BY DEF Live, LiveIn, View, ViewIn, Writer, WriterIn, Open
  <1>. DEFINE v == Views(dir, file)
  <1>2. \A i \in Live : v[i] = View(i)
    BY <1>1 DEF Views
  <1>3. Laid(fat, data, overwritten, Live, v)
    BY <1>1 DEF FatInv
  <1>. HIDE DEF v
  <1>4. ASSUME NEW i \in Live
        PROVE  /\ ~cluster_is_valid(Nth(View(i).sblk, LastCluster - 1))
               /\ \A c \in Chain(View(i).sblk) : fat[c] # Free
               /\ \A j \in Live \ {i} : Chain(View(i).sblk) \cap Chain(View(j).sblk) = {}
    <2>1. Lies(fat, data, overwritten, i, v[i].sblk, v[i].size)
      BY <1>3 DEF Laid
    <2>2. PICK p, m : IsPath(fat, p, m, v[i].sblk)
      BY <2>1, LiesOnPath
    <2>3. m \in Nat /\ m <= LastCluster - 1 /\ LastCluster - 1 \in Nat
      BY <2>2, PathLength, FatAssumption
    <2>4. NthIn(fat, v[i].sblk, LastCluster - 1) \notin Clusters
      BY <2>2, <2>3, PathNth
    <2>5. \A c \in ChainIn(fat, v[i].sblk) : fat[c] # Free
      BY <2>2, PathChain
    <2>6. \A j \in Live \ {i} : ChainIn(fat, v[i].sblk) \cap ChainIn(fat, v[j].sblk) = {}
      BY <1>3 DEF Laid
    <2>. QED BY <2>4, <2>5, <2>6, <1>2, AsInTable DEF cluster_is_valid
  <1>5. ChainsSound
    BY <1>4 DEF ChainsSound
  <1>6. ASSUME NEW i \in Live \ overwritten, NEW o \in 0 .. View(i).size - 1
        PROVE  LET c == Nth(View(i).sblk, o \div Cb) IN cluster_is_valid(c) /\ data[c][o % Cb] = <<i, o>>
    <2>0. Lies(fat, data, overwritten, i, View(i).sblk, View(i).size)
      BY <1>2, <1>3 DEF Laid
    <2>1. PICK p, m : OnPath(fat, data, i, View(i).sblk, View(i).size, p, m)
      BY <2>0 DEF Lies, Sound
    <2>. DEFINE k == o \div Cb
                r == o % Cb
    <2>2. View(i).size \in Nat
      <3>1. ASSUME NEW f \in Files PROVE file[f].size \in Nat
        BY DEF FatInv, Typed, File
      <3>2. dir[i].size \in Nat
        BY DEF FatInv, Typed, Item, Live
      <3>. QED BY <3>1, <3>2 DEF View, Writer
    <2>3. o \in Nat /\ o < View(i).size
      BY <2>2
    <2>4. k \in Nat /\ r \in 0 .. Cb - 1 /\ o = k * Cb + r
      BY <2>3, DivMod
    <2>. HIDE DEF k, r
    <2>5. m \in Nat /\ View(i).size <= m * Cb /\ Cb \in Nat
      BY <2>1, FatAssumption DEF OnPath, IsPath
    <2>6. k < m
      <3>1. m <= k => m * Cb <= k * Cb
        BY <2>4, <2>5, Products
      <3>2. m * Cb \in Nat /\ k * Cb \in Nat
        BY <2>4, <2>5, Products
      <3>. QED BY <3>1, <3>2, <2>2, <2>3, <2>4, <2>5
    <2>7. k \in 0 .. m - 1 /\ k * Cb + r < View(i).size
      BY <2>3, <2>4, <2>5, <2>6
    <2>8. data[p[k]][r] = <<i, o>> /\ p[k] \in Clusters
      BY <2>1, <2>4, <2>7 DEF OnPath, IsPath
    <2>9. NthIn(fat, View(i).sblk, k) = p[k]
      BY <2>1, <2>7, PathNth DEF OnPath
    <2>. QED BY <2>8, <2>9, AsInTable DEF k, r, cluster_is_valid
  <1>7. ContentsIntact
    BY <1>6 DEF ContentsIntact
  <1>8. PosFollowsChain
    <2>. SUFFICES ASSUME NEW f \in Files, Open(f), file[f].pos < file[f].size
                  PROVE  file[f].cblk = Nth(file[f].sblk, file[f].pos \div Cb)
      BY DEF PosFollowsChain
    <2>1. Holds(file, f)
      <3>1. file[f].ref > 0
        BY DEF Open
      <3>2. file[f].sblk = Free => file[f].size = 0 /\ file[f].pos = 0
        BY <3>1 DEF FatInv, FilesRight
      <3>. QED BY <3>1, <3>2 DEF Holds
    <2>2. file[f].cblk = NthIn(fat, file[f].sblk, file[f].pos \div Cb)
      BY <2>1 DEF FatInv, FilesRight
    <2>. QED BY <2>2, AsInTable
  <1>. QED BY <1>5, <1>7, <1>8

LEMMA ViewSame ==
    ASSUME NEW dr, NEW dr2, NEW fl, NEW fl2, NEW f, NEW i,
           dr2[i] = dr[i], \A g \in Files : g # f => fl2[g] = fl[g],
           f \notin WriterIn(fl, i), f \notin WriterIn(fl2, i)
    PROVE  ViewIn(dr2, fl2, i) = ViewIn(dr, fl, i)
  <1>1. WriterIn(fl2, i) = WriterIn(fl, i)
    BY DEF WriterIn
  <1>. DEFINE W == WriterIn(fl, i)
              g == CHOOSE h \in W : TRUE
  <1>2. W # {} => g \in W /\ g \in Files /\ g # f
    BY DEF WriterIn
  <1>3. W # {} => fl2[g] = fl[g]
    BY <1>2
  <1>4. ViewIn(dr2, fl2, i) = IF W = {} THEN [sblk |-> dr2[i].sblk, size |-> dr2[i].size]
                              ELSE [sblk |-> fl2[g].sblk, size |-> fl2[g].size]
    BY <1>1 DEF ViewIn
  <1>5. ViewIn(dr, fl, i) = IF W = {} THEN [sblk |-> dr[i].sblk, size |-> dr[i].size]
                            ELSE [sblk |-> fl[g].sblk, size |-> fl[g].size]
    BY DEF ViewIn
  <1>. HIDE DEF W, g
  <1>. QED BY <1>3, <1>4, <1>5

\* What FilesRight says of one file, which has entry x.
FileRight(F, dr, fl, f, x) ==
    /\ fl[f].ref > 0 /\ fl[f].sblk = Free => fl[f].mode = {} /\ fl[f].size = 0 /\ fl[f].pos = 0
    /\ Holds(fl, f) => /\ fl[f].p_index = x /\ x \in LiveIn(dr)
                       /\ fl[f].pos <= fl[f].size
                       /\ fl[f].cblk = NthIn(F, fl[f].sblk, fl[f].pos \div Cb)
                       /\ fl[f].mode = {} => fl[f].sblk = dr[x].sblk /\ fl[f].size = dr[x].size

\* Where the file of entry x, which at most f has open, starts, and its size.
StartIn(dr, fl, f, x) == IF f \in Files /\ Holds(fl, f) THEN fl[f].sblk ELSE dr[x].sblk
SizeIn(dr, fl, f, x) == IF f \in Files /\ Holds(fl, f) THEN fl[f].size ELSE dr[x].size

LEMMA ViewOfX ==
    ASSUME NEW F, NEW dr, NEW fl, NEW f, NEW x \in LiveIn(dr), FilesRight(F, dr, fl),
           f \in Files /\ Holds(fl, f) => fl[f].p_index = x,
           \A g \in Files \ {f} : Holds(fl, g) => fl[g].p_index # x
    PROVE  ViewIn(dr, fl, x) = [sblk |-> StartIn(dr, fl, f, x), size |-> SizeIn(dr, fl, f, x)]
  <1>1. CASE f \in Files /\ Holds(fl, f)
    <2>1. ViewIn(dr, fl, fl[f].p_index) = [sblk |-> fl[f].sblk, size |-> fl[f].size]
      BY <1>1, ViewOf
    <2>. QED BY <1>1, <2>1 DEF StartIn, SizeIn
  <1>2. CASE ~ (f \in Files /\ Holds(fl, f))
    <2>1. \A g \in Files : Holds(fl, g) => fl[g].p_index # x
      BY <1>2
    <2>. QED BY <1>2, <2>1, ViewOf DEF StartIn, SizeIn
  <1>. QED BY <1>1, <1>2

\* One call works for entry x, through file f if it is not for the directory alone: what it
\* leaves alone, what f is then, and where the data of x are.
OneActs(F, F2, D, D2, W, W2, dr, dr2, fl, fl2, f, x, old) ==
    /\ \A i : i # x => (i \in W2 <=> i \in W)
    /\ \A g \in Files : g # f => fl2[g] = fl[g]
    /\ \A i \in Entries : i # x => dr2[i] = dr[i]
    /\ \A g \in Files \ {f} : Holds(fl, g) => fl[g].p_index # x
    /\ f \in Files /\ Holds(fl, f) => fl[f].p_index = x
    /\ x \in LiveIn(dr) => old = ChainIn(F, StartIn(dr, fl, f, x))
    /\ x \notin LiveIn(dr) => old = {}
    /\ \A c \in Clusters : c \notin old /\ F[c] # Free => F2[c] = F[c] /\ SameUnits(D, D2, c)
    /\ f \in Files => FileRight(F2, dr2, fl2, f, x)
    /\ x \in LiveIn(dr2) =>
            /\ dr2[x].sblk # Free
            /\ Lies(F2, D2, W2, x, StartIn(dr2, fl2, f, x), SizeIn(dr2, fl2, f, x))
            /\ ChainIn(F2, StartIn(dr2, fl2, f, x)) \subseteq old \cup FreeClusters(F)

\* A step that acts on one file keeps what holds of all of them.
LEMMA InvStep ==
    ASSUME NEW F, NEW F2, NEW D, NEW D2, NEW W, NEW W2, NEW dr, NEW dr2, NEW fl, NEW fl2, NEW f, NEW x, NEW old,
           fl \in [Files -> File],
           FilesRight(F, dr, fl), Laid(F, D, W, LiveIn(dr), Views(dr, fl)),
           OneActs(F, F2, D, D2, W, W2, dr, dr2, fl, fl2, f, x, old)
    PROVE  FilesRight(F2, dr2, fl2) /\ Laid(F2, D2, W2, LiveIn(dr2), Views(dr2, fl2))
  <1>. USE DEF OneActs
  <1>. DEFINE v == Views(dr, fl)
              w == Views(dr2, fl2)
              L == LiveIn(dr)
              L2 == LiveIn(dr2)
  <1>1. /\ \A i \in L2 : i # x => i \in L /\ dr2[i] = dr[i]
        /\ \A i \in L : i # x => i \in L2
        /\ L \subseteq Entries /\ L2 \subseteq Entries
    BY DEF LiveIn
  <1>2. x \in L => v[x].sblk = StartIn(dr, fl, f, x)
    BY ViewOfX DEF Views
  <1>3. x \in L => old = ChainIn(F, v[x].sblk)
    BY <1>2
  <1>4. ASSUME NEW g \in Files, g # f, Holds(fl, g)
        PROVE  /\ fl[g].p_index \in L /\ fl[g].p_index # x
               /\ v[fl[g].p_index].sblk = fl[g].sblk
               /\ \A k \in Nat : NthIn(F2, fl[g].sblk, k) = NthIn(F, fl[g].sblk, k)
    <2>. DEFINE i == fl[g].p_index
    <2>1. i \in L /\ i # x
      BY <1>4 DEF FilesRight
    <2>2. v[i].sblk = fl[g].sblk
      <3>1. ViewIn(dr, fl, i) = [sblk |-> fl[g].sblk, size |-> fl[g].size]
        BY <1>4, ViewOf
      <3>. QED BY <2>1, <3>1 DEF Views
    <2>. HIDE DEF v, i, L
    <2>3. \A c \in Clusters : c \notin old /\ F[c] # Free => F2[c] = F[c]
      OBVIOUS
    <2>4. Laid(F, D, W, L, v)
      BY DEF v, L
    <2>5. x \notin L => old = {}
      BY DEF L
    <2>6. Spared(F, F2, L, v, x, old)
      BY <2>3, <2>5, <1>3 DEF Spared
    <2>7. \A k \in Nat : NthIn(F2, v[i].sblk, k) = NthIn(F, v[i].sblk, k)
      BY <2>1, <2>4, <2>6, OthersKept
    <2>. QED BY <2>1, <2>2, <2>7 DEF i
  <1>5. \A i \in L2 : dr2[i].sblk # Free
    BY <1>1 DEF FilesRight
  <1>6. ASSUME NEW g \in Files
        PROVE  /\ fl2[g].ref > 0 /\ fl2[g].sblk = Free =>
                        fl2[g].mode = {} /\ fl2[g].size = 0 /\ fl2[g].pos = 0
               /\ Holds(fl2, g) =>
                    /\ fl2[g].p_index \in L2
                    /\ g # f => fl2[g].p_index # x /\ Holds(fl, g) /\ fl2[g] = fl[g]
                    /\ g = f => fl2[g].p_index = x
                    /\ fl2[g].pos <= fl2[g].size
                    /\ fl2[g].cblk = NthIn(F2, fl2[g].sblk, fl2[g].pos \div Cb)
                    /\ fl2[g].mode = {} => /\ fl2[g].sblk = dr2[fl2[g].p_index].sblk
                                           /\ fl2[g].size = dr2[fl2[g].p_index].size
    <2>1. CASE g = f
      BY <2>1 DEF FileRight
    <2>2. CASE g # f
      <3>1. fl2[g] = fl[g] /\ (Holds(fl2, g) <=> Holds(fl, g))
        BY <2>2 DEF Holds
      <3>2. fl[g].ref > 0 /\ fl[g].sblk = Free => fl[g].mode = {} /\ fl[g].size = 0 /\ fl[g].pos = 0
        BY DEF FilesRight
      <3>. SUFFICES ASSUME Holds(fl, g)
                    PROVE  /\ fl[g].p_index \in L2
                           /\ fl[g].p_index # x
                           /\ fl[g].pos <= fl[g].size
                           /\ fl[g].cblk = NthIn(F2, fl[g].sblk, fl[g].pos \div Cb)
                           /\ fl[g].mode = {} => /\ fl[g].sblk = dr2[fl[g].p_index].sblk
                                                 /\ fl[g].size = dr2[fl[g].p_index].size
        BY <3>1, <3>2, <2>2
      <3>3. fl[g].p_index \in L /\ fl[g].p_index # x /\ fl[g].p_index \in L2
            /\ dr2[fl[g].p_index] = dr[fl[g].p_index]
        BY <1>1, <1>4, <2>2
      <3>4. fl[g].pos <= fl[g].size /\ fl[g].cblk = NthIn(F, fl[g].sblk, fl[g].pos \div Cb)
            /\ (fl[g].mode = {} => /\ fl[g].sblk = dr[fl[g].p_index].sblk
                                   /\ fl[g].size = dr[fl[g].p_index].size)
        BY DEF FilesRight
      <3>5. NthIn(F2, fl[g].sblk, fl[g].pos \div Cb) = NthIn(F, fl[g].sblk, fl[g].pos \div Cb)
        <4>1. fl[g].pos \in Nat
          BY DEF File
        <4>2. fl[g].pos \div Cb \in Nat
          BY <4>1, DivMod
        <4>. QED BY <4>2, <1>4, <2>2
      <3>. QED BY <3>3, <3>4, <3>5
    <2>. QED BY <2>1, <2>2
  <1>7. ASSUME NEW g \in Files, NEW h \in Files, Holds(fl2, g), Holds(fl2, h),
               fl2[g].p_index = fl2[h].p_index
        PROVE  g = h
    <2>1. CASE g # f /\ h # f
      BY <2>1, <1>6, <1>7 DEF FilesRight
    <2>2. CASE g = f \/ h = f
      BY <2>2, <1>6, <1>7
    <2>. QED BY <2>1, <2>2
  <1>8. FilesRight(F2, dr2, fl2)
    BY <1>5, <1>6, <1>7 DEF FilesRight
  <1>9. x \in L2 => /\ w[x].sblk = StartIn(dr2, fl2, f, x)
                    /\ w[x].size = SizeIn(dr2, fl2, f, x)
    <2>. SUFFICES ASSUME x \in L2
                  PROVE  w[x].sblk = StartIn(dr2, fl2, f, x) /\ w[x].size = SizeIn(dr2, fl2, f, x)
      OBVIOUS
    <2>1. \A g \in Files \ {f} : Holds(fl2, g) => fl2[g].p_index # x
      BY <1>6
    <2>2. f \in Files /\ Holds(fl2, f) => fl2[f].p_index = x
      BY <1>6
    <2>3. ViewIn(dr2, fl2, x) = [sblk |-> StartIn(dr2, fl2, f, x), size |-> SizeIn(dr2, fl2, f, x)]
      BY <2>1, <2>2, <1>8, ViewOfX
    <2>. QED BY <2>3 DEF Views
  <1>10. ASSUME NEW i \in L2, i # x PROVE w[i] = v[i]
    <2>1. f \notin WriterIn(fl, i)
      <3>1. f \in WriterIn(fl, i) => f \in Files /\ Holds(fl, f) /\ fl[f].p_index = i
        BY DEF WriterIn, Holds, FilesRight
      <3>. QED BY <3>1, <1>10
    <2>2. f \notin WriterIn(fl2, i)
      <3>1. f \in WriterIn(fl2, i) => f \in Files /\ Holds(fl2, f) /\ fl2[f].p_index = i
        BY <1>6 DEF WriterIn, Holds
      <3>. QED BY <3>1, <1>10, <1>6
    <2>3. dr2[i] = dr[i] /\ i \in L
      BY <1>1, <1>10
    <2>4. ViewIn(dr2, fl2, i) = ViewIn(dr, fl, i)
      BY <2>1, <2>2, <2>3, ViewSame
    <2>. QED BY <2>3, <2>4 DEF Views
  <1>11. L2 \subseteq L \cup {x} /\ Laid(F, D, W, L, v)
    BY <1>1
  <1>12. x \in L2 => /\ Lies(F2, D2, W2, x, w[x].sblk, w[x].size)
                     /\ ChainIn(F2, w[x].sblk) \subseteq old \cup FreeClusters(F)
    BY <1>9
  <1>13. (x \notin L => old = {}) /\ \A i \in L2 : i # x => w[i] = v[i] /\ (i \in W2 <=> i \in W)
    BY <1>10
  <1>. HIDE DEF v, w, L, L2
  <1>14. OnlyOne(F, F2, D, D2, W, W2, L, L2, v, w, x, old)
    BY <1>3, <1>11, <1>12, <1>13 DEF OnlyOne, Spared
  <1>15. Laid(F2, D2, W2, L2, w)
    BY <1>11, <1>14, LaidStep
  <1>. QED BY <1>8, <1>15 DEF L2, w

LEMMA EmptySound ==
    ASSUME NEW F, NEW D, NEW i, NEW c, c \notin Clusters
    PROVE  Sound(F, D, i, c, 0) /\ ChainIn(F, c) = {}
  <1>. DEFINE p == [k \in 0 .. 0 - 1 |-> c]
  <1>1. 0 .. 0 - 1 = {}
    OBVIOUS
  <1>2. IsPath(F, p, 0, c)
    BY <1>1 DEF IsPath
  <1>. HIDE DEF p
  <1>3. 0 <= 0 * Cb
    BY FatAssumption
  <1>4. OnPath(F, D, i, c, 0, p, 0)
    BY <1>1, <1>2, <1>3 DEF OnPath
  <1>5. On(p, 0) = {}
    BY <1>1 DEF On
  <1>. QED BY <1>2, <1>4, <1>5, PathChain DEF Sound

\* What an entry of the table can be.
Marks == Clusters \cup {Free, Invalid, HostEnd}

LEMMA NthType ==
    ASSUME NEW F \in [Clusters -> Marks], NEW c \in Marks, NEW k \in Nat
    PROVE  NthIn(F, c, k) \in Marks
  <1>. DEFINE S == {n \in Nat : NthIn(F, c, n) \in Marks}
  <1>1. 0 \in S
    BY NthRec
  <1>2. ASSUME NEW n \in Nat, n \in S PROVE n + 1 \in S
    <2>1. NthIn(F, c, n + 1) = NextIn(F, NthIn(F, c, n))
      BY NthRec
    <2>2. Invalid \in Marks
      BY DEF Marks
    <2>. QED BY <1>2, <2>1, <2>2 DEF NextIn
  <1>. HIDE DEF S
  <1>3. Nat \subseteq S
    BY <1>1, <1>2, Induction
  <1>. QED BY <1>3 DEF S

LEMMA NextType ==
    ASSUME NEW F \in [Clusters -> Marks], NEW c
    PROVE  NextIn(F, c) \in Marks
  BY DEF NextIn, Marks

LEMMA ZeroDiv == 0 \div Cb = 0 /\ 0 % Cb = 0
  <1>1. 0 \in 0 .. Cb - 1 /\ 0 = 0 * Cb + 0
    BY FatAssumption
  <1>. QED BY <1>1, DivUnique

LEMMA FileTypes ==
    ASSUME FatInv, NEW f \in Files
    PROVE  /\ file[f] \in File
           /\ file[f].ref \in {0, 1} /\ file[f].mode \in SUBSET Flags
           /\ file[f].size \in Nat /\ file[f].pos \in Nat
           /\ file[f].sblk \in Clusters \cup {Free, Invalid} /\ file[f].cblk \in Marks
           /\ file[f].p_index \in Entries
           /\ file \in [Files -> File]
           /\ fat \in [Clusters -> Marks]
  BY DEF FatInv, Typed, File, Marks

LEMMA HeldFile ==
    ASSUME FatInv, NEW f \in Files, Holds(file, f), NEW x, x = file[f].p_index
    PROVE  /\ x \in LiveIn(dir)
           /\ \A g \in Files \ {f} : Holds(file, g) => file[g].p_index # x
           /\ Lies(fat, data, overwritten, x, file[f].sblk, file[f].size)
           /\ StartIn(dir, file, f, x) = file[f].sblk
           /\ SizeIn(dir, file, f, x) = file[f].size
           /\ file[f].pos <= file[f].size
           /\ file[f].cblk = NthIn(fat, file[f].sblk, file[f].pos \div Cb)
           /\ file[f].mode = {} => file[f].sblk = dir[x].sblk /\ file[f].size = dir[x].size
  <1>1. FilesRight(fat, dir, file) /\ Laid(fat, data, overwritten, LiveIn(dir), Views(dir, file))
    BY DEF FatInv
  <1>2. x \in LiveIn(dir) /\ \A g \in Files \ {f} : Holds(file, g) => file[g].p_index # x
    BY <1>1 DEF FilesRight
  <1>3. ViewIn(dir, file, x) = [sblk |-> file[f].sblk, size |-> file[f].size]
    BY <1>1, ViewOf
  <1>4. Views(dir, file)[x].sblk = file[f].sblk /\ Views(dir, file)[x].size = file[f].size
    BY <1>2, <1>3 DEF Views
  <1>5. Lies(fat, data, overwritten, x, file[f].sblk, file[f].size)
    BY <1>1, <1>2, <1>4 DEF Laid
  <1>6. StartIn(dir, file, f, x) = file[f].sblk /\ SizeIn(dir, file, f, x) = file[f].size
    BY DEF StartIn, SizeIn
  <1>7. /\ file[f].pos <= file[f].size
        /\ file[f].cblk = NthIn(fat, file[f].sblk, file[f].pos \div Cb)
        /\ file[f].mode = {} => file[f].sblk = dir[x].sblk /\ file[f].size = dir[x].size
    BY <1>1 DEF FilesRight
  <1>. QED BY <1>2, <1>5, <1>6, <1>7

LEMMA UnheldEntry ==
    ASSUME FatInv, NEW x \in LiveIn(dir), \A g \in Files : Holds(file, g) => file[g].p_index # x
    PROVE  /\ Lies(fat, data, overwritten, x, dir[x].sblk, dir[x].size)
           /\ dir[x].sblk # Free
           /\ dir[x] \in Item
           /\ dir[x].sblk \in Clusters \cup {Free, Invalid} /\ dir[x].size \in Nat
  <1>1. FilesRight(fat, dir, file) /\ Laid(fat, data, overwritten, LiveIn(dir), Views(dir, file))
    BY DEF FatInv
  <1>3. ViewIn(dir, file, x) = [sblk |-> dir[x].sblk, size |-> dir[x].size]
    BY <1>1, ViewOf
  <1>4. Views(dir, file)[x].sblk = dir[x].sblk /\ Views(dir, file)[x].size = dir[x].size
    BY <1>3 DEF Views
  <1>5. x \in Entries /\ dir[x] \in Item
    BY DEF FatInv, Typed, LiveIn
  <1>. QED BY <1>1, <1>4, <1>5 DEF Laid, FilesRight, Item

\* What a call that does not read or write has to show.
LEMMA CalmStep ==
    ASSUME FatInv, Calm, op' = op, Typed(fat', dir', file', op),
           NEW f, NEW x, NEW old,
           OneActs(fat, fat', data, data', overwritten, overwritten', dir, dir', file, file', f, x, old)
    PROVE  FatInv'
  <1>1. CallRight(fat', overwritten', file', op')
    BY DEF Calm, CallRight
  <1>2. file \in [Files -> File]
    BY DEF FatInv, Typed
  <1>3. FilesRight(fat, dir, file) /\ Laid(fat, data, overwritten, LiveIn(dir), Views(dir, file))
    BY DEF FatInv
  <1>4. /\ FilesRight(fat', dir', file')
        /\ Laid(fat', data', overwritten', LiveIn(dir'), Views(dir', file'))
    BY <1>2, <1>3, InvStep
  <1>. QED BY <1>1, <1>4 DEF FatInv

LEMMA EntryFound ==
    ASSUME FatInv, NEW name \in Names, Matches(name) # {}
    PROVE  /\ FirstOf(Matches(name)) \in LiveIn(dir)
           /\ FirstOf(Matches(name)) \in Entries
           /\ dir[FirstOf(Matches(name))].name = name
  <1>1. Matches(name) \in SUBSET Nat
    BY FatAssumption DEF Matches, Scanned, Entries
  <1>2. FirstOf(Matches(name)) \in Matches(name)
    BY <1>1, FirstIsFirst
  <1>. QED BY <1>2 DEF Matches, Scanned, LiveIn

LEMMA NobodyHas ==
    ASSUME FatInv, Careless = {}, NEW name, NEW i \in Entries, dir[i].name = name, Undisturbed(name)
    PROVE  \A g \in Files : Holds(file, g) => file[g].p_index # i
  BY DEF Undisturbed, InUse, Open, Holds

LEMMA OpenExisting ==
    ASSUME FatInv, Careless = {}, NEW f \in Files, NEW name \in Names, NEW mode \in Modes,
           Calm, ~Open(f), Undisturbed(name), open_existing(f, name, mode)
    PROVE  FatInv'
  <1>. DEFINE i == FirstOf(Matches(name))
              t == FromItem(mode, i, dir[i])
  <1>1. i \in LiveIn(dir) /\ i \in Entries /\ dir[i].name = name
    BY EntryFound DEF open_existing
  <1>2. \A g \in Files : Holds(file, g) => file[g].p_index # i
    BY <1>1, NobodyHas
  <1>3. ~Holds(file, f)
    BY DEF Holds, Open
  <1>4. /\ Lies(fat, data, overwritten, i, dir[i].sblk, dir[i].size)
        /\ dir[i].sblk # Free
        /\ dir[i].sblk \in Clusters \cup {Free, Invalid} /\ dir[i].size \in Nat
    BY <1>1, <1>2, UnheldEntry
  <1>5. UNCHANGED <<dir, op>>
    BY DEF open_existing
  <1>6. mode \in SUBSET Flags
    BY FatAssumption
  <1>7. Typed(fat, dir, file, op)
    BY DEF FatInv
  <1>8. t = [ref |-> 1, mode |-> mode, size |-> dir[i].size, pos |-> 0,
             sblk |-> dir[i].sblk, cblk |-> dir[i].sblk, p_index |-> i]
    BY DEF FromItem
  <1>9. StartIn(dir, file, f, i) = dir[i].sblk
    BY <1>3 DEF StartIn
  <1>. HIDE DEF i, t
  <1>10. CASE "TRUNC" \notin mode /\ file' = [file EXCEPT ![f] = t] /\ UNCHANGED <<fat, data, overwritten>>
    <2>1. file'[f] = t /\ \A g \in Files : g # f => file'[g] = file[g]
      BY <1>7, <1>10 DEF Typed
    <2>2. t \in File
      BY <1>1, <1>4, <1>6, <1>8 DEF File
    <2>3. Typed(fat', dir', file', op)
      BY <1>5, <1>7, <1>10, <2>2 DEF Typed
    <2>4. Holds(file', f)
      BY <2>1, <1>4, <1>8 DEF Holds
    <2>5. StartIn(dir', file', f, i) = dir[i].sblk /\ SizeIn(dir', file', f, i) = dir[i].size
      BY <2>1, <2>4, <1>8 DEF StartIn, SizeIn
    <2>6. FileRight(fat', dir', file', f, i)
      <3>1. NthIn(fat', dir[i].sblk, 0 \div Cb) = dir[i].sblk
        BY ZeroDiv, NthRec
      <3>. QED BY <2>1, <3>1, <1>1, <1>4, <1>5, <1>8 DEF FileRight, Holds
    <2>7. OneActs(fat, fat', data, data', overwritten, overwritten',
                  dir, dir', file, file', f, i, ChainIn(fat, dir[i].sblk))
      BY <1>1, <1>2, <1>3, <1>4, <1>5, <1>9, <1>10, <2>1, <2>5, <2>6 DEF OneActs, SameUnits
    <2>. QED BY <1>5, <2>3, <2>7, CalmStep
  <1>11. CASE /\ "TRUNC" \in mode
              /\ fat' = FreeChain(t.sblk)
              /\ data' = Scrap(t.sblk)
              /\ file' = [file EXCEPT ![f] = Truncated(t)]
              /\ overwritten' = overwritten \ {i}
    <2>. DEFINE u == Truncated(t)
    <2>t. t \in File
      BY <1>1, <1>4, <1>6, <1>8 DEF File
    <2>u. u \in File
      BY <2>t DEF Truncated, File
    <2>0. /\ u.ref = 1 /\ u.mode = mode /\ u.size = 0 /\ u.pos = 0
          /\ u.sblk = Invalid /\ u.cblk = Invalid /\ u.p_index = i
      BY <1>8 DEF Truncated
    <2>. HIDE DEF u
    <2>1. file'[f] = u /\ \A g \in Files : g # f => file'[g] = file[g]
      BY <1>7, <1>11 DEF Typed, u
    <2>2. u \in File
      BY <2>u
    <2>a. fat' = [x \in Clusters |-> IF x \in ChainIn(fat, dir[i].sblk) THEN Free ELSE fat[x]]
      BY <1>8, <1>11, AsInTable DEF FreeChain
    <2>b. \A c \in Clusters : c \notin ChainIn(fat, dir[i].sblk) => fat'[c] = fat[c] /\ data'[c] = data[c]
      BY <1>8, <1>11, <2>a, AsInTable DEF Scrap
    <2>3. Typed(fat', dir', file', op)
      <3>1. fat' \in [Clusters -> Clusters \cup {Free, Invalid, HostEnd}]
        BY <2>a, <1>7 DEF Typed
      <3>. QED BY <3>1, <1>5, <1>7, <1>11, <2>2 DEF Typed, u
    <2>c. Invalid # Free
      BY FatAssumption DEF Invalid, Free
    <2>4. Holds(file', f)
      BY <2>1, <2>0, <2>c DEF Holds
    <2>5. StartIn(dir', file', f, i) = Invalid /\ SizeIn(dir', file', f, i) = 0
      BY <2>1, <2>4, <2>0 DEF StartIn, SizeIn
    <2>6. FileRight(fat', dir', file', f, i)
      <3>1. NthIn(fat', Invalid, 0 \div Cb) = Invalid
        BY ZeroDiv, NthRec
      <3>2. mode # {}
        BY <1>11
      <3>. QED BY <2>1, <2>0, <2>c, <3>1, <3>2, <1>1, <1>5 DEF FileRight, Holds
    <2>7. Lies(fat', data', overwritten', i, Invalid, 0) /\ ChainIn(fat', Invalid) = {}
      <3>1. Sound(fat', data', i, Invalid, 0) /\ ChainIn(fat', Invalid) = {}
        BY EmptySound, MarksOutside
      <3>. QED BY <3>1, <1>11 DEF Lies
    <2>d. \A k : k # i => (k \in overwritten' <=> k \in overwritten)
      BY <1>11
    <2>8. OneActs(fat, fat', data, data', overwritten, overwritten',
                  dir, dir', file, file', f, i, ChainIn(fat, dir[i].sblk))
      BY <1>1, <1>2, <1>3, <1>4, <1>5, <1>9, <2>b, <2>1, <2>5, <2>6, <2>7, <2>d DEF OneActs, SameUnits
    <2>. QED BY <1>5, <2>3, <2>8, CalmStep
  <1>. QED BY <1>10, <1>11 DEF open_existing, i, t

\* fatfs_open puts a new file where no file is.
LEMMA NewIndexFree ==
    ASSUME FatInv, NewIndex >= 0
    PROVE  NewIndex \in Entries /\ NewIndex \notin LiveIn(dir)
  <1>0. LastEntry \in Nat /\ Entries \subseteq Nat /\ {NameEnd, NameFree} \cap Names = {} /\ Scanned \subseteq Entries
    BY FatAssumption DEF Entries, Scanned
  <1>1. CASE Scanned # Entries
    <2>. DEFINE T == {i \in Entries : dir[i].name = NameEnd}
    <2>1. T \in SUBSET Nat /\ T # {}
      <3>1. PICK i \in Entries : i \notin Scanned
        BY <1>0, <1>1
      <3>2. PICK j \in 0 .. i : dir[j].name = NameEnd
        BY <3>1 DEF Scanned
      <3>3. j \in Entries
        BY <3>1, <3>2, <1>0 DEF Entries
      <3>. QED BY <1>0, <3>2, <3>3
    <2>2. PICK k \in T : \A n \in T : k <= n
      BY <2>1, LeastOf
    <2>3. k \in Entries /\ k \in Nat /\ dir[k].name = NameEnd /\ k <= LastEntry
      BY <2>1, <2>2 DEF Entries
    <2>4. Scanned = 0 .. k - 1
      <3>1. ASSUME NEW i \in Scanned PROVE i \in 0 .. k - 1
        <4>1. i \in Nat /\ ~ (k \in 0 .. i)
          BY <1>0, <2>3, <3>1 DEF Scanned
        <4>. QED BY <4>1, <2>3
      <3>2. ASSUME NEW i \in 0 .. k - 1 PROVE i \in Scanned
        <4>1. i \in Entries /\ \A j \in 0 .. i : j \in Entries /\ j < k
          BY <1>0, <2>3 DEF Entries
        <4>2. \A j \in 0 .. i : dir[j].name # NameEnd
          <5>1. ASSUME NEW j \in 0 .. i, dir[j].name = NameEnd PROVE FALSE
            <6>1. j \in T
              BY <4>1, <5>1
            <6>2. k <= j /\ j < k /\ j \in Int
              BY <2>2, <4>1, <6>1
            <6>. QED BY <6>2, <2>3
          <5>. QED BY <5>1
        <4>. QED BY <4>1, <4>2 DEF Scanned
      <3>. QED BY <3>1, <3>2
    <2>5. Cardinality(Scanned) = k
      BY <2>3, <2>4, UpTo
    <2>6. NewIndex = k
      BY <2>5, <1>1 DEF NewIndex
    <2>. QED BY <2>3, <2>6, <1>0 DEF LiveIn
  <1>2. CASE Scanned = Entries
    <2>. DEFINE deleted == {i \in Scanned : dir[i].name = NameFree}
    <2>1. deleted # {} /\ NewIndex = CHOOSE i \in deleted : \A j \in deleted : j <= i
      <3>1. NewIndex = IF deleted # {} THEN CHOOSE i \in deleted : \A j \in deleted : j <= i ELSE -1
        BY <1>2 DEF NewIndex
      <3>. QED BY <3>1
    <2>2. \E i \in deleted : \A j \in deleted : j <= i
      <3>. DEFINE T == {LastEntry - i : i \in deleted}
      <3>1. T \in SUBSET Nat /\ T # {}
        <4>1. \A i \in deleted : i \in 0 .. LastEntry
          BY <1>0 DEF Entries
        <4>. HIDE DEF deleted
        <4>2. \A i \in deleted : LastEntry - i \in Nat
          BY <1>0, <4>1
        <4>. QED BY <2>1, <4>2
      <3>2. PICK n \in T : \A k \in T : n <= k
        BY <3>1, LeastOf
      <3>3. PICK i \in deleted : n = LastEntry - i
        BY <3>2
      <3>4. ASSUME NEW j \in deleted PROVE j <= i
        <4>1. n <= LastEntry - j
          BY <3>2
        <4>2. i \in Nat /\ j \in Nat
          BY <1>0
        <4>. QED BY <4>1, <4>2, <3>3, <1>0
      <3>. QED BY <3>3, <3>4
    <2>3. NewIndex \in deleted
      BY <2>1, <2>2
    <2>. QED BY <2>3, <1>0 DEF LiveIn
  <1>. QED BY <1>1, <1>2

LEMMA OpenNew ==
    ASSUME FatInv, Careless = {}, NEW f \in Files, NEW name \in Names, NEW mode \in Modes,
           Calm, ~Open(f), open_new(f, name, mode)
    PROVE  FatInv'
  <1>. DEFINE i == NewIndex
              item == [name |-> name, sblk |-> Invalid, size |-> 0]
              t == FromItem(mode, i, item)
  <1>1. i \in Entries /\ i \notin LiveIn(dir)
    BY NewIndexFree DEF open_new
  <1>2. \A g \in Files : Holds(file, g) => file[g].p_index # i
    BY <1>1 DEF FatInv, FilesRight
  <1>3. ~Holds(file, f)
    BY DEF Holds, Open
  <1>5. UNCHANGED <<fat, data, op>> /\ dir' = [dir EXCEPT ![i] = item] /\ file' = [file EXCEPT ![f] = t]
        /\ overwritten' = overwritten \ {i}
    BY DEF open_new
  <1>6. mode \in SUBSET Flags /\ Invalid # Free
    BY FatAssumption DEF Invalid, Free
  <1>7. Typed(fat, dir, file, op)
    BY DEF FatInv
  <1>8. t = [ref |-> 1, mode |-> mode, size |-> 0, pos |-> 0,
             sblk |-> Invalid, cblk |-> Invalid, p_index |-> i]
    BY DEF FromItem
  <1>9. item \in Item /\ item.sblk = Invalid /\ item.size = 0 /\ item.name = name
    BY DEF Item
  <1>. HIDE DEF i, t, item
  <1>10. file'[f] = t /\ \A g \in Files : g # f => file'[g] = file[g]
    BY <1>5, <1>7 DEF Typed
  <1>11. dir'[i] = item /\ \A k \in Entries : k # i => dir'[k] = dir[k]
    BY <1>1, <1>5, <1>7 DEF Typed
  <1>12. t \in File
    BY <1>1, <1>6, <1>8 DEF File
  <1>13. Typed(fat', dir', file', op)
    BY <1>5, <1>7, <1>9, <1>12 DEF Typed
  <1>14. Holds(file', f)
    BY <1>6, <1>8, <1>10 DEF Holds
  <1>15. StartIn(dir', file', f, i) = Invalid /\ SizeIn(dir', file', f, i) = 0
    BY <1>8, <1>10, <1>14 DEF StartIn, SizeIn
  <1>16. i \in LiveIn(dir')
    BY <1>1, <1>9, <1>11 DEF LiveIn
  <1>17. FileRight(fat', dir', file', f, i)
    <2>1. NthIn(fat', Invalid, 0 \div Cb) = Invalid
      BY ZeroDiv, NthRec
    <2>. QED BY <2>1, <1>6, <1>8, <1>9, <1>10, <1>11, <1>16 DEF FileRight, Holds
  <1>18. Lies(fat', data', overwritten', i, Invalid, 0) /\ ChainIn(fat', Invalid) = {}
    <2>1. Sound(fat', data', i, Invalid, 0) /\ ChainIn(fat', Invalid) = {}
      BY EmptySound, MarksOutside
    <2>. QED BY <2>1, <1>5 DEF Lies
  <1>20. \A k : k # i => (k \in overwritten' <=> k \in overwritten)
    BY <1>5
  <1>19. OneActs(fat, fat', data, data', overwritten, overwritten', dir, dir', file, file', f, i, {})
    BY <1>1, <1>2, <1>3, <1>5, <1>6, <1>9, <1>10, <1>11, <1>15, <1>17, <1>18, <1>20 DEF OneActs, SameUnits
  <1>. QED BY <1>5, <1>13, <1>19, CalmStep

LEMMA OpenFailed ==
    ASSUME FatInv, Careless = {}, NEW f \in Files, NEW name \in Names, NEW mode \in Modes,
           Calm, ~Open(f), open_failed(f, name, mode)
    PROVE  FatInv'
  <1>. DEFINE t == [Closed EXCEPT !.ref = 1, !.mode = mode]
  <1>1. mode = {} /\ file' = [file EXCEPT ![f] = t] /\ UNCHANGED <<fat, dir, data, op, overwritten>>
    BY DEF open_failed
  <1>2. /\ t.ref = 1 /\ t.mode = {} /\ t.size = 0 /\ t.pos = 0
        /\ t.sblk = Free /\ t.cblk = Free /\ t.p_index = 0
    BY <1>1 DEF Closed, Free
  <1>3. ~Holds(file, f)
    BY DEF Holds, Open
  <1>4. t \in File
    <2>1. Closed \in File
      BY FatAssumption DEF File, Closed, Entries, Free
    <2>. QED BY <2>1, <1>1 DEF File
  <1>. HIDE DEF t
  <1>5. Typed(fat, dir, file, op)
    BY DEF FatInv
  <1>6. file'[f] = t /\ \A g \in Files : g # f => file'[g] = file[g]
    BY <1>1, <1>5 DEF Typed
  <1>7. Typed(fat', dir', file', op)
    BY <1>1, <1>4, <1>5 DEF Typed
  <1>8. ~Holds(file', f) /\ FileRight(fat', dir', file', f, -1)
    BY <1>1, <1>2, <1>6 DEF FileRight, Holds
  <1>9. -1 \notin Entries /\ LiveIn(dir) \subseteq Entries /\ LiveIn(dir') \subseteq Entries
        /\ \A g \in Files : file[g].p_index \in Entries
    BY FileTypes DEF Entries, LiveIn
  <1>10. OneActs(fat, fat', data, data', overwritten, overwritten', dir, dir', file, file', f, -1, {})
    BY <1>1, <1>3, <1>6, <1>8, <1>9 DEF OneActs, SameUnits
  <1>. QED BY <1>1, <1>7, <1>10, CalmStep

LEMMA Close ==
    ASSUME FatInv, NEW f \in Files, fatfs_close(f)
    PROVE  FatInv'
  <1>1. /\ Calm /\ file[f].ref > 0 /\ UNCHANGED <<fat, data, op, overwritten>>
        /\ file' = [file EXCEPT ![f] = Closed]
    BY DEF fatfs_close, Open
  <1>2. Typed(fat, dir, file, op) /\ FilesRight(fat, dir, file)
    BY DEF FatInv
  <1>3. Closed \in File /\ Closed.ref = 0
    BY FatAssumption DEF File, Closed, Entries, Free
  <1>4. file'[f] = Closed /\ \A g \in Files : g # f => file'[g] = file[g]
    BY <1>1, <1>2 DEF Typed
  <1>5. ~Holds(file', f) /\ file'[f].ref = 0 /\ file' \in [Files -> File]
    BY <1>1, <1>2, <1>3, <1>4 DEF Holds, Typed
  <1>6. \A x : FileRight(fat', dir', file', f, x)
    BY <1>5 DEF FileRight
  <1>7. CASE ~Holds(file, f)
    <2>1. file[f].mode = {}
      BY <1>1, <1>2, <1>7 DEF Holds, FilesRight
    <2>2. UNCHANGED dir
      BY <2>1 DEF fatfs_close
    <2>3. Typed(fat', dir', file', op)
      BY <1>1, <1>2, <1>5, <2>2 DEF Typed
    <2>4. -1 \notin Entries /\ LiveIn(dir) \subseteq Entries /\ LiveIn(dir') \subseteq Entries
          /\ \A g \in Files : file[g].p_index \in Entries
      BY FileTypes DEF Entries, LiveIn
    <2>5. OneActs(fat, fat', data, data', overwritten, overwritten', dir, dir', file, file', f, -1, {})
      BY <1>1, <1>4, <1>6, <1>7, <2>2, <2>4 DEF OneActs, SameUnits
    <2>. QED BY <1>1, <2>3, <2>5, CalmStep
  <1>8. CASE Holds(file, f)
    <2>. DEFINE x == file[f].p_index
                s == file[f].sblk
                z == file[f].size
    <2>1. /\ x \in LiveIn(dir)
          /\ \A g \in Files \ {f} : Holds(file, g) => file[g].p_index # x
          /\ Lies(fat, data, overwritten, x, s, z)
          /\ StartIn(dir, file, f, x) = s
          /\ file[f].mode = {} => s = dir[x].sblk /\ z = dir[x].size
      BY <1>8, HeldFile
    <2>2. s \in Clusters \cup {Free, Invalid} /\ z \in Nat /\ x \in Entries /\ s # Free
      BY <1>8, FileTypes DEF Holds
    <2>. DEFINE item == [dir[x] EXCEPT !.sblk = s, !.size = z]
    <2>3. /\ dir'[x].sblk = s /\ dir'[x].size = z /\ dir'[x].name = dir[x].name
          /\ \A i \in Entries : i # x => dir'[i] = dir[i]
          /\ dir' \in [Entries -> Item]
      <3>1. CASE file[f].mode = {}
        <4>1. UNCHANGED dir
          BY <3>1 DEF fatfs_close
        <4>. QED BY <3>1, <4>1, <2>1, <1>2 DEF Typed
      <3>2. CASE file[f].mode # {}
        <4>1. dir' = [dir EXCEPT ![x].sblk = s, ![x].size = z]
          BY <3>2 DEF fatfs_close
        <4>2. dir[x] \in Item /\ dir \in [Entries -> Item]
          BY <2>2, <1>2 DEF Typed
        <4>. HIDE DEF x, s, z
        <4>3. dir' = [dir EXCEPT ![x] = [dir[x] EXCEPT !.sblk = s, !.size = z]]
          BY <4>1, <4>2, <2>2
        <4>4. item \in Item /\ item.sblk = s /\ item.size = z /\ item.name = dir[x].name
          BY <4>2, <2>2 DEF Item
        <4>. HIDE DEF item
        <4>5. dir' = [dir EXCEPT ![x] = item]
          BY <4>3 DEF item
        <4>. QED BY <4>2, <4>4, <4>5, <2>2
      <3>. QED BY <3>1, <3>2
    <2>. HIDE DEF x, s, z
    <2>4. Typed(fat', dir', file', op)
      BY <1>1, <1>2, <1>5, <2>3 DEF Typed
    <2>5. StartIn(dir', file', f, x) = s /\ SizeIn(dir', file', f, x) = z
      BY <1>5, <2>3 DEF StartIn, SizeIn
    <2>6. file[f].p_index = x
      BY DEF x
    <2>7. OneActs(fat, fat', data, data', overwritten, overwritten',
                  dir, dir', file, file', f, x, ChainIn(fat, s))
      BY <1>1, <1>4, <1>6, <2>1, <2>2, <2>3, <2>5, <2>6 DEF OneActs, SameUnits
    <2>. QED BY <1>1, <2>4, <2>7, CalmStep
  <1>. QED BY <1>7, <1>8

LEMMA Unlink ==
    ASSUME FatInv, Careless = {}, NEW name \in Names, fatfs_unlink(name)
    PROVE  FatInv'
  <1>. DEFINE i == FirstOf(Matches(name))
              s == dir[i].sblk
              gone == [name |-> NameEnd, sblk |-> 0, size |-> 0]
  <1>1. /\ Calm /\ Undisturbed(name) /\ UNCHANGED <<file, op, overwritten>>
        /\ fat' = FreeChain(s) /\ data' = Scrap(s)
        /\ dir' = [dir EXCEPT ![i] = gone]
    BY DEF fatfs_unlink
  <1>2. i \in LiveIn(dir) /\ i \in Entries /\ dir[i].name = name
    BY EntryFound DEF fatfs_unlink
  <1>3. \A g \in Files : Holds(file, g) => file[g].p_index # i
    BY <1>1, <1>2, NobodyHas
  <1>4. Typed(fat, dir, file, op)
    BY DEF FatInv
  <1>5. gone \in Item /\ gone.name = NameEnd
    BY DEF Item, Free
  <1>. HIDE DEF i, s, gone
  <1>6. fat' = [x \in Clusters |-> IF x \in ChainIn(fat, s) THEN Free ELSE fat[x]]
    BY <1>1, AsInTable DEF FreeChain
  <1>7. \A c \in Clusters : c \notin ChainIn(fat, s) => fat'[c] = fat[c] /\ data'[c] = data[c]
    BY <1>1, <1>6, AsInTable DEF Scrap
  <1>8. dir'[i] = gone /\ \A k \in Entries : k # i => dir'[k] = dir[k]
    BY <1>1, <1>2, <1>4 DEF Typed
  <1>9. Typed(fat', dir', file', op)
    <2>1. fat' \in [Clusters -> Clusters \cup {Free, Invalid, HostEnd}]
      BY <1>4, <1>6 DEF Typed
    <2>. QED BY <2>1, <1>1, <1>4, <1>5 DEF Typed
  <1>10. i \notin LiveIn(dir')
    BY <1>5, <1>8, FatAssumption DEF LiveIn
  <1>11. NoFile \notin Files
    BY FatAssumption
  <1>12. StartIn(dir, file, NoFile, i) = s
    BY <1>11 DEF StartIn, s
  <1>13. OneActs(fat, fat', data, data', overwritten, overwritten',
                 dir, dir', file, file', NoFile, i, ChainIn(fat, s))
    BY <1>1, <1>2, <1>3, <1>7, <1>8, <1>10, <1>11, <1>12 DEF OneActs, SameUnits
  <1>. QED BY <1>1, <1>9, <1>13, CalmStep

LEMMA Seek ==
    ASSUME FatInv, Careless = {}, NEW f \in Files, NEW offset \in Offsets, fatfs_seek(f, offset)
    PROVE  FatInv'
  <1>. DEFINE c == SeekCluster(file[f], offset)
              t == [file[f] EXCEPT !.pos = offset, !.cblk = c]
  <1>1. /\ Calm /\ file[f].ref > 0 /\ UNCHANGED <<fat, dir, data, op, overwritten>>
        /\ offset <= file[f].size
        /\ file' = [file EXCEPT ![f].pos = offset, ![f].cblk = c]
    BY DEF fatfs_seek, Open
  <1>2. Typed(fat, dir, file, op) /\ FilesRight(fat, dir, file)
    BY DEF FatInv
  <1>3. offset \in Nat /\ offset \div Cb \in Nat
    BY FatAssumption, DivMod
  <1>4. c = NthIn(fat, file[f].sblk, offset \div Cb)
    BY AsInTable DEF SeekCluster
  <1>5. c \in Marks
    <2>1. file[f].sblk \in Marks
      BY FileTypes DEF Marks
    <2>. QED BY <2>1, <1>3, <1>4, NthType, FileTypes
  <1>6. file[f] \in File
    BY FileTypes
  <1>. HIDE DEF c
  <1>7. /\ t \in File /\ t.pos = offset /\ t.cblk = c /\ t.size = file[f].size /\ t.sblk = file[f].sblk
        /\ t.mode = file[f].mode /\ t.ref = file[f].ref /\ t.p_index = file[f].p_index
    BY <1>3, <1>5, <1>6 DEF File, Marks
  <1>8. file' = [file EXCEPT ![f] = t]
    BY <1>1, <1>2, <1>6 DEF Typed
  <1>. HIDE DEF t
  <1>9. file'[f] = t /\ (\A g \in Files : g # f => file'[g] = file[g]) /\ Typed(fat', dir', file', op)
    <2>1. file \in [Files -> File]
      BY <1>2 DEF Typed
    <2>2. file'[f] = t
      BY <1>8, <2>1
    <2>3. \A g \in Files : g # f => file'[g] = file[g]
      BY <1>8, <2>1
    <2>4. file' \in [Files -> File]
      BY <1>7, <1>8, <2>1
    <2>. QED BY <1>1, <1>2, <2>2, <2>3, <2>4 DEF Typed
  <1>10. CASE ~Holds(file, f)
    <2>1. file[f].sblk = Free /\ file[f].mode = {} /\ file[f].size = 0
      BY <1>1, <1>2, <1>10 DEF Holds, FilesRight
    <2>2. offset = 0
      BY <2>1, <1>1, <1>3
    <2>3. ~Holds(file', f) /\ FileRight(fat', dir', file', f, -1)
      BY <2>1, <2>2, <1>7, <1>9 DEF Holds, FileRight
    <2>4. -1 \notin Entries /\ LiveIn(dir) \subseteq Entries /\ LiveIn(dir') \subseteq Entries
          /\ \A g \in Files : file[g].p_index \in Entries
      BY FileTypes DEF Entries, LiveIn
    <2>5. OneActs(fat, fat', data, data', overwritten, overwritten', dir, dir', file, file', f, -1, {})
      BY <1>1, <1>9, <1>10, <2>3, <2>4 DEF OneActs, SameUnits
    <2>. QED BY <1>1, <1>9, <2>5, CalmStep
  <1>11. CASE Holds(file, f)
    <2>. DEFINE x == file[f].p_index
                s == file[f].sblk
                z == file[f].size
    <2>1. /\ x \in LiveIn(dir)
          /\ \A g \in Files \ {f} : Holds(file, g) => file[g].p_index # x
          /\ Lies(fat, data, overwritten, x, s, z)
          /\ StartIn(dir, file, f, x) = s
          /\ file[f].mode = {} => s = dir[x].sblk /\ z = dir[x].size
      BY <1>11, HeldFile
    <2>2. x \in Entries /\ s # Free
      BY <1>11, FileTypes DEF Holds
    <2>. HIDE DEF x, s, z
    <2>3. t.p_index = x /\ t.sblk = s /\ t.size = z /\ file[f].p_index = x
      BY <1>7 DEF x, s, z
    <2>4. Holds(file', f)
      BY <1>1, <1>7, <1>9, <2>2, <2>3 DEF Holds
    <2>5. StartIn(dir', file', f, x) = s /\ SizeIn(dir', file', f, x) = z
      BY <1>9, <2>3, <2>4 DEF StartIn, SizeIn
    <2>6. FileRight(fat', dir', file', f, x)
      <3>1. t.pos <= t.size /\ t.cblk = NthIn(fat, t.sblk, t.pos \div Cb)
        BY <1>1, <1>4, <1>7
      <3>. QED BY <3>1, <1>1, <1>7, <1>9, <2>1, <2>2, <2>3 DEF FileRight
    <2>7. dir[x].sblk # Free
      BY <1>2, <2>1 DEF FilesRight
    <2>8. OneActs(fat, fat', data, data', overwritten, overwritten',
                  dir, dir', file, file', f, x, ChainIn(fat, s))
      BY <1>1, <1>9, <2>1, <2>2, <2>3, <2>5, <2>6, <2>7 DEF OneActs, SameUnits
    <2>. QED BY <1>1, <1>9, <2>8, CalmStep
  <1>. QED BY <1>10, <1>11

LEMMA ReadStarts ==
    ASSUME FatInv, NEW f \in Files, NEW n \in Reads, fatfs_read(f, n)
    PROVE  FatInv'
  <1>. DEFINE t == file[f]
              nbytes == IF t.pos + n > t.size THEN (t.size - t.pos) % Word ELSE n
  <1>1. /\ t.ref > 0 /\ nbytes > 0 /\ UNCHANGED <<fat, dir, data, file, overwritten>>
        /\ op' = [NoOp EXCEPT !.step = "copy", !.f = f, !.left = nbytes]
    BY DEF fatfs_read, Open
  <1>2. t.size \in Nat /\ t.pos \in Nat
    BY FileTypes
  <1>3. Word \in Nat \ {0} /\ n \in Nat \ {0}
    BY FatAssumption
  <1>4. \A a \in Nat : a % Word \in Nat /\ a % Word <= a
    <2>1. ASSUME NEW a \in Nat, NEW b \in Nat \ {0} PROVE a % b \in Nat /\ a % b <= a
      OBVIOUS
    <2>. QED BY <2>1, <1>3
  <1>5. Holds(file, f)
    <2>. SUFFICES ASSUME t.sblk = Free PROVE FALSE
      BY <1>1 DEF Holds
    <2>1. t.size = 0 /\ t.pos = 0
      BY <1>1 DEF FatInv, FilesRight
    <2>2. nbytes = 0 % Word
      BY <2>1, <1>3
    <2>3. 0 % Word = 0
      BY <1>4
    <2>. QED BY <2>2, <2>3, <1>1
  <1>6. t.pos <= t.size
    BY <1>5, HeldFile
  <1>7. nbytes \in Nat /\ t.pos + nbytes <= t.size
    <2>1. t.size - t.pos \in Nat
      BY <1>2, <1>6
    <2>. QED BY <2>1, <1>2, <1>3, <1>4
  <1>. HIDE DEF nbytes
  <1>8. op' = [step |-> "copy", f |-> f, writing |-> FALSE, left |-> nbytes, inc |-> 0, then |-> "idle"]
    BY <1>1 DEF NoOp
  <1>a. /\ op'.step = "copy" /\ op'.f = f /\ op'.writing = FALSE /\ op'.left = nbytes
        /\ op' \in Call
    BY <1>7, <1>8 DEF Call
  <1>9. Typed(fat', dir', file', op')
    BY <1>1, <1>a DEF FatInv, Typed
  <1>10. CallRight(fat', overwritten', file', op')
    BY <1>1, <1>5, <1>7, <1>a DEF CallRight
  <1>11. /\ FilesRight(fat', dir', file')
         /\ Laid(fat', data', overwritten', LiveIn(dir'), Views(dir', file'))
    BY <1>1 DEF FatInv
  <1>. QED BY <1>9, <1>10, <1>11 DEF FatInv

LEMMA WriteStarts ==
    ASSUME FatInv, NEW f \in Files, NEW n \in Writes, fatfs_write(f, n)
    PROVE  FatInv'
  <1>. DEFINE t == file[f]
              x == t.p_index
              s == t.sblk
              z == t.size
  <1>1. /\ t.ref > 0 /\ t.mode # {} /\ UNCHANGED <<fat, dir, data, file>>
        /\ op' = [NoOp EXCEPT !.step = IF t.pos + n > t.size THEN "expand" ELSE "copy",
                              !.f = f, !.writing = TRUE, !.left = n,
                              !.inc = t.pos + n - t.size, !.then = "copy"]
        /\ overwritten' = overwritten \cup (IF t.pos < t.size THEN {t.p_index} ELSE {})
    BY DEF fatfs_write, Open
  <1>2. z \in Nat /\ t.pos \in Nat /\ n \in Nat \ {0} /\ t.pos + n - z \in Int
    BY FileTypes, FatAssumption
  <1>3. Holds(file, f)
    BY <1>1 DEF FatInv, FilesRight, Holds
  <1>4. /\ t.pos <= z
        /\ x \in LiveIn(dir)
        /\ \A g \in Files \ {f} : Holds(file, g) => file[g].p_index # x
        /\ Lies(fat, data, overwritten, x, s, z)
        /\ StartIn(dir, file, f, x) = s /\ SizeIn(dir, file, f, x) = z
        /\ t.cblk = NthIn(fat, s, t.pos \div Cb)
    BY <1>3, HeldFile
  <1>5. /\ op'.step = IF t.pos + n > z THEN "expand" ELSE "copy"
        /\ op'.f = f /\ op'.writing = TRUE /\ op'.left = n
        /\ op'.inc = t.pos + n - z /\ op'.then = "copy" /\ op' \in Call
    BY <1>1, <1>2 DEF NoOp, Call
  <1>6. Typed(fat', dir', file', op')
    BY <1>1, <1>5 DEF FatInv, Typed
  <1>7. FilesRight(fat, dir, file) /\ Laid(fat, data, overwritten, LiveIn(dir), Views(dir, file))
    BY DEF FatInv
  <1>8. CASE t.pos < z
    <2>1. s \in Clusters /\ Sound(fat, data, x, s, 0)
      <3>1. CASE x \in overwritten
        BY <3>1, <1>4 DEF Lies
      <3>2. CASE x \notin overwritten
        <4>1. Sound(fat, data, x, s, z)
          BY <3>2, <1>4 DEF Lies
        <4>2. PICK p, m : OnPath(fat, data, x, s, z, p, m)
          BY <4>1 DEF Sound
        <4>3. m \in Nat /\ z <= m * Cb /\ IsPath(fat, p, m, s)
          BY <4>2 DEF OnPath, IsPath
        <4>4. m # 0
          <5>1. m = 0 => m * Cb = 0
            BY FatAssumption
          <5>. QED BY <5>1, <4>3, <1>2, <1>8
        <4>5. p[0] = s /\ p[0] \in Clusters
          BY <4>3, <4>4 DEF IsPath
        <4>. QED BY <4>1, <4>5, PathOnly
      <3>. QED BY <3>1, <3>2
    <2>2. x \in overwritten' /\ \A i : i # x => (i \in overwritten' <=> i \in overwritten)
      BY <1>1, <1>8
    <2>3. Lies(fat', data', overwritten', x, s, z)
      BY <1>1, <2>1, <2>2 DEF Lies
    <2>4. StartIn(dir', file', f, x) = s /\ SizeIn(dir', file', f, x) = z /\ StartIn(dir, file, f, x) = s
      BY <1>1, <1>4
    <2>5. FileRight(fat', dir', file', f, x)
      BY <1>1, <1>3, <1>4 DEF FileRight, Holds
    <2>6. dir[x].sblk # Free
      BY <1>4, <1>7 DEF FilesRight
    <2>7. file[f].p_index = x
      OBVIOUS
    <2>. HIDE DEF x, s, z
    <2>8. OneActs(fat, fat', data, data', overwritten, overwritten',
                  dir, dir', file, file', f, x, ChainIn(fat, s))
      BY <1>1, <1>4, <2>2, <2>3, <2>4, <2>5, <2>6, <2>7 DEF OneActs, SameUnits
    <2>9. file \in [Files -> File]
      BY FileTypes
    <2>10. /\ FilesRight(fat', dir', file')
           /\ Laid(fat', data', overwritten', LiveIn(dir'), Views(dir', file'))
      BY <1>7, <2>8, <2>9, InvStep
    <2>11. Overwrites(file'[f], op')
      BY <1>2, <1>5 DEF Overwrites, z
    <2>12. CallRight(fat', overwritten', file', op')
      BY <1>1, <1>2, <1>3, <1>5, <2>2, <2>7, <2>11 DEF CallRight
    <2>. QED BY <1>6, <2>10, <2>12 DEF FatInv
  <1>9. CASE ~ (t.pos < z)
    <2>1. t.pos = z /\ overwritten' = overwritten
      BY <1>1, <1>2, <1>4, <1>9
    <2>2. op'.step = "expand" /\ op'.inc = n
      BY <1>2, <1>5, <2>1
    <2>3. Overwrites(file'[f], op') /\ Appends(fat', file'[f], op')
      BY <1>1, <1>2, <1>5, <2>1, <2>2 DEF Overwrites, Appends
    <2>4. CallRight(fat', overwritten', file', op')
      BY <1>1, <1>2, <1>3, <1>5, <2>2, <2>3 DEF CallRight
    <2>5. /\ FilesRight(fat', dir', file')
          /\ Laid(fat', data', overwritten', LiveIn(dir'), Views(dir', file'))
      BY <1>1, <1>7, <2>1
    <2>. QED BY <1>6, <2>4, <2>5 DEF FatInv
  <1>. QED BY <1>8, <1>9

\* A round stays within its cluster.
LEMMA PartFacts ==
    ASSUME NEW pos \in Nat, NEW t, t.pos = pos, NEW left \in Nat \ {0}
    PROVE  /\ PartOf(t, left) \in Nat \ {0} /\ PartOf(t, left) <= left
           /\ pos % Cb \in 0 .. Cb - 1
           /\ (pos % Cb) + PartOf(t, left) <= Cb
           /\ PartOf(t, left) # left => (pos % Cb) + PartOf(t, left) = Cb
  <1>1. pos % Cb \in 0 .. Cb - 1 /\ Cb \in Nat \ {0}
    BY DivMod, FatAssumption
  <1>. DEFINE room == Cb - (pos % Cb)
  <1>2. PartOf(t, left) = IF left > room THEN room ELSE left
    BY DEF PartOf
  <1>3. pos % Cb \in Nat /\ room \in Nat \ {0} /\ (pos % Cb) + room = Cb
    BY <1>1
  <1>. HIDE DEF room
  <1>4. CASE left > room
    BY <1>1, <1>2, <1>3, <1>4
  <1>5. CASE ~ (left > room)
    BY <1>1, <1>2, <1>3, <1>5
  <1>. QED BY <1>4, <1>5

\* cblk follows pos over a round of a read or write.
LEMMA Follows ==
    ASSUME NEW F, NEW s, NEW pos \in Nat, NEW copied \in Nat, (pos % Cb) + copied <= Cb
    PROVE  /\ (pos % Cb) + copied >= Cb =>
                /\ (pos + copied) \div Cb = (pos \div Cb) + 1
                /\ pos + copied = ((pos \div Cb) + 1) * Cb
                /\ NextIn(F, NthIn(F, s, pos \div Cb)) = NthIn(F, s, (pos + copied) \div Cb)
           /\ ~ ((pos % Cb) + copied >= Cb) =>
                NthIn(F, s, pos \div Cb) = NthIn(F, s, (pos + copied) \div Cb)
  <1>. DEFINE q == pos \div Cb
              r == pos % Cb
  <1>1. q \in Nat /\ r \in 0 .. Cb - 1 /\ pos = q * Cb + r /\ Cb \in Nat \ {0}
    BY DivMod, FatAssumption
  <1>2. r + copied <= Cb
    OBVIOUS
  <1>. HIDE DEF q, r
  <1>3. q * Cb \in Nat /\ (q + 1) * Cb = q * Cb + Cb /\ q + 1 \in Nat
    BY <1>1, Products
  <1>4. ASSUME r + copied >= Cb
        PROVE  (pos + copied) \div Cb = q + 1 /\ pos + copied = (q + 1) * Cb
    <2>1. pos + copied = (q + 1) * Cb /\ 0 \in 0 .. Cb - 1 /\ pos + copied \in Nat
      BY <1>1, <1>2, <1>3, <1>4
    <2>. DEFINE d == q + 1
                n == pos + copied
    <2>2. d \in Nat /\ n \in Nat /\ n = d * Cb + 0
      BY <2>1, <1>3
    <2>. HIDE DEF d, n
    <2>3. n \div Cb = d
      BY <2>1, <2>2, DivUnique
    <2>. QED BY <2>1, <2>3 DEF d, n
  <1>5. ASSUME ~ (r + copied >= Cb) PROVE (pos + copied) \div Cb = q
    <2>1. pos + copied = q * Cb + (r + copied) /\ r + copied \in 0 .. Cb - 1 /\ pos + copied \in Nat
      BY <1>1, <1>3, <1>5
    <2>. QED BY <2>1, <1>1, DivUnique
  <1>6. NthIn(F, s, q + 1) = NextIn(F, NthIn(F, s, q))
    BY <1>1, NthRec
  <1>. QED BY <1>4, <1>5, <1>6 DEF q, r

LEMMA EdgeReached ==
    ASSUME NEW pos \in Nat, NEW copied \in Nat, (pos % Cb) + copied = Cb
    PROVE  pos + copied = ((pos \div Cb) + 1) * Cb /\ (pos + copied) % Cb = 0
  <1>. DEFINE d == (pos \div Cb) + 1
              n == pos + copied
  <1>1. (pos % Cb) + copied <= Cb /\ (pos % Cb) + copied >= Cb /\ Cb \in Nat \ {0}
    BY FatAssumption
  <1>2. n = d * Cb
    BY <1>1, Follows
  <1>3. d \in Nat /\ n \in Nat
    <2>1. pos \div Cb \in Nat
      BY DivMod
    <2>. QED BY <2>1
  <1>. HIDE DEF d, n
  <1>4. n = d * Cb + 0 /\ 0 \in 0 .. Cb - 1
    BY <1>1, <1>2, <1>3
  <1>5. n % Cb = 0
    BY <1>3, <1>4, DivUnique
  <1>. QED BY <1>2, <1>5 DEF d, n

\* expand_file takes no cluster only if the last one of the file has room left.
LEMMA NeededFacts ==
    ASSUME NEW size \in Nat, NEW inc \in Nat \ {0}
    PROVE  /\ Needed(size, inc) \in Nat
           /\ Needed(size, inc) = 0 => size % Cb # 0 /\ (size % Cb) + inc < Cb
  <1>1. Cb \in Nat \ {0} /\ size % Cb \in 0 .. Cb - 1
    BY DivMod, FatAssumption
  <1>2. ASSUME NEW n \in Nat \ {0} PROVE Up(n) \in Nat \ {0}
    <2>. DEFINE a == n + Cb - 1
    <2>1. a \in Nat /\ a >= Cb
      BY <1>1
    <2>2. a \div Cb \in Nat /\ a < (a \div Cb) * Cb + Cb
      BY <2>1, DivMod
    <2>. HIDE DEF a
    <2>3. a \div Cb # 0
      <3>1. a \div Cb = 0 => (a \div Cb) * Cb = 0
        BY <1>1
      <3>. QED BY <3>1, <2>1, <2>2, <1>1
    <2>. QED BY <2>2, <2>3 DEF Up, a
  <1>. DEFINE cfree == Cb - (size % Cb)
  <1>3. cfree \in Nat \ {0} /\ size % Cb \in Nat
    BY <1>1
  <1>4. Needed(size, inc) = IF size % Cb = 0 THEN Up(inc)
                            ELSE IF cfree > inc THEN 0
                            ELSE IF inc = cfree THEN 1 ELSE Up(inc - cfree)
    BY DEF Needed
  <1>5. Up(inc) \in Nat \ {0}
    BY <1>2
  <1>6. inc > cfree => Up(inc - cfree) \in Nat \ {0}
    <2>1. inc > cfree => inc - cfree \in Nat \ {0}
      BY <1>3
    <2>. QED BY <2>1, <1>2
  <1>7. CASE size % Cb = 0
    BY <1>7, <1>4, <1>5
  <1>8. CASE size % Cb # 0 /\ cfree > inc
    BY <1>8, <1>4, <1>1
  <1>9. CASE size % Cb # 0 /\ inc = cfree
    BY <1>9, <1>4, <1>3
  <1>10. CASE size % Cb # 0 /\ inc > cfree
    BY <1>10, <1>4, <1>3, <1>6
  <1>11. cfree > inc \/ inc = cfree \/ inc > cfree
    BY <1>3
  <1>. QED BY <1>7, <1>8, <1>9, <1>10, <1>11

\* As many units as were copied are written behind the end of file x, in cluster b.
WrittenAt(D, D2, x, size, b, copied) ==
    \A y \in Clusters : \A o \in 0 .. Cb - 1 :
        D2[y][o] = IF y = b /\ o \in size % Cb .. (size % Cb) + copied - 1
                   THEN <<x, size + o - (size % Cb)>> ELSE D[y][o]

\* Writing at the end of a file makes it longer and leaves it sound.
LEMMA WriteSound ==
    ASSUME NEW F, NEW D, NEW D2, NEW x, NEW c, NEW size \in Nat, NEW b \in Clusters, NEW copied \in Nat,
           Sound(F, D, x, c, size), b = NthIn(F, c, size \div Cb), (size % Cb) + copied <= Cb,
           WrittenAt(D, D2, x, size, b, copied)
    PROVE  Sound(F, D2, x, c, size + copied) /\ b \in ChainIn(F, c) /\ F[b] # Free
  <1>1. PICK p, m : OnPath(F, D, x, c, size, p, m)
    BY DEF Sound
  <1>2. IsPath(F, p, m, c) /\ m \in Nat /\ size <= m * Cb
    BY <1>1 DEF OnPath, IsPath
  <1>. DEFINE q == size \div Cb
              r == size % Cb
  <1>3. q \in Nat /\ r \in 0 .. Cb - 1 /\ size = q * Cb + r /\ Cb \in Nat \ {0} /\ r + copied <= Cb
    BY DivMod, FatAssumption
  <1>4. \A y \in Clusters : \A o \in 0 .. Cb - 1 :
            D2[y][o] = IF y = b /\ o \in r .. r + copied - 1 THEN <<x, size + o - r>> ELSE D[y][o]
    BY DEF WrittenAt
  <1>5. q < m
    <2>1. NthIn(F, c, q) \in Clusters
      OBVIOUS
    <2>. HIDE DEF q
    <2>. QED BY <2>1, <1>2, <1>3, PathNth
  <1>6. b = NthIn(F, c, q)
    OBVIOUS
  <1>. HIDE DEF q, r
  <1>7. q \in 0 .. m - 1 /\ b = p[q]
    BY <1>2, <1>3, <1>5, <1>6, PathNth
  <1>8. q * Cb \in Nat /\ (q + 1) * Cb = q * Cb + Cb /\ (q + 1) * Cb <= m * Cb /\ m * Cb \in Nat
    <2>1. q + 1 \in Nat /\ q + 1 <= m
      BY <1>2, <1>3, <1>5
    <2>. QED BY <2>1, <1>2, <1>3, Products
  <1>9. size + copied <= m * Cb
    BY <1>3, <1>8
  <1>10. ASSUME NEW k \in 0 .. m - 1, NEW o \in 0 .. Cb - 1, k * Cb + o < size + copied
         PROVE  D2[p[k]][o] = <<x, k * Cb + o>>
    <2>1. p[k] \in Clusters /\ k \in Nat /\ k * Cb \in Nat /\ o \in Nat
      <3>1. k \in Nat /\ o \in Nat
        OBVIOUS
      <3>2. p[k] \in Clusters
        BY <1>2 DEF IsPath
      <3>. QED BY <3>1, <3>2, Products
    <2>2. CASE k = q
      <3>1. p[k] = b
        BY <2>2, <1>7
      <3>2. CASE o >= r
        <4>1. o < r + copied
          BY <3>2, <2>1, <2>2, <1>3, <1>8, <1>10
        <4>2. o \in r .. r + copied - 1
          BY <3>2, <4>1, <2>1, <1>3
        <4>3. D2[p[k]][o] = <<x, size + o - r>>
          BY <3>1, <4>2, <2>1, <1>4
        <4>4. size + o - r = k * Cb + o
          BY <2>1, <2>2, <1>3, <1>8
        <4>. QED BY <4>3, <4>4
      <3>3. CASE o < r
        <4>1. ~ (o \in r .. r + copied - 1)
          BY <3>3, <2>1, <1>3
        <4>2. D2[p[k]][o] = D[p[k]][o]
          BY <4>1, <2>1, <1>4
        <4>3. k * Cb + o < size
          BY <3>3, <2>1, <2>2, <1>3, <1>8
        <4>. QED BY <4>2, <4>3, <1>1 DEF OnPath
      <3>. QED BY <3>2, <3>3, <2>1, <1>3
    <2>3. CASE k # q
      <3>1. p[k] # b
        BY <2>3, <1>2, <1>7 DEF IsPath
      <3>2. D2[p[k]][o] = D[p[k]][o]
        BY <3>1, <2>1, <1>4
      <3>3. k < q
        <4>1. q < k => q * Cb + Cb <= k * Cb
          BY <2>1, <1>3, Products
        <4>. QED BY <4>1, <2>1, <2>3, <1>3, <1>8, <1>10
      <3>4. k * Cb + Cb <= q * Cb
        BY <3>3, <2>1, <1>3, Products
      <3>5. k * Cb + o < size
        BY <3>4, <2>1, <1>3, <1>8
      <3>. QED BY <3>2, <3>5, <1>1 DEF OnPath
    <2>. QED BY <2>2, <2>3
  <1>11. OnPath(F, D2, x, c, size + copied, p, m)
    BY <1>2, <1>9, <1>10 DEF OnPath
  <1>12. b \in On(p, m)
    BY <1>7 DEF On
  <1>. QED BY <1>2, <1>11, <1>12, PathChain DEF Sound

LEMMA LinkFacts ==
    ASSUME FatInv, NEW S \in SUBSET Clusters
    PROVE  /\ \A c \in Clusters \ S : Link(S)[c] = fat[c]
           /\ LinksOf(Link(S), S)
           /\ Link(S) \in [Clusters -> Clusters \cup {Free, Invalid, HostEnd}]
  <1>1. \A c \in Clusters : LET later == {d \in S : c < d}
                            IN  Link(S)[c] = IF c \notin S THEN fat[c]
                                             ELSE IF later = {} THEN Invalid ELSE FirstOf(later)
    BY DEF Link
  <1>2. \A c \in Clusters \ S : Link(S)[c] = fat[c]
    BY <1>1
  <1>3. LinksOf(Link(S), S)
    BY <1>1 DEF LinksOf
  <1>4. ASSUME NEW c \in Clusters PROVE Link(S)[c] \in Clusters \cup {Free, Invalid, HostEnd}
    <2>1. CASE c \notin S
      BY <2>1, <1>2 DEF FatInv, Typed
    <2>2. CASE c \in S
      <3>. DEFINE later == {d \in S : c < d}
      <3>1. later \in SUBSET Nat
        BY MarksOutside
      <3>2. Link(S)[c] = IF later = {} THEN Invalid ELSE FirstOf(later)
        BY <2>2, <1>1
      <3>3. later # {} => FirstOf(later) \in later
        BY <3>1, FirstIsFirst
      <3>. QED BY <3>2, <3>3
    <2>. QED BY <2>1, <2>2
  <1>5. Link(S) \in [Clusters -> Clusters \cup {Free, Invalid, HostEnd}]
    <2>1. Link(S) = [c \in Clusters |-> Link(S)[c]]
      BY DEF Link
    <2>. QED BY <2>1, <1>4
  <1>. QED BY <1>2, <1>3, <1>5

\* A call that only moves the position of a file.
LEMMA PosOnly ==
    ASSUME FatInv, NEW f \in Files, Holds(file, f), UNCHANGED <<fat, dir, data, overwritten>>,
           NEW t \in File, file' = [file EXCEPT ![f] = t],
           t.size = file[f].size, t.sblk = file[f].sblk, t.mode = file[f].mode,
           t.ref = file[f].ref, t.p_index = file[f].p_index,
           t.pos <= t.size, t.cblk = NthIn(fat, t.sblk, t.pos \div Cb)
    PROVE  /\ FilesRight(fat', dir', file') /\ Laid(fat', data', overwritten', LiveIn(dir'), Views(dir', file'))
           /\ file'[f] = t /\ file' \in [Files -> File]
           /\ Holds(file', f)
  <1>. DEFINE x == file[f].p_index
              s == file[f].sblk
              z == file[f].size
  <1>1. /\ x \in LiveIn(dir)
        /\ \A g \in Files \ {f} : Holds(file, g) => file[g].p_index # x
        /\ Lies(fat, data, overwritten, x, s, z)
        /\ StartIn(dir, file, f, x) = s
        /\ file[f].mode = {} => s = dir[x].sblk /\ z = dir[x].size
    BY HeldFile
  <1>2. x \in Entries /\ s # Free /\ file \in [Files -> File] /\ file[f].ref > 0
    BY FileTypes DEF Holds
  <1>3. t.p_index = x /\ t.sblk = s /\ t.size = z /\ file[f].p_index = x /\ t.ref > 0 /\ t.mode = file[f].mode
    BY <1>2
  <1>. HIDE DEF x, s, z
  <1>4. file'[f] = t /\ (\A g \in Files : g # f => file'[g] = file[g]) /\ file' \in [Files -> File]
    BY <1>2
  <1>5. Holds(file', f)
    BY <1>2, <1>3, <1>4 DEF Holds
  <1>6. StartIn(dir', file', f, x) = s /\ SizeIn(dir', file', f, x) = z
    BY <1>3, <1>4, <1>5 DEF StartIn, SizeIn
  <1>7. FileRight(fat', dir', file', f, x)
    BY <1>1, <1>2, <1>3, <1>4 DEF FileRight
  <1>8. dir[x].sblk # Free
    BY <1>1 DEF FatInv, FilesRight
  <1>9. OneActs(fat, fat', data, data', overwritten, overwritten',
                dir, dir', file, file', f, x, ChainIn(fat, s))
    BY <1>1, <1>2, <1>3, <1>4, <1>6, <1>7, <1>8 DEF OneActs, SameUnits
  <1>10. FilesRight(fat, dir, file) /\ Laid(fat, data, overwritten, LiveIn(dir), Views(dir, file))
    BY DEF FatInv
  <1>. QED BY <1>2, <1>4, <1>5, <1>9, <1>10, InvStep

\* What is known while a read or write is in progress.
LEMMA CallFacts ==
    ASSUME FatInv, op.step # "idle", NEW f, f = op.f, NEW t, t = file[f]
    PROVE  /\ f \in Files /\ Holds(file, f) /\ op.left \in Nat \ {0} /\ op.inc \in Int
           /\ t \in File /\ t.pos \in Nat /\ t.size \in Nat /\ t.sblk \in Marks /\ t.cblk \in Marks
           /\ t.pos <= t.size
           /\ t.cblk = NthIn(fat, t.sblk, t.pos \div Cb)
           /\ op.writing => t.mode # {}
           /\ Part(t) = PartOf(t, op.left)
           /\ op \in Call
  <1>1. /\ f \in Files /\ Holds(file, f) /\ op.left > 0
        /\ op.writing => t.mode # {}
    BY DEF FatInv, CallRight
  <1>2. op \in Call /\ op.left \in Nat /\ op.inc \in Int
    BY DEF FatInv, Typed, Call
  <1>3. t \in File /\ t.pos \in Nat /\ t.size \in Nat /\ t.sblk \in Marks /\ t.cblk \in Marks
    BY <1>1, FileTypes DEF Marks
  <1>4. t.pos <= t.size /\ t.cblk = NthIn(fat, t.sblk, t.pos \div Cb)
    BY <1>1, HeldFile
  <1>. QED BY <1>1, <1>2, <1>3, <1>4 DEF Part, PartOf

LEMMA MovedFacts ==
    ASSUME FatInv, op.step # "idle", NEW u \in File, u.pos = file[op.f].pos, u.sblk = file[op.f].sblk,
           u.cblk = file[op.f].cblk
    PROVE  /\ Moved(u) \in File
           /\ Moved(u).pos = u.pos + PartOf(u, op.left)
           /\ Moved(u).cblk = NthIn(fat, u.sblk, Moved(u).pos \div Cb)
           /\ Moved(u).cblk = IF AtBoundary(u) THEN NextIn(fat, u.cblk) ELSE u.cblk
           /\ Moved(u).size = u.size /\ Moved(u).sblk = u.sblk /\ Moved(u).mode = u.mode
           /\ Moved(u).ref = u.ref /\ Moved(u).p_index = u.p_index
           /\ AtBoundary(u) <=> (u.pos % Cb) + PartOf(u, op.left) = Cb
  <1>. DEFINE copied == PartOf(u, op.left)
              c == IF AtBoundary(u) THEN NextIn(fat, u.cblk) ELSE u.cblk
              q == u.pos + copied
  <1>1. /\ op.left \in Nat \ {0} /\ u.pos \in Nat /\ u.cblk \in Marks /\ op.f \in Files
        /\ u.cblk = NthIn(fat, u.sblk, u.pos \div Cb)
    BY CallFacts
  <1>2. Part(u) = copied
    BY DEF Part, PartOf
  <1>3. copied \in Nat \ {0} /\ (u.pos % Cb) + copied <= Cb /\ u.pos % Cb \in 0 .. Cb - 1 /\ Cb \in Nat
    BY <1>1, PartFacts, FatAssumption
  <1>4. Moved(u) = [u EXCEPT !.pos = q, !.cblk = c]
    BY <1>2, AsInTable DEF Moved
  <1>5. AtBoundary(u) <=> (u.pos % Cb) + copied >= Cb
    BY <1>2 DEF AtBoundary
  <1>6. c = NthIn(fat, u.sblk, q \div Cb)
    <2>1. copied \in Nat
      BY <1>3
    <2>. DEFINE s == u.sblk
                z == u.pos
    <2>2. z \in Nat /\ (z % Cb) + copied <= Cb
      BY <1>1, <1>3
    <2>. HIDE DEF copied, s, z
    <2>5. /\ (z % Cb) + copied >= Cb =>
              NextIn(fat, NthIn(fat, s, z \div Cb)) = NthIn(fat, s, (z + copied) \div Cb)
          /\ ~ ((z % Cb) + copied >= Cb) =>
              NthIn(fat, s, z \div Cb) = NthIn(fat, s, (z + copied) \div Cb)
      BY <2>1, <2>2, Follows
    <2>6. /\ AtBoundary(u) <=> (z % Cb) + copied >= Cb
          /\ q = z + copied /\ u.cblk = NthIn(fat, s, z \div Cb)
      BY <1>1, <1>5 DEF s, z
    <2>. HIDE DEF q
    <2>3. CASE AtBoundary(u)
      BY <2>3, <2>5, <2>6 DEF s
    <2>4. CASE ~AtBoundary(u)
      BY <2>4, <2>5, <2>6 DEF s
    <2>. QED BY <2>3, <2>4
  <1>7. c \in Clusters \cup {Free, Invalid, HostEnd}
    <2>1. fat \in [Clusters -> Marks]
      BY <1>1, FileTypes
    <2>2. NextIn(fat, u.cblk) \in Marks
      BY <2>1, NextType
    <2>. QED BY <2>2, <1>1 DEF Marks
  <1>8. q \in Nat
    BY <1>1, <1>3
  <1>9. (u.pos % Cb) + copied >= Cb <=> (u.pos % Cb) + copied = Cb
    BY <1>3
  <1>10. c = IF AtBoundary(u) THEN NextIn(fat, u.cblk) ELSE u.cblk
    OBVIOUS
  <1>11. q = u.pos + copied
    OBVIOUS
  <1>. HIDE DEF c, q
  <1>12. Moved(u) \in File
    BY <1>4, <1>7, <1>8 DEF File
  <1>13. /\ Moved(u).pos = q /\ Moved(u).cblk = c
         /\ Moved(u).size = u.size /\ Moved(u).sblk = u.sblk /\ Moved(u).mode = u.mode
         /\ Moved(u).ref = u.ref /\ Moved(u).p_index = u.p_index
    BY <1>4 DEF File
  <1>. QED BY <1>5, <1>6, <1>9, <1>10, <1>11, <1>12, <1>13

\* What follows a round of the loop.
LEMMA RoundEnds ==
    ASSUME FatInv, op.step # "idle", NEW f, f = op.f, NEW t, t = file[f]
    PROVE  /\ NextRound \in Call
           /\ PartOf(t, op.left) <= op.left
           /\ NextRound.step # "idle" =>
                /\ NextRound.step = "copy" /\ NextRound.f = f /\ NextRound.writing = op.writing
                /\ NextRound.left = op.left - PartOf(t, op.left)
                /\ NextRound.left > 0
                /\ PartOf(t, op.left) # op.left
                /\ (t.pos % Cb) + PartOf(t, op.left) = Cb
                /\ ~ ((t.pos % Cb) + op.left < Cb)
  <1>. DEFINE copied == PartOf(t, op.left)
              left == op.left - copied
  <1>1. op.left \in Nat \ {0} /\ t.pos \in Nat /\ Part(t) = copied /\ op \in Call
    BY CallFacts
  <1>2. copied \in Nat \ {0} /\ copied <= op.left
        /\ (copied # op.left => (t.pos % Cb) + copied = Cb) /\ t.pos % Cb \in 0 .. Cb - 1
    BY <1>1, PartFacts
  <1>3. left \in Nat
    BY <1>1, <1>2
  <1>4. NextRound = IF left = 0 THEN NoOp ELSE [op EXCEPT !.step = "copy", !.left = left]
    BY <1>1 DEF NextRound
  <1>5. NoOp \in Call /\ NoOp.step = "idle"
    BY DEF NoOp, Call
  <1>. DEFINE r == [op EXCEPT !.step = "copy", !.left = left]
  <1>6. r \in Call /\ r.step = "copy" /\ r.f = f /\ r.writing = op.writing /\ r.left = left
    BY <1>1, <1>3 DEF Call
  <1>7. left = op.left - copied
    OBVIOUS
  <1>. HIDE DEF left, r
  <1>8. NextRound = IF left = 0 THEN NoOp ELSE r
    BY <1>4 DEF r
  <1>9. left # 0 => left > 0 /\ copied # op.left /\ ~ ((t.pos % Cb) + op.left < Cb)
    <2>. HIDE DEF copied
    <2>1. Cb \in Nat /\ t.pos % Cb \in Nat /\ copied \in Nat /\ op.left \in Nat
      BY <1>1, <1>2, FatAssumption
    <2>. QED BY <2>1, <1>2, <1>3, <1>7
  <1>. QED BY <1>2, <1>5, <1>6, <1>7, <1>8, <1>9

LEMMA CopyRead ==
    ASSUME FatInv, copy_read
    PROVE  FatInv'
  <1>. DEFINE f == op.f
              t == file[f]
              copied == PartOf(t, op.left)
              u == Moved(t)
  <1>1. /\ op.step = "copy" /\ ~op.writing /\ op' = NextRound /\ UNCHANGED <<fat, dir, data, overwritten>>
        /\ op.step # "idle"
    BY DEF copy_read
  <1>2. /\ f \in Files /\ Holds(file, f) /\ op.left \in Nat \ {0}
        /\ t \in File /\ t.pos \in Nat /\ t.size \in Nat
    BY <1>1, CallFacts
  <1>3. file' = [file EXCEPT ![f] = u]
    <2>1. file \in [Files -> File]
      BY <1>2, FileTypes
    <2>. QED BY <2>1, <1>2 DEF copy_read
  <1>4. t.pos + op.left <= t.size
    BY <1>1 DEF FatInv, CallRight
  <1>5. /\ u \in File /\ u.pos = t.pos + copied /\ u.cblk = NthIn(fat, t.sblk, u.pos \div Cb)
        /\ u.size = t.size /\ u.sblk = t.sblk /\ u.mode = t.mode /\ u.ref = t.ref /\ u.p_index = t.p_index
    BY <1>1, <1>2, MovedFacts
  <1>6. /\ NextRound \in Call /\ copied <= op.left
        /\ NextRound.step # "idle" => /\ NextRound.step = "copy" /\ NextRound.f = f /\ ~NextRound.writing
                                      /\ NextRound.left = op.left - copied /\ NextRound.left > 0
    BY <1>1, RoundEnds
  <1>7. copied \in Nat
    BY <1>2, PartFacts
  <1>8. u.pos <= u.size /\ (op.left - copied > 0 => u.pos + (op.left - copied) <= u.size)
    BY <1>2, <1>4, <1>5, <1>6, <1>7
  <1>. HIDE DEF u, t, copied, f
  <1>9. /\ FilesRight(fat', dir', file') /\ Laid(fat', data', overwritten', LiveIn(dir'), Views(dir', file'))
        /\ file'[f] = u /\ file' \in [Files -> File]
        /\ Holds(file', f)
    <2>1. t = file[f]
      BY DEF t
    <2>. QED BY <2>1, <1>1, <1>2, <1>3, <1>5, <1>8, PosOnly
  <1>10. Typed(fat', dir', file', op')
    BY <1>1, <1>6, <1>9 DEF FatInv, Typed
  <1>11. CallRight(fat', overwritten', file', op')
    BY <1>1, <1>2, <1>6, <1>8, <1>9 DEF CallRight
  <1>. QED BY <1>9, <1>10, <1>11 DEF FatInv

LEMMA Move ==
    ASSUME FatInv, move
    PROVE  FatInv'
  <1>. DEFINE f == op.f
              t == file[f]
              copied == PartOf(t, op.left)
              u == Moved(t)
  <1>1. /\ op.step = "move" /\ op' = NextRound /\ UNCHANGED <<fat, dir, data, overwritten>>
        /\ op.step # "idle"
    BY DEF move
  <1>2. /\ f \in Files /\ Holds(file, f) /\ op.left \in Nat \ {0}
        /\ t \in File /\ t.pos \in Nat /\ t.size \in Nat /\ (op.writing => t.mode # {})
    BY <1>1, CallFacts
  <1>3. file' = [file EXCEPT ![f] = u]
    <2>1. file \in [Files -> File]
      BY <1>2, FileTypes
    <2>. QED BY <2>1, <1>2 DEF move
  <1>4. /\ op.writing
        /\ t.p_index \in overwritten => t.pos + copied <= t.size
        /\ t.p_index \notin overwritten =>
                /\ t.size = t.pos + copied /\ (t.pos % Cb) + copied = Cb /\ t.cblk \in Clusters
                /\ NextIn(fat, t.cblk) \in Clusters
                /\ NoHostEnd(fat, t.sblk)
    <2>1. /\ op.writing
          /\ t.p_index \in overwritten => Overwrites(t, op)
          /\ t.p_index \notin overwritten => Appends(fat, t, op)
      BY <1>1 DEF FatInv, CallRight
    <2>2. t.p_index \in overwritten => t.pos + copied <= t.size
      BY <1>1, <2>1 DEF Overwrites
    <2>3. t.p_index \notin overwritten =>
                /\ AtEdge(t, op.left)
                /\ NextIn(fat, t.cblk) \in Clusters
                /\ NoHostEnd(fat, t.sblk)
      BY <1>1, <2>1 DEF Appends
    <2>. QED BY <2>1, <2>2, <2>3 DEF AtEdge
  <1>5. /\ u \in File /\ u.pos = t.pos + copied /\ u.cblk = NthIn(fat, t.sblk, u.pos \div Cb)
        /\ u.size = t.size /\ u.sblk = t.sblk /\ u.mode = t.mode /\ u.ref = t.ref /\ u.p_index = t.p_index
        /\ t.p_index \notin overwritten => u.cblk = NextIn(fat, t.cblk)
    BY <1>1, <1>2, <1>4, MovedFacts
  <1>6. /\ NextRound \in Call
        /\ NextRound.step # "idle" => /\ NextRound.step = "copy" /\ NextRound.f = f
                                      /\ NextRound.writing = op.writing /\ NextRound.left > 0
    BY <1>1, RoundEnds
  <1>8. u.pos <= u.size /\ (t.p_index \notin overwritten => u.pos = u.size)
    BY <1>2, <1>4, <1>5
  <1>. HIDE DEF u, t, copied, f
  <1>9. /\ FilesRight(fat', dir', file') /\ Laid(fat', data', overwritten', LiveIn(dir'), Views(dir', file'))
        /\ file'[f] = u /\ file' \in [Files -> File]
        /\ Holds(file', f)
    <2>1. t = file[f]
      BY DEF t
    <2>. QED BY <2>1, <1>1, <1>2, <1>3, <1>5, <1>8, PosOnly
  <1>10. Typed(fat', dir', file', op')
    BY <1>1, <1>6, <1>9 DEF FatInv, Typed
  <1>11. CallRight(fat', overwritten', file', op')
    <2>. SUFFICES ASSUME NextRound.step # "idle" PROVE CallRight(fat', overwritten', file', op')
      BY <1>1 DEF CallRight
    <2>1. u.p_index \in overwritten' => Overwrites(file'[f], op')
      BY <1>1, <1>6, <1>9 DEF Overwrites
    <2>2. u.p_index \notin overwritten' => Appends(fat', file'[f], op')
      BY <1>1, <1>4, <1>5, <1>6, <1>8, <1>9 DEF Appends
    <2>. QED BY <1>1, <1>2, <1>4, <1>5, <1>6, <1>9, <2>1, <2>2 DEF CallRight
  <1>. QED BY <1>9, <1>10, <1>11 DEF FatInv

Extended(t, u, left) ==
    /\ u.size = t.size + PartOf(t, left) /\ u.sblk = t.sblk /\ u.mode = t.mode
    /\ u.ref = t.ref /\ u.p_index = t.p_index

\* A file that is written: its new units, and what else the step changes of its file_t.
LEMMA Longer ==
    ASSUME FatInv, op.step = "copy", op.writing,
           data' = Written(file[op.f]), UNCHANGED <<fat, dir, overwritten>>,
           NEW u \in File, file' = [file EXCEPT ![op.f] = u], Extended(file[op.f], u, op.left),
           u.pos <= u.size, u.cblk = NthIn(fat, u.sblk, u.pos \div Cb)
    PROVE  /\ FilesRight(fat', dir', file') /\ Laid(fat', data', overwritten', LiveIn(dir'), Views(dir', file'))
           /\ file'[op.f] = u /\ file' \in [Files -> File]
           /\ Holds(file', op.f)
           /\ file[op.f].cblk \in Clusters => /\ fat[file[op.f].cblk] # Free
                                             /\ file[op.f].cblk \in ChainIn(fat, file[op.f].sblk)
  <1>. USE DEF Extended
  <1>. DEFINE f == op.f
              t == file[f]
              x == t.p_index
              s == t.sblk
              z == t.size
              copied == PartOf(t, op.left)
  <1>1. /\ f \in Files /\ Holds(file, f) /\ op.left \in Nat \ {0} /\ t.mode # {}
        /\ t \in File /\ t.pos \in Nat /\ t.size \in Nat /\ Part(t) = copied
        /\ t.cblk = NthIn(fat, t.sblk, t.pos \div Cb)
    BY CallFacts
  <1>2. x \notin overwritten => t.pos = t.size /\ t.cblk \in Clusters
    BY DEF FatInv, CallRight, Appends
  <1>3. copied \in Nat \ {0} /\ (t.pos % Cb) + copied <= Cb
    BY <1>1, PartFacts
  <1>4. /\ x \in LiveIn(dir)
        /\ \A g \in Files \ {f} : Holds(file, g) => file[g].p_index # x
        /\ Lies(fat, data, overwritten, x, s, z)
        /\ StartIn(dir, file, f, x) = s
    BY <1>1, HeldFile
  <1>5. x \in Entries /\ s # Free /\ file \in [Files -> File] /\ t.ref > 0
    BY <1>1, FileTypes DEF Holds
  <1>6. \A y \in Clusters : \A o \in 0 .. Cb - 1 :
            data'[y][o] = IF y = t.cblk /\ o \in t.pos % Cb .. (t.pos % Cb) + copied - 1
                          THEN <<x, t.pos + o - (t.pos % Cb)>> ELSE data[y][o]
    BY <1>1 DEF Written
  <1>a. t.cblk \in Clusters => t.cblk \in ChainIn(fat, s) /\ fat[t.cblk] # Free
    <2>1. t.pos \div Cb \in Nat
      BY <1>1, DivMod
    <2>. HIDE DEF s, z, x
    <2>2. t.cblk = NthIn(fat, s, t.pos \div Cb)
      BY <1>1 DEF s
    <2>. QED BY <2>1, <2>2, <1>4, OnItsChain
  <1>7. Lies(fat, data', overwritten', x, s, z + copied)
    <2>1. CASE x \in overwritten
      <3>1. s \in Clusters /\ Sound(fat, data, x, s, 0)
        BY <2>1, <1>4 DEF Lies
      <3>2. Sound(fat, data', x, s, 0)
        BY <3>1, PathOnly
      <3>. QED BY <2>1, <3>1, <3>2 DEF Lies
    <2>2. CASE x \notin overwritten
      <3>. DEFINE b == t.cblk
      <3>1. /\ b \in Clusters /\ b = NthIn(fat, s, z \div Cb) /\ z \in Nat /\ copied \in Nat
            /\ (z % Cb) + copied <= Cb
        BY <2>2, <1>1, <1>2, <1>3
      <3>2. WrittenAt(data, data', x, z, b, copied)
        BY <2>2, <1>2, <1>6 DEF WrittenAt
      <3>3. Sound(fat, data, x, s, z)
        BY <2>2, <1>4 DEF Lies
      <3>. HIDE DEF b, s, z, x, copied
      <3>4. Sound(fat, data', x, s, z + copied)
        BY <3>1, <3>2, <3>3, WriteSound
      <3>. QED BY <2>2, <3>4 DEF Lies
    <2>. QED BY <2>1, <2>2
  <1>8. \A c \in Clusters : c \notin ChainIn(fat, s) => SameUnits(data, data', c)
    BY <1>6, <1>a DEF SameUnits
  <1>9. u.p_index = x /\ u.sblk = s /\ u.size = z + copied /\ file[f].p_index = x /\ u.ref > 0 /\ u.mode # {}
    BY <1>1, <1>5
  <1>. HIDE DEF x, s, z, copied
  <1>10. file'[f] = u /\ (\A g \in Files : g # f => file'[g] = file[g]) /\ file' \in [Files -> File]
    BY <1>1, <1>5
  <1>11. Holds(file', f)
    BY <1>5, <1>9, <1>10 DEF Holds
  <1>12. StartIn(dir', file', f, x) = s /\ SizeIn(dir', file', f, x) = z + copied
    BY <1>1, <1>9, <1>10, <1>11 DEF StartIn, SizeIn
  <1>13. FileRight(fat', dir', file', f, x)
    BY <1>4, <1>5, <1>9, <1>10 DEF FileRight
  <1>14. dir[x].sblk # Free
    BY <1>4 DEF FatInv, FilesRight
  <1>15. OneActs(fat, fat', data, data', overwritten, overwritten',
                 dir, dir', file, file', f, x, ChainIn(fat, s))
    BY <1>4, <1>7, <1>8, <1>9, <1>10, <1>12, <1>13, <1>14 DEF OneActs, SameUnits
  <1>16. FilesRight(fat, dir, file) /\ Laid(fat, data, overwritten, LiveIn(dir), Views(dir, file))
    BY DEF FatInv
  <1>. QED BY <1>5, <1>a, <1>10, <1>11, <1>15, <1>16, InvStep DEF s

LEMMA CopyWritten ==
    ASSUME FatInv, copy_written
    PROVE  FatInv'
  <1>. DEFINE f == op.f
              t == file[f]
              copied == PartOf(t, op.left)
              longer == [t EXCEPT !.size = SizeAfter(t)]
  <1>1. /\ op.step = "copy" /\ op.writing /\ op.step # "idle"
        /\ data' = Written(t) /\ UNCHANGED <<fat, dir, overwritten>>
    BY DEF copy_written
  <1>2. /\ f \in Files /\ Holds(file, f) /\ op.left \in Nat \ {0} /\ t.mode # {}
        /\ t \in File /\ t.pos \in Nat /\ t.size \in Nat /\ Part(t) = copied /\ op \in Call
        /\ t.cblk = NthIn(fat, t.sblk, t.pos \div Cb)
        /\ file \in [Files -> File]
    <2>1. f \in Files
      BY <1>1, CallFacts
    <2>. QED BY <1>1, <2>1, CallFacts, FileTypes
  <1>3. /\ t.pos <= t.size
        /\ t.p_index \notin overwritten =>
                /\ t.pos = t.size /\ t.cblk \in Clusters
                /\ NoHostEnd(fat, t.sblk) \/ (t.pos % Cb) + op.left < Cb
    <2>1. t.pos <= t.size
      BY <1>1, CallFacts
    <2>. QED BY <1>1, <2>1 DEF FatInv, CallRight, Appends
  <1>4. copied \in Nat \ {0} /\ (t.pos % Cb) + copied <= Cb
    BY <1>2, PartFacts
  <1>5. /\ longer \in File /\ longer.size = t.size + copied
        /\ longer.pos = t.pos /\ longer.sblk = t.sblk /\ longer.cblk = t.cblk /\ longer.mode = t.mode
        /\ longer.ref = t.ref /\ longer.p_index = t.p_index
    BY <1>2, <1>4 DEF SizeAfter, File
  <1>6. PartOf(longer, op.left) = copied /\ (AtBoundary(longer) <=> AtBoundary(t)) /\ (MustGrow(longer) <=> MustGrow(t))
    BY <1>5 DEF PartOf, AtBoundary, MustGrow, Part
  <1>7. NextIn(fat, t.cblk) \in Clusters \cup {Invalid, HostEnd} \/ fat[t.cblk] = Free
    <2>1. fat \in [Clusters -> Marks]
      BY <1>2, FileTypes
    <2>. QED BY <2>1 DEF NextIn, Marks
  <1>8. CASE /\ ~MustGrow(t)
             /\ file' = [file EXCEPT ![f] = Moved(longer)]
             /\ op' = NextRound
    <2>. DEFINE u == Moved(longer)
    <2>1. /\ u \in File /\ u.pos = t.pos + copied /\ u.cblk = NthIn(fat, t.sblk, u.pos \div Cb)
          /\ u.cblk = IF AtBoundary(longer) THEN NextIn(fat, t.cblk) ELSE t.cblk
          /\ u.size = t.size + copied /\ u.sblk = t.sblk /\ u.mode = t.mode /\ u.ref = t.ref /\ u.p_index = t.p_index
          /\ AtBoundary(longer) <=> (t.pos % Cb) + copied = Cb
      <3>1. /\ u \in File /\ u.pos = longer.pos + PartOf(longer, op.left)
            /\ u.cblk = NthIn(fat, longer.sblk, u.pos \div Cb)
            /\ u.cblk = IF AtBoundary(longer) THEN NextIn(fat, longer.cblk) ELSE longer.cblk
            /\ u.size = longer.size /\ u.sblk = longer.sblk /\ u.mode = longer.mode
            /\ u.ref = longer.ref /\ u.p_index = longer.p_index
            /\ AtBoundary(longer) <=> (longer.pos % Cb) + PartOf(longer, op.left) = Cb
        <4>1. longer \in File /\ longer.pos = file[op.f].pos /\ longer.sblk = file[op.f].sblk
              /\ longer.cblk = file[op.f].cblk
          BY <1>5
        <4>. HIDE DEF longer
        <4>. QED BY <4>1, <1>1, MovedFacts
      <3>. HIDE DEF u, longer, copied
      <3>. QED BY <3>1, <1>5, <1>6
    <2>2. u.pos <= u.size /\ (t.p_index \notin overwritten => u.pos = u.size)
      BY <2>1, <1>2, <1>3, <1>4
    <2>3. /\ NextRound \in Call
          /\ NextRound.step # "idle" =>
                /\ NextRound.step = "copy" /\ NextRound.f = f /\ NextRound.writing = op.writing
                /\ NextRound.left > 0
                /\ (t.pos % Cb) + copied = Cb
                /\ ~ ((t.pos % Cb) + op.left < Cb)
      BY <1>1, RoundEnds
    <2>4. file' = [file EXCEPT ![f] = u]
      BY <1>8
    <2>. HIDE DEF u, longer
    <2>5. /\ FilesRight(fat', dir', file') /\ Laid(fat', data', overwritten', LiveIn(dir'), Views(dir', file'))
          /\ file'[f] = u /\ file' \in [Files -> File]
          /\ Holds(file', f)
          /\ t.cblk \in Clusters => fat[t.cblk] # Free /\ t.cblk \in ChainIn(fat, t.sblk)
      <3>1. Extended(file[op.f], u, op.left) /\ u.cblk = NthIn(fat, u.sblk, u.pos \div Cb)
        BY <2>1 DEF Extended
      <3>. QED BY <3>1, <1>1, <2>1, <2>2, <2>4, Longer
    <2>6. NextRound.step # "idle" /\ t.p_index \notin overwritten =>
              u.cblk \in Clusters /\ NoHostEnd(fat, t.sblk)
      <3>. SUFFICES ASSUME NextRound.step # "idle", t.p_index \notin overwritten
                    PROVE  u.cblk \in Clusters /\ NoHostEnd(fat, t.sblk)
        OBVIOUS
      <3>1. NoHostEnd(fat, t.sblk)
        BY <2>3, <1>3
      <3>2. AtBoundary(longer) /\ AtBoundary(t)
        BY <2>1, <2>3, <1>6
      <3>3. NextIn(fat, t.cblk) # Invalid
        BY <3>2, <1>1, <1>8, AsInTable DEF MustGrow
      <3>4. NextIn(fat, t.cblk) # HostEnd
        BY <3>1, <2>5, <1>3 DEF NoHostEnd, NextIn
      <3>. QED BY <3>1, <3>2, <3>3, <3>4, <2>1, <2>5, <1>3, <1>7
    <2>7. Typed(fat', dir', file', op')
      BY <1>1, <1>8, <2>3, <2>5 DEF FatInv, Typed
    <2>8. CallRight(fat', overwritten', file', op')
      <3>. SUFFICES ASSUME NextRound.step # "idle" PROVE CallRight(fat', overwritten', file', op')
        BY <1>8 DEF CallRight
      <3>1. u.p_index \in overwritten' => Overwrites(file'[f], op')
        BY <1>1, <1>8, <2>3, <2>5 DEF Overwrites
      <3>2. u.p_index \notin overwritten' => Appends(fat', file'[f], op')
        BY <1>1, <1>8, <2>1, <2>2, <2>3, <2>5, <2>6 DEF Appends
      <3>. QED BY <1>1, <1>2, <1>8, <2>1, <2>3, <2>5, <3>1, <3>2 DEF CallRight
    <2>. QED BY <2>5, <2>7, <2>8 DEF FatInv
  <1>9. CASE /\ MustGrow(t)
             /\ file' = [file EXCEPT ![f] = longer]
             /\ op' = [op EXCEPT !.step = "expand", !.inc = Cb, !.then = "move"]
    <2>1. longer.pos <= longer.size
      BY <1>2, <1>3, <1>4, <1>5
    <2>. HIDE DEF longer
    <2>2. /\ FilesRight(fat', dir', file') /\ Laid(fat', data', overwritten', LiveIn(dir'), Views(dir', file'))
          /\ file'[f] = longer /\ file' \in [Files -> File]
          /\ Holds(file', f)
      <3>1. Extended(file[op.f], longer, op.left) /\ longer.cblk = NthIn(fat, longer.sblk, longer.pos \div Cb)
        BY <1>2, <1>5 DEF Extended
      <3>. QED BY <3>1, <1>1, <1>5, <1>9, <2>1, Longer
    <2>3. /\ op' \in Call /\ op'.step = "expand" /\ op'.f = f /\ op'.writing = op.writing
          /\ op'.left = op.left /\ op'.inc = Cb /\ op'.then = "move"
      <3>1. Cb \in Int
        BY FatAssumption
      <3>. QED BY <1>2, <1>9, <3>1 DEF Call
    <2>4. /\ longer.pos + PartOf(longer, op.left) <= longer.size
          /\ t.p_index \notin overwritten => AtEdge(longer, op.left)
      <3>1. (t.pos % Cb) + copied >= Cb
        BY <1>2, <1>9 DEF MustGrow, AtBoundary
      <3>2. (t.pos % Cb) + copied = Cb
        <4>1. t.pos \in Nat /\ Cb \in Nat
          BY <1>2, FatAssumption
        <4>2. t.pos % Cb \in 0 .. Cb - 1
          BY <4>1, DivMod
        <4>. HIDE DEF copied, t
        <4>. QED BY <4>1, <4>2, <3>1, <1>4
      <3>3. longer.pos + PartOf(longer, op.left) <= longer.size
        BY <1>2, <1>3, <1>4, <1>5, <1>6
      <3>. QED BY <3>2, <3>3, <1>3, <1>5, <1>6 DEF AtEdge
    <2>5. Typed(fat', dir', file', op')
      BY <1>1, <2>2, <2>3 DEF FatInv, Typed
    <2>6. CallRight(fat', overwritten', file', op')
      <3>1. longer.p_index \in overwritten' => Overwrites(file'[f], op')
        BY <1>1, <2>2, <2>3, <2>4, FatAssumption DEF Overwrites
      <3>2. longer.p_index \notin overwritten' => Appends(fat', file'[f], op')
        BY <1>1, <1>5, <2>2, <2>3, <2>4 DEF Appends
      <3>. QED BY <1>1, <1>2, <1>5, <2>2, <2>3, <3>1, <3>2 DEF CallRight
    <2>. QED BY <2>2, <2>5, <2>6 DEF FatInv
  <1>. QED BY <1>8, <1>9 DEF copy_written

\* A file that continues with new clusters: its path, cut after the current cluster q and
\* continued with the linked ones.
Grown(F, F2, c, size, q, S, n) ==
    /\ size \in Nat /\ q \in Nat /\ n \in Nat /\ S \subseteq Clusters
    /\ size <= (q + 1) * Cb
    /\ S \subseteq FreeClusters(F) /\ n > 0 /\ Cardinality(S) = n
    /\ NthIn(F, c, q) \in Clusters
    /\ LinksOf(F2, S)
    /\ F2[NthIn(F, c, q)] = FirstOf(S)
    /\ \A y \in Clusters \ S : y # NthIn(F, c, q) => F2[y] = F[y]

\* Appending free clusters at a file's last cluster leaves it sound.
LEMMA GrownSound ==
    ASSUME NEW F, NEW F2, NEW D, NEW x, NEW c, NEW size, NEW q, NEW S, NEW n,
           Sound(F, D, x, c, size), Grown(F, F2, c, size, q, S, n)
    PROVE  /\ Sound(F2, D, x, c, size)
           /\ ChainIn(F2, c) \subseteq ChainIn(F, c) \cup S
           /\ NthIn(F2, c, q) = NthIn(F, c, q)
           /\ NoHostEnd(F2, c)
           /\ FirstOf(S) \in Clusters
           /\ NthIn(F, c, q) \in ChainIn(F, c)
  <1>. USE DEF Grown
  <1>1. PICK p, m : OnPath(F, D, x, c, size, p, m)
    BY DEF Sound
  <1>2. IsPath(F, p, m, c) /\ m \in Nat
    BY <1>1 DEF OnPath, IsPath
  <1>3. q \in 0 .. m - 1 /\ q < m
    BY <1>2, PathNth
  <1>4. NthIn(F, c, q) = p[q]
    BY <1>2, <1>3, PathNth
  <1>5. PICK e : /\ IsPath(F2, e, n, FirstOf(S)) /\ On(e, n) = S
                 /\ \A y \in S : F2[y] \in S \cup {Invalid}
                 /\ FirstOf(S) \in S
    BY LinkedPath
  <1>6. On(p, m) = ChainIn(F, c) /\ On(p, m) \subseteq Clusters /\ \A y \in On(p, m) : F[y] # Free
    BY <1>2, PathChain
  <1>7. On(p, m) \cap On(e, n) = {}
    BY <1>5, <1>6 DEF FreeClusters
  <1>8. \A k \in 0 .. m - 1 : k < q => F2[p[k]] = F[p[k]]
    <2>. SUFFICES ASSUME NEW k \in 0 .. m - 1, k < q PROVE F2[p[k]] = F[p[k]]
      OBVIOUS
    <2>1. p[k] # p[q]
      BY <1>2, <1>3 DEF IsPath
    <2>2. p[k] \in Clusters /\ p[k] \notin S
      BY <1>5, <1>6, <1>7 DEF On
    <2>. QED BY <2>1, <2>2, <1>4
  <1>9. F2[p[q]] = FirstOf(S)
    BY <1>4
  <1>. DEFINE r == [k \in 0 .. q + n |-> IF k <= q THEN p[k] ELSE e[k - q - 1]]
              w == q + 1 + n
  <1>10. IsPath(F2, r, w, c)
    <2>. DEFINE d == FirstOf(S)
    <2>1. IsPath(F2, e, n, d) /\ F2[p[q]] = d
      BY <1>5, <1>9
    <2>2. r = [k \in 0 .. q + n |-> IF k <= q THEN p[k] ELSE e[k - q - 1]]
      OBVIOUS
    <2>. HIDE DEF d, r
    <2>3. Joins(F, F2, p, m, q, e, n, d, r)
      BY <1>7, <1>8, <2>1, <2>2 DEF Joins
    <2>4. IsPath(F2, r, q + 1 + n, c)
      BY <1>2, <1>3, <2>1, <2>3, PathAppend
    <2>. QED BY <2>4
  <1>11. \A k \in 0 .. q + n : /\ k <= q => r[k] = p[k] /\ k \in 0 .. m - 1
                               /\ k > q => r[k] = e[k - q - 1] /\ k - q - 1 \in 0 .. n - 1
    BY <1>2, <1>3
  <1>12. w \in Nat /\ w - 1 = q + n /\ q < w /\ q \in 0 .. w - 1 /\ q \in 0 .. q + n
    OBVIOUS
  <1>. HIDE DEF r
  <1>13. \A k \in 0 .. w - 1 : k \in 0 .. q + n
    BY <1>12
  <1>. HIDE DEF w
  <1>14. NthIn(F2, c, q) = NthIn(F, c, q)
    BY <1>4, <1>10, <1>11, <1>12, PathNth
  <1>15. ASSUME NEW k \in 0 .. w - 1
         PROVE  r[k] \in ChainIn(F, c) \cup S /\ F2[r[k]] # HostEnd
    <2>0. k \in 0 .. q + n /\ HostEnd \notin Clusters /\ Invalid # HostEnd
      BY <1>13, MarksOutside, FatAssumption DEF Invalid, HostEnd
    <2>1. CASE k < q
      <3>1. k \in 0 .. m - 1 /\ r[k] = p[k] /\ F2[p[k]] = F[p[k]] /\ k + 1 < m /\ k + 1 \in 0 .. m - 1
        BY <2>0, <2>1, <1>2, <1>3, <1>8, <1>11
      <3>2. F[p[k]] = p[k + 1] /\ p[k + 1] \in Clusters
        BY <3>1, <1>2 DEF IsPath
      <3>. QED BY <3>1, <3>2, <2>0, <1>6 DEF On
    <2>2. CASE k = q
      BY <2>0, <2>2, <1>3, <1>5, <1>6, <1>9, <1>11 DEF On
    <2>3. CASE k > q
      <3>1. r[k] \in S
        BY <2>0, <2>3, <1>5, <1>11 DEF On
      <3>. QED BY <3>1, <2>0, <1>5
    <2>. QED BY <2>1, <2>2, <2>3, <2>0
  <1>16. ChainIn(F2, c) = On(r, w)
    BY <1>10, PathChain
  <1>17. ChainIn(F2, c) \subseteq ChainIn(F, c) \cup S /\ NoHostEnd(F2, c)
    BY <1>15, <1>16 DEF On, NoHostEnd
  <1>18. size <= w * Cb /\ q * Cb \in Nat /\ (q + 1) * Cb \in Nat
    <2>1. q + 1 \in Nat /\ q + 1 <= w
      BY DEF w
    <2>2. (q + 1) * Cb <= w * Cb /\ (q + 1) * Cb \in Nat /\ w * Cb \in Nat /\ q * Cb \in Nat
      BY <2>1, <1>12, Products
    <2>. QED BY <2>2
  <1>19. ASSUME NEW k \in 0 .. w - 1, NEW o \in 0 .. Cb - 1, k * Cb + o < size
         PROVE  D[r[k]][o] = <<x, k * Cb + o>>
    <2>1. k \in 0 .. q + n /\ k \in Nat /\ o \in Nat
      BY <1>13
    <2>2. k <= q
      <3>1. k > q => (q + 1) * Cb <= k * Cb /\ k * Cb \in Nat
        <4>1. k > q => q + 1 <= k /\ q + 1 \in Nat
          BY <2>1
        <4>. QED BY <4>1, <2>1, Products
      <3>2. k * Cb \in Nat
        BY <2>1, Products
      <3>. QED BY <3>1, <3>2, <2>1, <1>18, <1>19
    <2>3. r[k] = p[k] /\ k \in 0 .. m - 1
      BY <2>1, <2>2, <1>11
    <2>. QED BY <2>3, <1>1, <1>19 DEF OnPath
  <1>20. OnPath(F2, D, x, c, size, r, w)
    BY <1>10, <1>18, <1>19 DEF OnPath
  <1>21. p[q] \in ChainIn(F, c)
    BY <1>3, <1>6 DEF On
  <1>. QED BY <1>4, <1>5, <1>14, <1>17, <1>20, <1>21 DEF Sound

\* The clusters expand_file takes for itself, when there are enough.
LEMMA TakenFacts ==
    ASSUME FatInv, NEW n \in Nat, n > 0, n <= Cardinality({c \in Clusters : IsFree(c)})
    PROVE  /\ Lowest(n) \in SUBSET Clusters /\ Lowest(n) \subseteq FreeClusters(fat)
           /\ Cardinality(Lowest(n)) = n
           /\ LinksOf(Link(Lowest(n)), Lowest(n))
           /\ \A c \in Clusters \ Lowest(n) : Link(Lowest(n))[c] = fat[c]
           /\ Link(Lowest(n)) \in [Clusters -> Clusters \cup {Free, Invalid, HostEnd}]
           /\ FirstOf(Lowest(n)) \in Lowest(n)
  <1>. DEFINE S == Lowest(n)
  <1>1. S \subseteq FreeClusters(fat) /\ Cardinality(S) = n
    BY LowestFree
  <1>2. S \in SUBSET Clusters
    BY <1>1 DEF FreeClusters
  <1>. HIDE DEF S
  <1>3. /\ \A c \in Clusters \ S : Link(S)[c] = fat[c]
        /\ LinksOf(Link(S), S)
        /\ Link(S) \in [Clusters -> Clusters \cup {Free, Invalid, HostEnd}]
    BY <1>2, LinkFacts
  <1>4. FirstOf(S) \in S
    <2>1. S # {}
      BY <1>1, FS_EmptySet
    <2>. QED BY <2>1, <1>2, MarksOutside, FirstIsFirst
  <1>. QED BY <1>1, <1>2, <1>3, <1>4 DEF S

LEMMA Expand ==
    ASSUME FatInv, expand_file
    PROVE  FatInv'
  <1>. DEFINE f == op.f
              t == file[f]
              n == Needed(t.size, op.inc)
              S == Lowest(n)
              Enough == n <= Cardinality({c \in Clusters : IsFree(c)})
              after == [op EXCEPT !.step = op.then, !.inc = 0]
              q == t.pos \div Cb
  <1>1. op.step = "expand" /\ op.step # "idle" /\ UNCHANGED <<dir, data, overwritten>>
    BY DEF expand_file
  <1>2. /\ f \in Files /\ Holds(file, f) /\ op.left \in Nat \ {0} /\ op.inc \in Int /\ t.mode # {}
        /\ t \in File /\ t.pos \in Nat /\ t.size \in Nat /\ op \in Call /\ op.writing
        /\ t.cblk = NthIn(fat, t.sblk, q) /\ t.pos <= t.size
        /\ file \in [Files -> File]
    <2>1. f \in Files /\ op.writing
      BY <1>1, CallFacts DEF FatInv, CallRight
    <2>. QED BY <1>1, <2>1, CallFacts, FileTypes
  <1>. DEFINE torn == t.p_index \in overwritten
              fits == op.then = "move" => t.pos + PartOf(t, op.left) <= t.size
  <1>3. /\ torn => op.inc > 0 /\ op.then \in {"copy", "move"} /\ fits
        /\ ~torn => \/ op.then = "copy" /\ t.pos = t.size /\ op.inc = op.left
                    \/ op.then = "move" /\ AtEdge(t, op.left) /\ op.inc = Cb
    <2>1. (torn => Overwrites(t, op)) /\ (~torn => Appends(fat, t, op))
      BY <1>1 DEF FatInv, CallRight
    <2>2. torn => op.inc > 0 /\ op.then \in {"copy", "move"} /\ fits
      BY <1>1, <2>1 DEF Overwrites
    <2>. QED BY <1>1, <2>1, <2>2 DEF Appends
  <1>. HIDE DEF torn, fits
  <1>4. op.inc \in Nat \ {0}
    <2>1. op.inc > 0
      <3>1. Cb > 0 /\ op.left > 0
        BY <1>2, FatAssumption
      <3>. HIDE DEF f, t
      <3>. QED BY <1>3, <3>1
    <2>. QED BY <1>2, <2>1
  <1>5. /\ n \in Nat
        /\ n = 0 => t.size % Cb # 0 /\ (t.size % Cb) + op.inc < Cb
    BY <1>2, <1>4, NeededFacts
  <1>6. /\ after \in Call /\ after.step = op.then /\ after.f = f /\ after.writing = op.writing /\ after.left = op.left
    <2>1. op.then \in {"copy", "move"}
      <3>. HIDE DEF f, t
      <3>. QED BY <1>3
    <2>2. op \in Call /\ 0 \in Int
      BY <1>2
    <2>. QED BY <2>1, <2>2 DEF Call
  <1>7. q \in Nat /\ t.pos = q * Cb + (t.pos % Cb) /\ t.pos % Cb \in 0 .. Cb - 1
        /\ t.pos < q * Cb + Cb /\ Cb \in Nat \ {0} /\ q * Cb \in Nat /\ (q + 1) * Cb = q * Cb + Cb
    BY <1>2, DivMod, FatAssumption, Products
  <1>8. ~torn /\ op.then = "move" => t.size = (q + 1) * Cb /\ t.size % Cb = 0 /\ t.cblk \in Clusters
    <2>. SUFFICES ASSUME ~torn, op.then = "move"
                  PROVE  t.size = (q + 1) * Cb /\ t.size % Cb = 0 /\ t.cblk \in Clusters
      OBVIOUS
    <2>. DEFINE copied == PartOf(t, op.left)
    <2>1. t.size = t.pos + copied /\ (t.pos % Cb) + copied = Cb /\ t.cblk \in Clusters
      BY <1>3 DEF AtEdge
    <2>2. copied \in Nat
      BY <1>2, PartFacts
    <2>3. t.pos + copied = ((t.pos \div Cb) + 1) * Cb /\ (t.pos + copied) % Cb = 0
      BY <1>2, <2>1, <2>2, EdgeReached
    <2>. QED BY <2>1, <2>3
  <1>9. ~torn => t.size <= (q + 1) * Cb
    <2>1. ~torn /\ op.then = "copy" => t.size < (q + 1) * Cb
      BY <1>3, <1>7
    <2>. HIDE DEF q
    <2>. QED BY <2>1, <1>2, <1>3, <1>7, <1>8
  <1>10. /\ FilesRight(fat, dir, file) /\ Laid(fat, data, overwritten, LiveIn(dir), Views(dir, file))
         /\ Typed(fat, dir, file, op) /\ fat \in [Clusters -> Clusters \cup {Free, Invalid, HostEnd}]
    BY DEF FatInv, Typed
  <1>. DEFINE x == t.p_index
              s == t.sblk
              z == t.size
  <1>11. /\ x \in LiveIn(dir)
         /\ \A g \in Files \ {f} : Holds(file, g) => file[g].p_index # x
         /\ Lies(fat, data, overwritten, x, s, z)
         /\ StartIn(dir, file, f, x) = s /\ SizeIn(dir, file, f, x) = z
         /\ x \in Entries /\ s # Free /\ s \in Clusters \cup {Free, Invalid} /\ t.ref > 0
    BY <1>2, HeldFile, FileTypes DEF Holds
  <1>12. dir[x].sblk # Free
    BY <1>10, <1>11 DEF FilesRight
  <1>13. NoOp \in Call /\ NoOp.step = "idle"
    BY DEF NoOp, Call
  <1>14. cluster_is_valid(t.sblk) <=> s \in Clusters
    BY DEF cluster_is_valid
  <1>20. torn <=> x \in overwritten
    BY DEF torn
  <1>21. (torn => s \in Clusters /\ Sound(fat, data, x, s, 0)) /\ (~torn => Sound(fat, data, x, s, z))
    BY <1>11, <1>20 DEF Lies
  <1>. HIDE DEF after, n
  <1>15. CASE n = 0 /\ op' = after /\ UNCHANGED <<fat, file>>
    <2>1. Typed(fat', dir', file', op')
      BY <1>1, <1>6, <1>10, <1>15 DEF Typed
    <2>2. ASSUME ~torn PROVE CallRight(fat', overwritten', file', op')
      <3>1. op.then = "copy" /\ t.pos = z /\ op.inc = op.left /\ z % Cb # 0 /\ (z % Cb) + op.left < Cb
        BY <1>3, <1>5, <1>8, <1>15, <2>2
      <3>2. t.cblk \in Clusters
        <4>1. PICK p, m : OnPath(fat, data, x, s, z, p, m)
          BY <1>21, <2>2 DEF Sound
        <4>2. IsPath(fat, p, m, s) /\ m \in Nat /\ z <= m * Cb
          BY <4>1 DEF OnPath, IsPath
        <4>3. q < m
          <5>1. m <= q => m * Cb <= q * Cb /\ m * Cb \in Nat
            BY <4>2, <1>7, Products
          <5>2. q * Cb < z
            <6>. HIDE DEF q
            <6>. QED BY <3>1, <1>7
          <5>. HIDE DEF q
          <5>. QED BY <5>1, <5>2, <4>2, <1>2, <1>7
        <4>. HIDE DEF q, s
        <4>4. q \in 0 .. m - 1
          BY <4>2, <4>3, <1>7
        <4>5. NthIn(fat, s, q) = p[q]
          BY <4>2, <4>4, PathNth
        <4>6. p[q] \in Clusters
          BY <4>2, <4>4 DEF IsPath
        <4>. QED BY <4>5, <4>6, <1>2 DEF s
      <3>3. /\ op'.step = "copy" /\ op'.f = f /\ op'.writing /\ op'.left = op.left /\ file'[f] = t
            /\ Holds(file', f)
        BY <1>2, <1>6, <1>15, <3>1
      <3>4. t.pos = t.size /\ (t.pos % Cb) + op.left < Cb
        BY <3>1
      <3>5. CallRight(fat', overwritten', file', op')
        <4>1. t.p_index \notin overwritten'
          BY <1>1, <2>2 DEF torn
        <4>. HIDE DEF f, t
        <4>2. Appends(fat', t, op')
          BY <3>2, <3>3, <3>4 DEF Appends
        <4>. QED BY <1>2, <3>3, <4>1, <4>2 DEF CallRight
      <3>. QED BY <3>5
    <2>3. ASSUME torn PROVE CallRight(fat', overwritten', file', op')
      <3>1. op'.step = op.then /\ op'.f = f /\ op'.writing /\ op'.left = op.left /\ file'[f] = t /\ Holds(file', f)
        BY <1>2, <1>6, <1>15
      <3>2. Overwrites(t, op')
        BY <1>3, <2>3, <3>1 DEF Overwrites, fits
      <3>3. t.p_index \in overwritten'
        BY <1>1, <2>3 DEF torn
      <3>4. op.then \in {"copy", "move"}
        BY <1>3, <2>3
      <3>. HIDE DEF f, t
      <3>. QED BY <1>2, <3>1, <3>2, <3>3, <3>4 DEF CallRight
    <2>4. /\ FilesRight(fat', dir', file')
          /\ Laid(fat', data', overwritten', LiveIn(dir'), Views(dir', file'))
      BY <1>1, <1>10, <1>15
    <2>. QED BY <2>1, <2>2, <2>3, <2>4 DEF FatInv
  <1>16. CASE /\ n > 0 /\ Enough /\ ~cluster_is_valid(t.sblk)
              /\ fat' = Link(S)
              /\ file' = [file EXCEPT ![f].sblk = FirstOf(S), ![f].cblk = FirstOf(S)]
              /\ op' = after
    <2>. DEFINE first == FirstOf(S)
                u == [t EXCEPT !.sblk = first, !.cblk = first]
    <2>1. /\ S \in SUBSET Clusters /\ S \subseteq FreeClusters(fat) /\ Cardinality(S) = n
          /\ LinksOf(fat', S)
          /\ \A c \in Clusters \ S : fat'[c] = fat[c]
          /\ fat' \in [Clusters -> Clusters \cup {Free, Invalid, HostEnd}]
          /\ first \in S
      BY <1>5, <1>16, TakenFacts
    <2>. HIDE DEF S
    <2>2. PICK e : /\ IsPath(fat', e, n, first)
                   /\ On(e, n) = S
                   /\ \A c \in S : fat'[c] \in S \cup {Invalid}
      BY <2>1, <1>5, <1>16, LinkedPath
    <2>0. ~torn /\ x \notin overwritten'
      BY <1>1, <1>14, <1>16, <1>20, <1>21
    <2>3. z = 0 /\ t.pos = 0 /\ ~ (t.cblk \in Clusters)
      <3>1. PICK p, m : OnPath(fat, data, x, s, z, p, m)
        BY <1>21, <2>0 DEF Sound
      <3>2. IsPath(fat, p, m, s) /\ m \in Nat /\ z <= m * Cb
        BY <3>1 DEF OnPath, IsPath
      <3>3. m = 0
        <4>1. m # 0 => 0 \in 0 .. m - 1 /\ p[0] = s /\ p[0] \in Clusters
          BY <3>2 DEF IsPath
        <4>. QED BY <4>1, <1>14, <1>16
      <3>. HIDE DEF q
      <3>4. NthIn(fat, s, q) \notin Clusters
        BY <3>2, <3>3, <1>7, PathNth
      <3>. QED BY <3>2, <3>3, <3>4, <1>2, <1>7
    <2>4. op.then = "copy" /\ t.pos = z
      BY <1>3, <1>8, <2>0, <2>3
    <2>5. /\ u \in File /\ u.sblk = first /\ u.cblk = first /\ u.size = 0 /\ u.pos = 0
          /\ u.mode = t.mode /\ u.ref = t.ref /\ u.p_index = x
      BY <1>2, <2>1, <2>3 DEF File
    <2>. HIDE DEF u
    <2>6. file' = [file EXCEPT ![f] = u]
      BY <1>2, <1>16 DEF u
    <2>7. file'[f] = u /\ (\A g \in Files : g # f => file'[g] = file[g]) /\ file' \in [Files -> File]
      BY <1>2, <2>5, <2>6
    <2>8. first \in Clusters /\ first # Free
      BY <2>1, MarksOutside
    <2>9. Holds(file', f) /\ file[f].p_index = x
      BY <2>5, <2>7, <2>8, <1>11 DEF Holds
    <2>10. ChainIn(fat', first) = S /\ NoHostEnd(fat', first)
      <3>1. ChainIn(fat', first) = S
        BY <2>2, PathChain
      <3>2. HostEnd \notin Clusters /\ HostEnd # Invalid
        BY MarksOutside, FatAssumption DEF HostEnd, Invalid
      <3>. QED BY <3>1, <3>2, <2>1, <2>2 DEF NoHostEnd
    <2>11. Lies(fat', data', overwritten', x, first, 0)
      <3>1. 0 <= n * Cb
        BY <1>5, Products
      <3>2. ASSUME NEW k \in 0 .. n - 1, NEW o \in 0 .. Cb - 1 PROVE ~ (k * Cb + o < 0)
        <4>1. k \in Nat /\ o \in Nat
          BY <1>5, <1>7
        <4>2. k * Cb \in Nat
          BY <4>1, Products
        <4>. QED BY <4>1, <4>2
      <3>3. OnPath(fat', data', x, first, 0, e, n)
        BY <3>1, <3>2, <2>2 DEF OnPath
      <3>. QED BY <3>3, <2>0 DEF Sound, Lies
    <2>12. StartIn(dir', file', f, x) = first /\ SizeIn(dir', file', f, x) = 0
      BY <1>2, <2>5, <2>7, <2>9 DEF StartIn, SizeIn
    <2>13. FileRight(fat', dir', file', f, x)
      <3>1. NthIn(fat', first, 0 \div Cb) = first
        BY ZeroDiv, NthRec
      <3>. QED BY <3>1, <1>1, <1>2, <1>11, <2>5, <2>7, <2>8 DEF FileRight, Holds
    <2>. HIDE DEF x, s, z, first
    <2>14. \A c \in Clusters : fat[c] # Free => fat'[c] = fat[c] /\ data'[c] = data[c]
      BY <1>1, <2>1 DEF FreeClusters
    <2>15. OneActs(fat, fat', data, data', overwritten, overwritten',
                   dir, dir', file, file', f, x, ChainIn(fat, s))
      BY <1>1, <1>2, <1>11, <1>12, <2>1, <2>7, <2>9, <2>10, <2>11, <2>12, <2>13, <2>14 DEF OneActs, SameUnits
    <2>16. /\ FilesRight(fat', dir', file')
           /\ Laid(fat', data', overwritten', LiveIn(dir'), Views(dir', file'))
      BY <1>2, <1>10, <2>15, InvStep
    <2>17. Typed(fat', dir', file', op')
      BY <1>1, <1>6, <1>10, <1>16, <2>1, <2>7 DEF Typed
    <2>a. /\ op'.step = "copy" /\ op'.f = f /\ op'.writing /\ op'.left = op.left
      BY <1>2, <1>6, <1>16, <2>4
    <2>b. u.pos = u.size /\ u.cblk \in Clusters /\ u.mode # {} /\ NoHostEnd(fat', u.sblk)
      BY <1>2, <2>5, <2>8, <2>10
    <2>18. CallRight(fat', overwritten', file', op')
      <3>1. u.p_index \notin overwritten'
        BY <2>0, <2>5
      <3>. HIDE DEF f, t
      <3>2. Appends(fat', u, op')
        BY <2>a, <2>b DEF Appends
      <3>. QED BY <1>2, <2>7, <2>9, <2>a, <2>b, <3>1, <3>2 DEF CallRight
    <2>. QED BY <2>16, <2>17, <2>18 DEF FatInv
  <1>17. CASE /\ n > 0 /\ Enough /\ cluster_is_valid(t.sblk) /\ cluster_is_valid(t.cblk)
              /\ fat' = [Link(S) EXCEPT ![t.cblk] = FirstOf(S)]
              /\ op' = after
              /\ UNCHANGED file
    <2>. DEFINE first == FirstOf(S)
                b == t.cblk
    <2>1. /\ S \in SUBSET Clusters /\ S \subseteq FreeClusters(fat) /\ Cardinality(S) = n
          /\ LinksOf(Link(S), S)
          /\ \A c \in Clusters \ S : Link(S)[c] = fat[c]
          /\ Link(S) \in [Clusters -> Clusters \cup {Free, Invalid, HostEnd}]
          /\ first \in S
      BY <1>5, <1>17, TakenFacts
    <2>2. b \in Clusters /\ b = NthIn(fat, s, q)
      BY <1>2, <1>17 DEF cluster_is_valid
    <2>3. b \in ChainIn(fat, s) /\ fat[b] # Free
      <3>. HIDE DEF b, q, s, x, z
      <3>. QED BY <1>7, <1>11, <2>2, OnItsChain
    <2>. HIDE DEF S, first
    <2>4. /\ fat'[b] = first /\ \A c \in Clusters : c # b => fat'[c] = Link(S)[c]
          /\ fat' \in [Clusters -> Clusters \cup {Free, Invalid, HostEnd}]
      BY <1>17, <2>1, <2>2 DEF first
    <2>5. b \notin S
      BY <2>1, <2>3 DEF FreeClusters
    <2>6. LinksOf(fat', S)
      BY <2>1, <2>4, <2>5 DEF LinksOf
    <2>. HIDE DEF b, x, s, z, q
    <2>. DEFINE counted == IF torn THEN 0 ELSE z
    <2>c. Sound(fat, data, x, s, counted)
      BY <1>21
    <2>7. Grown(fat, fat', s, counted, q, S, n)
      <3>0. 0 <= (q + 1) * Cb
        BY <1>7
      <3>1. counted <= (q + 1) * Cb /\ counted \in Nat /\ q \in Nat /\ n \in Nat
        BY <1>2, <1>5, <1>7, <1>9, <3>0 DEF z
      <3>. QED BY <3>1, <1>17, <2>1, <2>2, <2>4, <2>6 DEF Grown, first
    <2>8. /\ Lies(fat', data, overwritten', x, s, z)
          /\ ChainIn(fat', s) \subseteq ChainIn(fat, s) \cup S
          /\ NthIn(fat', s, q) = NthIn(fat, s, q)
          /\ NoHostEnd(fat', s)
          /\ FirstOf(S) \in Clusters
      <3>1. /\ Sound(fat', data, x, s, counted)
            /\ ChainIn(fat', s) \subseteq ChainIn(fat, s) \cup S
            /\ NthIn(fat', s, q) = NthIn(fat, s, q)
            /\ NoHostEnd(fat', s)
            /\ FirstOf(S) \in Clusters
        <4>. HIDE DEF counted
        <4>. QED BY <2>c, <2>7, GrownSound
      <3>2. Lies(fat', data, overwritten', x, s, z)
        BY <1>1, <1>20, <1>21, <3>1 DEF Lies
      <3>. QED BY <3>1, <3>2
    <2>. HIDE DEF counted
    <2>9. \A c \in Clusters : c \notin ChainIn(fat, s) /\ fat[c] # Free => fat'[c] = fat[c] /\ data'[c] = data[c]
      BY <1>1, <2>1, <2>3, <2>4 DEF FreeClusters
    <2>10. file[f].p_index = x /\ StartIn(dir', file', f, x) = s /\ SizeIn(dir', file', f, x) = z
      <3>1. file[f].p_index = x
        BY DEF x
      <3>. QED BY <3>1, <1>2, <1>17 DEF StartIn, SizeIn, s, z
    <2>11. FileRight(fat', dir', file', f, x)
      <3>1. /\ t.pos <= t.size
            /\ t.cblk = NthIn(fat', t.sblk, t.pos \div Cb)
        BY <1>2, <2>2, <2>8 DEF b, s, q
      <3>. QED BY <3>1, <1>1, <1>2, <1>11, <1>17, <2>10 DEF FileRight, s
    <2>12. OneActs(fat, fat', data, data', overwritten, overwritten',
                   dir, dir', file, file', f, x, ChainIn(fat, s))
      BY <1>1, <1>2, <1>11, <1>12, <1>17, <2>1, <2>8, <2>9, <2>10, <2>11 DEF OneActs, SameUnits
    <2>13. /\ FilesRight(fat', dir', file')
           /\ Laid(fat', data', overwritten', LiveIn(dir'), Views(dir', file'))
      BY <1>2, <1>10, <2>12, InvStep
    <2>14. Typed(fat', dir', file', op')
      BY <1>1, <1>6, <1>10, <1>17, <2>4 DEF Typed
    <2>15. NextIn(fat', t.cblk) \in Clusters /\ t.cblk \in Clusters /\ NoHostEnd(fat', t.sblk)
      BY <2>2, <2>4, <2>8 DEF NextIn, first, b, s
    <2>a. /\ op'.step = op.then /\ op'.f = f /\ op'.writing /\ op'.left = op.left /\ file'[f] = t
          /\ Holds(file', f)
      BY <1>2, <1>6, <1>17
    <2>16. CallRight(fat', overwritten', file', op')
      <3>1. torn <=> t.p_index \in overwritten'
        BY <1>1 DEF torn
      <3>. HIDE DEF f, t
      <3>2. op.then \in {"copy", "move"}
        BY <1>3
      <3>3. torn => Overwrites(t, op')
        BY <1>3, <2>a DEF Overwrites, fits
      <3>4. ~torn => Appends(fat', t, op')
        BY <1>3, <2>15, <2>a DEF Appends
      <3>. QED BY <1>2, <2>a, <3>1, <3>2, <3>3, <3>4 DEF CallRight
    <2>. QED BY <2>13, <2>14, <2>16 DEF FatInv
  <1>18. CASE /\ n > 0 /\ Enough /\ cluster_is_valid(t.sblk) /\ ~cluster_is_valid(t.cblk)
              /\ fat' = Link(S)
              /\ op' = NoOp
              /\ UNCHANGED file
    <2>1. /\ S \subseteq FreeClusters(fat)
          /\ \A c \in Clusters \ S : fat'[c] = fat[c]
          /\ fat' \in [Clusters -> Clusters \cup {Free, Invalid, HostEnd}]
      BY <1>5, <1>18, TakenFacts
    <2>2. \A c \in Clusters : fat[c] # Free => fat'[c] = fat[c] /\ data'[c] = data[c]
      BY <1>1, <2>1 DEF FreeClusters
    <2>3. NoFile \notin Files /\ -1 \notin Entries /\ LiveIn(dir) \subseteq Entries /\ LiveIn(dir') \subseteq Entries
          /\ \A g \in Files : file[g].p_index \in Entries
      BY FileTypes, FatAssumption DEF Entries, LiveIn
    <2>4. OneActs(fat, fat', data, data', overwritten, overwritten',
                  dir, dir', file, file', NoFile, -1, {})
      BY <1>1, <1>18, <2>2, <2>3 DEF OneActs, SameUnits
    <2>5. /\ FilesRight(fat', dir', file')
          /\ Laid(fat', data', overwritten', LiveIn(dir'), Views(dir', file'))
      BY <1>2, <1>10, <2>4, InvStep
    <2>6. Typed(fat', dir', file', op')
      BY <1>1, <1>10, <1>13, <1>18, <2>1 DEF Typed
    <2>7. CallRight(fat', overwritten', file', op')
      BY <1>13, <1>18 DEF CallRight
    <2>. QED BY <2>5, <2>6, <2>7 DEF FatInv
  <1>19. CASE ~Enough /\ op' = NoOp /\ UNCHANGED <<fat, file>>
    <2>1. Typed(fat', dir', file', op')
      BY <1>1, <1>10, <1>13, <1>19 DEF Typed
    <2>2. CallRight(fat', overwritten', file', op')
      BY <1>13, <1>19 DEF CallRight
    <2>3. /\ FilesRight(fat', dir', file')
          /\ Laid(fat', data', overwritten', LiveIn(dir'), Views(dir', file'))
      BY <1>1, <1>10, <1>19
    <2>. QED BY <1>1, <1>10, <1>19, <2>1, <2>2, <2>3 DEF FatInv
  <1>. QED BY <1>15, <1>16, <1>17, <1>18, <1>19 DEF expand_file, after, n


\* A call that is refused behind the chain leaves everything as it is.
LEMMA Refused ==
    ASSUME FatInv, copy_refused
    PROVE  FatInv'
  <1>1. op' = NoOp /\ UNCHANGED <<fat, dir, data, file, overwritten>>
    BY DEF copy_refused
  <1>2. NoOp \in Call /\ NoOp.step = "idle"
    BY DEF NoOp, Call
  <1>3. Typed(fat', dir', file', op')
    BY <1>1, <1>2 DEF FatInv, Typed
  <1>4. CallRight(fat', overwritten', file', op')
    BY <1>1, <1>2 DEF CallRight
  <1>5. /\ FilesRight(fat', dir', file')
        /\ Laid(fat', data', overwritten', LiveIn(dir'), Views(dir', file'))
    BY <1>1 DEF FatInv
  <1>. QED BY <1>3, <1>4, <1>5 DEF FatInv

\* The clusters for another system's file are in the table and hold it.
LEMMA UpFacts ==
    ASSUME NEW size \in HostSizes
    PROVE  /\ size \in Nat /\ Up(size) \in Nat /\ Up(size) <= LastCluster - 1
           /\ size <= Up(size) * Cb
  <1>1. Cb \in Nat \ {0} /\ LastCluster \in Nat \ {0, 1} /\ size \in 0 .. Cb * (LastCluster - 1)
    BY FatAssumption
  <1>. DEFINE n == LastCluster - 1
              a == size + Cb - 1
              m == a \div Cb
  <1>2. n \in Nat /\ n + 1 = LastCluster /\ a \in Nat /\ size \in Nat /\ size <= n * Cb /\ a = size + Cb - 1
    <2>1. n \in Nat /\ n + 1 = LastCluster
      BY <1>1
    <2>2. Cb * n = n * Cb
      BY <1>1, <2>1
    <2>3. Cb * n \in Nat /\ size \in 0 .. Cb * n
      BY <1>1, <2>1
    <2>. QED BY <1>1, <2>1, <2>2, <2>3
  <1>. HIDE DEF n, a
  <1>3. m \in Nat /\ a = m * Cb + (a % Cb) /\ a % Cb \in 0 .. Cb - 1 /\ a < m * Cb + Cb
    BY <1>2, DivMod
  <1>4. Up(size) = m
    BY DEF Up, a
  <1>. HIDE DEF m
  <1>5. m * Cb \in Nat /\ n * Cb \in Nat
    BY <1>2, <1>3, Products
  <1>6. size <= m * Cb
    BY <1>1, <1>2, <1>3, <1>5
  <1>7. ~ (n < m)
    <2>1. n < m => n * Cb + Cb <= m * Cb
      BY <1>2, <1>3, Products
    <2>2. m * Cb <= a
      BY <1>1, <1>3, <1>5
    <2>. QED BY <2>1, <2>2, <1>1, <1>2, <1>5
  <1>. QED BY <1>2, <1>3, <1>4, <1>6, <1>7 DEF n

\* The file another system left lies on the clusters from 2 on.
LEMMA HostFile ==
    ASSUME NEW F, NEW D, NEW e, NEW size \in HostSizes, size > 0,
           F = [c \in Clusters |-> IF c > Up(size) + 1 THEN Free
                                   ELSE IF c = Up(size) + 1 THEN HostEnd ELSE c + 1],
           D = [c \in Clusters |-> [o \in 0 .. Cb - 1 |->
                  IF (c - 2) * Cb + o < size THEN <<e, (c - 2) * Cb + o>> ELSE Unwritten]]
    PROVE  Sound(F, D, e, 2, size)
  <1>. DEFINE m == Up(size)
              p == [k \in 0 .. m - 1 |-> k + 2]
  <1>1. size \in Nat /\ m \in Nat /\ m <= LastCluster - 1 /\ size <= m * Cb
    BY UpFacts
  <1>2. m > 0 /\ LastCluster \in Nat /\ Cb \in Nat
    <2>1. m = 0 => m * Cb = 0
      BY FatAssumption
    <2>. QED BY <1>1, <2>1, FatAssumption
  <1>3. F = [c \in Clusters |-> IF c > m + 1 THEN Free ELSE IF c = m + 1 THEN HostEnd ELSE c + 1]
    OBVIOUS
  <1>. HIDE DEF m
  <1>4. ASSUME NEW k \in 0 .. m - 1
        PROVE  /\ p[k] = k + 2 /\ k + 2 \in Clusters /\ k \in Nat
               /\ F[k + 2] # Free
               /\ k + 1 < m => F[k + 2] = p[k + 1]
               /\ k + 1 = m => F[k + 2] \notin Clusters
    <2>1. k \in Nat /\ k + 2 \in 2 .. LastCluster /\ p[k] = k + 2
      BY <1>1, <1>2
    <2>2. k + 2 \in Clusters
      BY <2>1 DEF Clusters
    <2>3. F[k + 2] = IF k + 2 > m + 1 THEN Free ELSE IF k + 2 = m + 1 THEN HostEnd ELSE k + 2 + 1
      BY <2>2, <1>3
    <2>4. k + 1 < m => F[k + 2] = k + 3 /\ k + 3 # Free /\ k + 1 \in 0 .. m - 1
      BY <2>1, <2>3, <1>1 DEF Free
    <2>5. k + 1 < m => p[k + 1] = k + 3
      BY <2>4, <2>1
    <2>6. k + 1 = m => F[k + 2] = HostEnd
      BY <2>1, <2>3, <1>1
    <2>7. HostEnd # Free
      BY FatAssumption DEF HostEnd, Free
    <2>8. k + 1 < m \/ k + 1 = m
      BY <1>1
    <2>. QED BY <2>1, <2>2, <2>4, <2>5, <2>6, <2>7, <2>8, MarksOutside
  <1>5. p \in [0 .. m - 1 -> Clusters]
    BY <1>4
  <1>6. \A j, k \in 0 .. m - 1 : p[j] = p[k] => j = k
    BY <1>4
  <1>7. p[0] = 2
    BY <1>1, <1>2
  <1>8. \A k \in 0 .. m - 1 : /\ F[p[k]] # Free
                              /\ k + 1 < m => F[p[k]] = p[k + 1]
                              /\ k + 1 = m => F[p[k]] \notin Clusters
    BY <1>4
  <1>9. m # 0
    BY <1>1, <1>2
  <1>10. IsPath(F, p, m, 2)
    <2>. HIDE DEF p
    <2>. QED BY <1>1, <1>5, <1>6, <1>7, <1>8, <1>9 DEF IsPath
  <1>11. ASSUME NEW k \in 0 .. m - 1, NEW o \in 0 .. Cb - 1, k * Cb + o < size
         PROVE  D[p[k]][o] = <<e, k * Cb + o>>
    <2>1. p[k] \in Clusters /\ p[k] - 2 = k
      <3>1. p[k] = k + 2 /\ k \in Nat /\ k + 2 \in Clusters
        BY <1>4
      <3>. HIDE DEF p
      <3>. QED BY <3>1
    <2>2. D[p[k]][o] = IF (p[k] - 2) * Cb + o < size THEN <<e, (p[k] - 2) * Cb + o>> ELSE Unwritten
      BY <2>1
    <2>. QED BY <2>1, <2>2, <1>11
  <1>12. OnPath(F, D, e, 2, size, p, m)
    BY <1>1, <1>10, <1>11 DEF OnPath
  <1>. QED BY <1>12 DEF Sound

LEMMA InitFatInv == FatInit => FatInv
  <1>. SUFFICES ASSUME FatInit PROVE FatInv
    OBVIOUS
  <1>1. PICK name \in Names, size \in HostSizes, deleted \in BOOLEAN :
            LET last == Up(size) + 1
                e == IF deleted THEN 1 ELSE 0
            IN
            /\ fat = [c \in Clusters |-> IF c > last THEN Free
                                         ELSE IF c = last THEN HostEnd ELSE c + 1]
            /\ data = [c \in Clusters |-> [o \in 0 .. Cb - 1 |->
                          IF (c - 2) * Cb + o < size THEN <<e, (c - 2) * Cb + o>> ELSE Unwritten]]
            /\ dir = [i \in Entries |->
                         IF i = e /\ size > 0 THEN [name |-> name, sblk |-> 2, size |-> size]
                         ELSE [name |-> IF i < e THEN NameFree ELSE NameEnd, sblk |-> 0, size |-> 0]]
    BY DEF FatInit
  <1>. DEFINE e == IF deleted THEN 1 ELSE 0
  <1>2. file = [f \in Files |-> Closed] /\ op = NoOp
    BY DEF FatInit
  <1>3. /\ size \in Nat /\ Up(size) \in Nat /\ Up(size) <= LastCluster - 1
        /\ LastCluster \in Nat \ {0, 1} /\ LastEntry \in Nat \ {0}
    BY UpFacts, FatAssumption
  <1>4. /\ fat = [c \in Clusters |-> IF c > Up(size) + 1 THEN Free
                                     ELSE IF c = Up(size) + 1 THEN HostEnd ELSE c + 1]
        /\ data = [c \in Clusters |-> [o \in 0 .. Cb - 1 |->
                      IF (c - 2) * Cb + o < size THEN <<e, (c - 2) * Cb + o>> ELSE Unwritten]]
        /\ dir = [i \in Entries |->
                     IF i = e /\ size > 0 THEN [name |-> name, sblk |-> 2, size |-> size]
                     ELSE [name |-> IF i < e THEN NameFree ELSE NameEnd, sblk |-> 0, size |-> 0]]
    BY <1>1
  <1>5. e \in Entries
    BY <1>3 DEF Entries
  <1>. HIDE DEF e
  <1>6. fat \in [Clusters -> Clusters \cup {Free, Invalid, HostEnd}]
    <2>1. ASSUME NEW c \in Clusters, ~ (c > Up(size) + 1), c # Up(size) + 1
          PROVE  c + 1 \in Clusters
      BY <2>1, <1>3 DEF Clusters
    <2>. QED BY <1>4, <2>1
  <1>7. dir \in [Entries -> Item]
    <2>1. 2 \in Clusters
      BY <1>3 DEF Clusters
    <2>2. [name |-> name, sblk |-> 2, size |-> size] \in Item
      BY <2>1, <1>3 DEF Item
    <2>3. \A i : [name |-> IF i < e THEN NameFree ELSE NameEnd, sblk |-> 0, size |-> 0] \in Item
      BY DEF Item, Free
    <2>. QED BY <1>4, <2>2, <2>3
  <1>8. file \in [Files -> File] /\ \A f \in Files : file[f].ref = 0
    <2>1. Closed \in File /\ Closed.ref = 0
      BY FatAssumption DEF File, Closed, Entries, Free
    <2>. QED BY <2>1, <1>2
  <1>9. op \in Call /\ op.step = "idle"
    BY <1>2 DEF NoOp, Call
  <1>10. Typed(fat, dir, file, op)
    BY <1>6, <1>7, <1>8, <1>9 DEF Typed
  <1>11. \A i \in LiveIn(dir) : i = e /\ size > 0 /\ dir[i].sblk = 2 /\ dir[i].size = size
    <2>1. ASSUME NEW i \in Entries, ~ (i = e /\ size > 0) PROVE dir[i].name \notin Names
      <3>1. dir[i] = [name |-> IF i < e THEN NameFree ELSE NameEnd, sblk |-> 0, size |-> 0]
        BY <1>4, <2>1
      <3>2. dir[i].name \in {NameFree, NameEnd}
        BY <3>1
      <3>. QED BY <3>2, FatAssumption
    <2>2. ASSUME NEW i \in Entries, i = e, size > 0 PROVE dir[i].sblk = 2 /\ dir[i].size = size
      <3>1. dir[i] = [name |-> name, sblk |-> 2, size |-> size]
        BY <1>4, <2>2
      <3>. QED BY <3>1
    <2>. QED BY <2>1, <2>2 DEF LiveIn
  <1>12. \A f \in Files : ~ Holds(file, f)
    BY <1>8 DEF Holds
  <1>13. FilesRight(fat, dir, file)
    BY <1>8, <1>11, <1>12 DEF FilesRight, Free
  <1>14. ASSUME NEW i \in LiveIn(dir)
         PROVE  Views(dir, file)[i] = [sblk |-> 2, size |-> size]
    <2>1. ViewIn(dir, file, i) = [sblk |-> dir[i].sblk, size |-> dir[i].size]
      BY <1>12, <1>13, ViewOf
    <2>. QED BY <2>1, <1>11 DEF Views
  <1>15. ASSUME NEW i \in LiveIn(dir)
         PROVE  Sound(fat, data, i, Views(dir, file)[i].sblk, Views(dir, file)[i].size)
    <2>1. i = e /\ size > 0
      BY <1>11
    <2>2. Sound(fat, data, e, 2, size)
      BY <2>1, <1>4, HostFile
    <2>. QED BY <2>1, <2>2, <1>14
  <1>16. Laid(fat, data, overwritten, LiveIn(dir), Views(dir, file))
    <2>1. overwritten = {}
      BY DEF FatInit
    <2>. QED BY <1>11, <1>15, <2>1 DEF Laid, Lies
  <1>17. CallRight(fat, overwritten, file, op)
    BY <1>9 DEF CallRight
  <1>. QED BY <1>10, <1>13, <1>16, <1>17 DEF FatInv

LEMMA NextFatInv == Careless = {} /\ FatInv /\ [FatNext]_fatVars => FatInv'
  <1>. SUFFICES ASSUME Careless = {}, FatInv, [FatNext]_fatVars PROVE FatInv'
    OBVIOUS
  <1>1. ASSUME NEW f \in Files, NEW name \in Names, NEW mode \in Modes, fatfs_open(f, name, mode)
        PROVE  FatInv'
    <2>1. Calm /\ ~Open(f) /\ Undisturbed(name)
      BY <1>1 DEF fatfs_open
    <2>2. CASE open_existing(f, name, mode)
      BY <2>1, <2>2, OpenExisting
    <2>3. CASE open_new(f, name, mode)
      BY <2>1, <2>3, OpenNew
    <2>4. CASE open_failed(f, name, mode)
      BY <2>1, <2>4, OpenFailed
    <2>. QED BY <1>1, <2>2, <2>3, <2>4 DEF fatfs_open
  <1>2. ASSUME NEW f \in Files, NEW n \in Reads, fatfs_read(f, n) PROVE FatInv'
    BY <1>2, ReadStarts
  <1>3. ASSUME NEW f \in Files, NEW n \in Writes, fatfs_write(f, n) PROVE FatInv'
    BY <1>3, WriteStarts
  <1>4. ASSUME NEW f \in Files, NEW offset \in Offsets, fatfs_seek(f, offset) PROVE FatInv'
    BY <1>4, Seek
  <1>5. ASSUME NEW f \in Files, fatfs_close(f) PROVE FatInv'
    BY <1>5, Close
  <1>6. ASSUME NEW name \in Names, fatfs_unlink(name) PROVE FatInv'
    BY <1>6, Unlink
  <1>7. CASE expand_file
    BY <1>7, Expand
  <1>8. CASE copy_read
    BY <1>8, CopyRead
  <1>9. CASE copy_written
    BY <1>9, CopyWritten
  <1>10. CASE move
    BY <1>10, Move
  <1>12. CASE copy_refused
    BY <1>12, Refused
  <1>11. CASE UNCHANGED fatVars
    <2>1. fat' = fat /\ dir' = dir /\ data' = data /\ file' = file /\ op' = op /\ overwritten' = overwritten
      BY <1>11 DEF fatVars
    <2>. QED BY <2>1 DEF FatInv
  <1>. QED BY <1>1, <1>2, <1>3, <1>4, <1>5, <1>6, <1>7, <1>8, <1>9, <1>10, <1>11, <1>12 DEF FatNext

\* FatInv holds throughout, whatever the sizes of the table, the directory and a cluster,
\* for processes that do none of the careless things.
THEOREM FatSystemInv == ASSUME Careless = {} PROVE FatSpec => []FatInv
  <1>1. FatInit => FatInv
    BY InitFatInv
  <1>2. FatInv /\ [FatNext]_fatVars => FatInv'
    BY NextFatInv
  <1>. QED BY <1>1, <1>2, PTL DEF FatSpec

\* fatfs.c: no chain of the allocation table runs into a free cluster, into itself or into the
\* chain of another file, through any sequence of opens, writes, seeks, truncations and unlinks,
\* overwritten files and growths that fail included.
THEOREM ChainsStaySound == ASSUME Careless = {} PROVE FatSpec => []ChainsSound
  <1>1. FatInv => ChainsSound
    BY InvSafe
  <1>. QED BY <1>1, FatSystemInv, PTL

\* fatfs.c: each unit of a file that was never written in front of its end (cluster_alloc_free,
\* expand_file, fatfs_write) is the one that was appended there, on a cluster of the file's own
\* chain, whatever is done to other files, these overwritten ones included, and also when the
\* disk is full and growths fail.
THEOREM ContentsStayIntact == ASSUME Careless = {} PROVE FatSpec => []ContentsIntact
  <1>1. FatInv => ContentsIntact
    BY InvSafe
  <1>. QED BY <1>1, FatSystemInv, PTL

\* fatfs.c: cblk of an open file is the cluster that pos lies in, as long as there is something
\* to read at pos, between calls and inside the loops of fatfs_read and fatfs_write.
THEOREM PositionsFollow == ASSUME Careless = {} PROVE FatSpec => []PosFollowsChain
  <1>1. FatInv => PosFollowsChain
    BY InvSafe
  <1>. QED BY <1>1, FatSystemInv, PTL
=============================================================================
