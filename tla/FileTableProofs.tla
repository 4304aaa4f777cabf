-------------------------- MODULE FileTableProofs --------------------------
(***************************************************************************)
(* The reference counts of the open-file table and the open counts of the  *)
(* devices are right, and the table implements OpenFiles, for any number   *)
(* of processes, descriptors, files and devices, as long as nobody is      *)
(* caught between the load and the store of ref in sys_close (RacyClose is *)
(* FALSE): with that race the counts are wrong, as the runs show.          *)
(***************************************************************************)
EXTENDS FileTable, TLAPS, FiniteSetTheorems, WellFoundedInduction

\* The sys_close of the last reference, after it has given the reference up.
LastClosing(p) == pc[p] \in {"close_fs", "close_free"}

\* What a process in the middle of a call knows of the file it works on.
CallOK(p) ==
    /\ pc[p] = "gone" => Used(p) = {}
    /\ Closing(p) => file[p] \in Files /\ file_table[p][fd[p]] = file[p]
    /\ pc[p] = "close_dec" => old[p] = ref[file[p]]
    /\ LastClosing(p) => ref[file[p]] = 0 /\ Holders(file[p]) = {<<p, fd[p]>>}
    /\ pc[p] \in {"opening", "open_failed"} =>
        file[p] \in Files /\ ref[file[p]] = 1 /\ dev_id[file[p]] = NoDev
    /\ pc[p] = "opening" => \E i \in Fds : Holders(file[p]) = {<<p, i>>}
    /\ pc[p] = "open_failed" => Holders(file[p]) = {}

\* A fork copies to a slot that nobody else uses.
ForkOK(p) == pc[p] = "copying" => child[p] # p /\ pc[child[p]] = "new"

\* Two processes are not at the same place.
Apart(p, q) ==
    /\ Closing(p) /\ Closing(q) => p = q
    /\ pc[p] = "open_failed" /\ pc[q] = "open_failed" /\ file[p] = file[q] => p = q
    /\ pc[p] = "copying" /\ pc[q] = "copying" /\ child[p] = child[q] => p = q

\* A file that no call has half opened or half closed.
Settled(f) == \A p \in Procs : file[p] = f => pc[p] # "open_failed" /\ ~LastClosing(p)

Counted(f) == Settled(f) => ref[f] = Cardinality(Holders(f))

DeviceOK(d) ==
    /\ open_count[d] = Cardinality(OpenOn(d))
    /\ minor[d] # NoDev <=> open_count[d] > 0

\* A minor is open at one element of dev_tbl.
OpenOnce == \A d, e \in DevIds : open_count[d] > 0 /\ minor[d] = minor[e] => d = e

\* The inductive invariant.
FileInv ==
    /\ FileTypeOK
    /\ \A p \in Procs : CallOK(p) /\ ForkOK(p)
    /\ \A p, q \in Procs : Apart(p, q)
    /\ \A f \in Files : Counted(f)
    /\ \A d \in DevIds : DeviceOK(d)
    /\ OpenOnce
-----------------------------------------------------------------------------
\* The intervals 0 .. i are finite sets, and a nonempty set of finite sets has a minimal one.
LEMMA LeastNatural ==
  ASSUME NEW S \in SUBSET Nat, S # {} PROVE \E i \in S : \A j \in S : i <= j
<1> DEFINE Below == {0 .. i : i \in S}
<1>1. Below \subseteq FiniteSubsetsOf(Nat) /\ Below # {}
  <2>1. \A i \in S : 0 .. i \in SUBSET Nat /\ IsFiniteSet(0 .. i)
    BY FS_Interval
  <2> QED BY <2>1 DEF FiniteSubsetsOf
<1>2. PICK m \in Below : \A b \in Below : ~(<<b, m>> \in StrictSubsetOrdering(Nat))
  BY <1>1, WFMin, FS_StrictSubsetOrderingWellFounded, Zenon
<1>3. PICK i \in S : m = 0 .. i
  OBVIOUS
<1>4. ASSUME NEW j \in S PROVE i <= j
  <2>1. CASE j < i
    <3>1. 0 .. j \subseteq 0 .. i /\ 0 .. j # 0 .. i /\ 0 .. j \in SUBSET Nat /\ 0 .. i \in SUBSET Nat
      BY <2>1
    <3>2. <<0 .. j, 0 .. i>> \in StrictSubsetOrdering(Nat)
      BY <3>1 DEF StrictSubsetOrdering
    <3> QED BY <1>2, <1>3, <3>2
  <2> QED BY <2>1
<1> QED BY <1>4

\* task_alloc_fd finds a descriptor that is not in use.
LEMMA FirstFreeIsFree ==
  ASSUME NEW p \in Procs, Used(p) # Fds
  PROVE  FirstFree(p) \in Fds /\ file_table[p][FirstFree(p)] = NoFile
<1>1. Fds \ Used(p) \in SUBSET Nat /\ Fds \ Used(p) # {}
  BY FileAssumption DEF Fds, Used
<1>2. \E i \in Fds \ Used(p) : \A j \in Fds \ Used(p) : i <= j
  BY <1>1, LeastNatural
<1>3. FirstFree(p) \in Fds \ Used(p)
  BY <1>2 DEF FirstFree
<1> QED BY <1>3 DEF Used

LEMMA HoldersFinite == ASSUME NEW f PROVE IsFiniteSet(Holders(f)) /\ IsFiniteSet(Holders(f)')
<1>1. IsFiniteSet(Fds)
  BY FS_Interval, FileAssumption DEF Fds
<1>2. IsFiniteSet(Procs \X Fds)
  BY <1>1, FS_Product, FileAssumption
<1>3. Holders(f) \in SUBSET (Procs \X Fds) /\ Holders(f)' \in SUBSET (Procs \X Fds)
  BY DEF Holders, Fds
<1> QED BY <1>2, <1>3, FS_Subset

\* What one assignment to a descriptor does to the holders of every file.
LEMMA SetFd ==
  ASSUME FileTypeOK, NEW p \in Procs, NEW i \in Fds, NEW g \in Files \cup {NoFile},
         file_table' = [file_table EXCEPT ![p][i] = g]
  PROVE  /\ file_table' \in [Procs -> [Fds -> Files \cup {NoFile}]]
         /\ \A q \in Procs, j \in Fds :
              file_table'[q][j] = IF q = p /\ j = i THEN g ELSE file_table[q][j]
         /\ \A q \in Procs \ {p} : Used(q)' = Used(q)
         /\ \A f : Holders(f)' = IF f = g THEN Holders(f) \cup {<<p, i>>}
                                          ELSE Holders(f) \ {<<p, i>>}
<1>1. file_table' \in [Procs -> [Fds -> Files \cup {NoFile}]]
  BY DEF FileTypeOK
<1>2. \A q \in Procs, j \in Fds :
         file_table'[q][j] = IF q = p /\ j = i THEN g ELSE file_table[q][j]
  BY DEF FileTypeOK
<1>3. \A q \in Procs \ {p} : Used(q)' = Used(q)
  BY <1>2 DEF Used, Fds
<1>4. ASSUME NEW f
      PROVE Holders(f)' = IF f = g THEN Holders(f) \cup {<<p, i>>} ELSE Holders(f) \ {<<p, i>>}
  <2>1. /\ Holders(f) \subseteq Procs \X Fds /\ Holders(f)' \subseteq Procs \X Fds
        /\ \A q \in Procs, j \in Fds : /\ <<q, j>> \in Holders(f) <=> file_table[q][j] = f
                                       /\ <<q, j>> \in Holders(f)' <=> file_table'[q][j] = f
    BY DEF Holders, Fds
  <2>2. \A h \in Procs \X Fds : h \in Holders(f)' <=>
           h \in (IF f = g THEN Holders(f) \cup {<<p, i>>} ELSE Holders(f) \ {<<p, i>>})
    BY <1>2, <2>1
  <2> QED BY <2>1, <2>2
<1> QED BY <1>1, <1>2, <1>3, <1>4

\* A descriptor that was free gets f: one more holder of f, and no other file notices.
LEMMA GiveFd ==
  ASSUME FileTypeOK, NEW p \in Procs, NEW i \in Fds, NEW f \in Files,
         file_table[p][i] = NoFile,
         file_table' = [file_table EXCEPT ![p][i] = f]
  PROVE  /\ file_table' \in [Procs -> [Fds -> Files \cup {NoFile}]]
         /\ Holders(f)' = Holders(f) \cup {<<p, i>>}
         /\ Cardinality(Holders(f)') = Cardinality(Holders(f)) + 1
         /\ \A g \in Files \ {f} : Holders(g)' = Holders(g)
<1>1. \A g \in Files : <<p, i>> \notin Holders(g)
  BY FileAssumption DEF Holders
<1>2. \A g : Holders(g)' = IF g = f THEN Holders(g) \cup {<<p, i>>} ELSE Holders(g) \ {<<p, i>>}
  BY SetFd
<1>3. file_table' \in [Procs -> [Fds -> Files \cup {NoFile}]]
  BY SetFd
<1>4. Cardinality(Holders(f) \cup {<<p, i>>}) = Cardinality(Holders(f)) + 1
  BY <1>1, HoldersFinite, FS_AddElement
<1> QED BY <1>1, <1>2, <1>3, <1>4

\* task_remove_fd on a descriptor of f.
LEMMA DropFd ==
  ASSUME FileTypeOK, NEW p \in Procs, NEW i \in Fds, NEW f \in Files,
         file_table[p][i] = f,
         file_table' = [file_table EXCEPT ![p][i] = NoFile]
  PROVE  /\ file_table' \in [Procs -> [Fds -> Files \cup {NoFile}]]
         /\ Holders(f)' = Holders(f) \ {<<p, i>>}
         /\ Cardinality(Holders(f)') = Cardinality(Holders(f)) - 1
         /\ \A g \in Files \ {f} : Holders(g)' = Holders(g)
<1>1. <<p, i>> \in Holders(f) /\ \A g \in Files \ {f} : <<p, i>> \notin Holders(g)
  BY DEF Holders
<1>2. \A g : Holders(g)' = IF g = NoFile THEN Holders(g) \cup {<<p, i>>}
                                         ELSE Holders(g) \ {<<p, i>>}
  <2>1. NoFile \in Files \cup {NoFile}
    OBVIOUS
  <2> QED BY <2>1, SetFd
<1>3. \A g \in Files : Holders(g)' = Holders(g) \ {<<p, i>>}
  BY <1>2, FileAssumption
<1>4. Cardinality(Holders(f) \ {<<p, i>>}) = Cardinality(Holders(f)) - 1
  BY <1>1, HoldersFinite, FS_RemoveElement
<1>5. file_table' \in [Procs -> [Fds -> Files \cup {NoFile}]]
  BY DEF FileTypeOK
<1>6. \A g \in Files \ {f} : Holders(g)' = Holders(g)
  BY <1>1, <1>3
<1>7. Holders(f)' = Holders(f) \ {<<p, i>>}
  BY <1>3
<1> QED BY <1>4, <1>5, <1>6, <1>7
-----------------------------------------------------------------------------
LEMMA OpenOnMembers ==
  ASSUME NEW d
  PROVE  OpenOn(d) = {f \in Files : dev_id[f] = d /\
            (ref[f] > 0 \/ \E q \in Procs : pc[q] = "close_fs" /\ file[q] = f)}
BY DEF OpenOn, WorkingOn

LEMMA OpenOnFinite == ASSUME NEW d PROVE IsFiniteSet(OpenOn(d)) /\ IsFiniteSet(OpenOn(d)')
<1>1. OpenOn(d) \in SUBSET Files /\ OpenOn(d)' \in SUBSET Files
  BY DEF OpenOn
<1> QED BY <1>1, FS_Subset, FileAssumption

\* Steps that do not change which files are open on the devices.
LEMMA SameDevices ==
  ASSUME FileInv, UNCHANGED devVars, \A d \in DevIds : OpenOn(d)' = OpenOn(d)
  PROVE  (\A d \in DevIds : DeviceOK(d)') /\ OpenOnce'
BY DEF FileInv, DeviceOK, OpenOnce, devVars

\* With the race excluded, a step that enters the count code meets nobody in sys_close.
LEMMA NobodyCloses ==
  ASSUME RacyClose = FALSE, NEW p \in Procs, ~Closing(p), Undisturbed(p)
  PROVE  \A q \in Procs : ~Closing(q)
BY DEF Undisturbed

\* A file that some descriptor refers to is counted right and has a reference.
LEMMA HeldFile ==
  ASSUME FileInv, \A q \in Procs : ~LastClosing(q),
         NEW p \in Procs, NEW i \in Used(p)
  PROVE  /\ file_table[p][i] \in Files
         /\ <<p, i>> \in Holders(file_table[p][i])
         /\ Settled(file_table[p][i])
         /\ ref[file_table[p][i]] = Cardinality(Holders(file_table[p][i]))
         /\ ref[file_table[p][i]] > 0
<1> DEFINE f == file_table[p][i]
<1>1. f \in Files /\ i \in Fds
  <2>1. i \in Fds /\ f # NoFile
    BY DEF Used
  <2>2. file_table \in [Procs -> [Fds -> Files \cup {NoFile}]]
    BY DEF FileInv, FileTypeOK
  <2> QED BY <2>1, <2>2
<1>2. <<p, i>> \in Holders(f)
  BY <1>1 DEF Holders
<1>3. Settled(f)
  BY <1>2 DEF FileInv, CallOK, Settled
<1>4. ref[f] = Cardinality(Holders(f))
  BY <1>1, <1>3 DEF FileInv, Counted
<1>5. Cardinality(Holders(f)) # 0
  BY <1>2, HoldersFinite, FS_EmptySet
<1>6. ref[f] \in Nat
  BY <1>1 DEF FileInv, FileTypeOK
<1> QED BY <1>1, <1>2, <1>3, <1>4, <1>5, <1>6

LEMMA FileInitInv == Init => FileInv
<1> SUFFICES ASSUME Init PROVE FileInv
  OBVIOUS
<1>1. FileTypeOK
  BY FileAssumption DEF Init, FileTypeOK, Fds, Steps
<1>2. \A p \in Procs : pc[p] \in {"gone", "user"} /\ Used(p) = {} /\ child[p] = p
  BY DEF Init, Used
<1>3. \A f \in Files : Holders(f) = {}
  BY FileAssumption DEF Init, Holders
<1>4. \A d \in DevIds : OpenOn(d) = {}
  BY <1>2, OpenOnMembers, FileAssumption DEF Init
<1>5. \A f \in Files : Counted(f)
  BY <1>3, FS_EmptySet DEF Init, Counted
<1>6. (\A d \in DevIds : DeviceOK(d)) /\ OpenOnce
  <2>1. \A d \in DevIds : open_count[d] = 0 /\ minor[d] = NoDev /\ Cardinality(OpenOn(d)) = 0
    BY <1>4, FS_EmptySet DEF Init
  <2> QED BY <2>1 DEF DeviceOK, OpenOnce
<1>7. \A p \in Procs : CallOK(p) /\ ForkOK(p)
  BY <1>2 DEF CallOK, ForkOK, Closing, LastClosing
<1>8. \A p, q \in Procs : Apart(p, q)
  BY <1>2 DEF Apart, Closing
<1> QED BY <1>1, <1>5, <1>6, <1>7, <1>8 DEF FileInv

\* A process moves between places where no call on files is under way.
LEMMA QuietInv ==
  ASSUME FileInv, UNCHANGED <<fileVars, devVars, file_table, file, fd, old>>,
         pc' \in [Procs -> Steps], child' \in [Procs -> Procs], exiting' \subseteq Procs,
         \A q \in Procs : pc'[q] = pc[q] \/ {pc[q], pc'[q]} \subseteq {"gone", "new", "user", "copying"},
         \A q \in Procs : pc'[q] = "gone" => pc[q] = "gone" \/ Used(q) = {},
         \A q \in Procs : ForkOK(q)',
         \A q, r \in Procs : pc'[q] = "copying" /\ pc'[r] = "copying" /\ child'[q] = child'[r] => q = r
  PROVE  FileInv'
<1>1. FileTypeOK'
  BY DEF FileInv, FileTypeOK, fileVars, devVars
<1>2. /\ \A f : Holders(f)' = Holders(f)
      /\ \A q \in Procs : Used(q)' = Used(q)
  BY DEF Holders, Used, Fds
<1>3. \A q \in Procs : /\ Closing(q)' = Closing(q) /\ LastClosing(q)' = LastClosing(q)
                       /\ \A step \in {"opening", "open_failed", "close_dec", "close_fs"} :
                            pc'[q] = step <=> pc[q] = step
  BY DEF Closing, LastClosing
<1>4. \A d \in DevIds : OpenOn(d)' = OpenOn(d)
  BY <1>3 DEF OpenOn, WorkingOn, fileVars
<1>5. \A q \in Procs : CallOK(q)'
  BY <1>2, <1>3 DEF FileInv, CallOK, fileVars
<1>6. \A q, r \in Procs : Apart(q, r)'
  BY <1>3 DEF FileInv, Apart
<1>7. \A f \in Files : Counted(f)'
  BY <1>2, <1>3 DEF FileInv, Counted, Settled, fileVars
<1> QED BY <1>1, <1>4, <1>5, <1>6, <1>7, SameDevices DEF FileInv

LEMMA ForkBeginInv ==
  ASSUME FileInv, NEW p \in Procs, NEW c \in Procs, fork_begin(p, c) PROVE FileInv'
<1>1. /\ pc[p] = "user" /\ pc[c] = "gone" /\ p # c
      /\ child' = [child EXCEPT ![p] = c]
      /\ pc' = [pc EXCEPT ![p] = "copying", ![c] = "new"]
      /\ UNCHANGED <<fileVars, devVars, file_table, file, fd, old, exiting>>
  BY DEF fork_begin, Free
<1>2. pc \in [Procs -> Steps] /\ child \in [Procs -> Procs] /\ exiting \subseteq Procs
  BY DEF FileInv, FileTypeOK
<1>3. \A q \in Procs : /\ pc'[q] = IF q = c THEN "new" ELSE IF q = p THEN "copying" ELSE pc[q]
                       /\ child'[q] = IF q = p THEN c ELSE child[q]
  BY <1>1, <1>2
<1>4. pc' \in [Procs -> Steps] /\ child' \in [Procs -> Procs]
  BY <1>1, <1>2 DEF Steps
<1>5. \A q \in Procs : ForkOK(q)'
  BY <1>1, <1>2, <1>3 DEF FileInv, ForkOK
<1>6. \A q, r \in Procs :
         pc'[q] = "copying" /\ pc'[r] = "copying" /\ child'[q] = child'[r] => q = r
  BY <1>1, <1>3 DEF FileInv, ForkOK, Apart
<1> QED BY <1>1, <1>2, <1>3, <1>4, <1>5, <1>6, QuietInv

LEMMA ForkEndInv == ASSUME FileInv, NEW p \in Procs, fork_end(p) PROVE FileInv'
<1>1. /\ pc[p] = "copying"
      /\ pc' = [pc EXCEPT ![p] = "user", ![child[p]] = "user"]
      /\ child' = [child EXCEPT ![p] = p]
      /\ UNCHANGED <<fileVars, devVars, file_table, file, fd, old, exiting>>
  BY DEF fork_end
<1>2. /\ pc \in [Procs -> Steps] /\ child \in [Procs -> Procs] /\ exiting \subseteq Procs
      /\ child[p] \in Procs /\ child[p] # p /\ pc[child[p]] = "new"
  BY <1>1 DEF FileInv, FileTypeOK, ForkOK
<1>3. \A q \in Procs : /\ pc'[q] = IF q \in {p, child[p]} THEN "user" ELSE pc[q]
                       /\ child'[q] = IF q = p THEN p ELSE child[q]
  BY <1>1, <1>2
<1>4. pc' \in [Procs -> Steps] /\ child' \in [Procs -> Procs]
  BY <1>1, <1>2 DEF Steps
<1>5. \A q \in Procs : ForkOK(q)'
  BY <1>1, <1>2, <1>3 DEF FileInv, ForkOK, Apart
<1>6. \A q, r \in Procs :
         pc'[q] = "copying" /\ pc'[r] = "copying" /\ child'[q] = child'[r] => q = r
  BY <1>1, <1>3 DEF FileInv, Apart
<1> QED BY <1>1, <1>2, <1>3, <1>4, <1>5, <1>6, QuietInv

LEMMA ExitBeginInv == ASSUME FileInv, NEW p \in Procs, exit_begin(p) PROVE FileInv'
<1>1. /\ exiting' = exiting \cup {p}
      /\ UNCHANGED <<fileVars, devVars, file_table, pc, file, fd, old, child>>
  BY DEF exit_begin
<1>2. pc \in [Procs -> Steps] /\ child \in [Procs -> Procs] /\ exiting' \subseteq Procs
  BY <1>1 DEF FileInv, FileTypeOK
<1>3. /\ \A q \in Procs : ForkOK(q)'
      /\ \A q, r \in Procs : pc[q] = "copying" /\ pc[r] = "copying" /\ child[q] = child[r] => q = r
  BY <1>1 DEF FileInv, ForkOK, Apart
<1> QED BY <1>1, <1>2, <1>3, QuietInv

LEMMA ExitEndInv == ASSUME FileInv, NEW p \in Procs, exit_end(p) PROVE FileInv'
<1>1. /\ pc[p] = "user" /\ Used(p) = {}
      /\ exiting' = exiting \ {p}
      /\ pc' = [pc EXCEPT ![p] = "gone"]
      /\ UNCHANGED <<fileVars, devVars, file_table, file, fd, old, child>>
  BY DEF exit_end, Remaining, Goto
<1>2. pc \in [Procs -> Steps] /\ child \in [Procs -> Procs] /\ exiting' \subseteq Procs
  BY <1>1 DEF FileInv, FileTypeOK
<1>3. \A q \in Procs : pc'[q] = IF q = p THEN "gone" ELSE pc[q]
  BY <1>1, <1>2
<1>4. pc' \in [Procs -> Steps]
  BY <1>1, <1>2 DEF Steps
<1>5. /\ \A q \in Procs : ForkOK(q)'
      /\ \A q, r \in Procs : pc'[q] = "copying" /\ pc'[r] = "copying" /\ child[q] = child[r] => q = r
  BY <1>1, <1>2, <1>3 DEF FileInv, ForkOK, Apart
<1> QED BY <1>1, <1>2, <1>3, <1>4, <1>5, QuietInv
-----------------------------------------------------------------------------
\* A step of p that changes what concerns file f only, while no other call works on f.
StepOn(p, f) ==
    /\ \A q \in Procs \ {p} :
        /\ pc'[q] = pc[q] /\ file'[q] = file[q] /\ fd'[q] = fd[q] /\ old'[q] = old[q]
        /\ pc[q] # "new" => file_table'[q] = file_table[q]
        /\ Closing(q) \/ pc[q] \in {"opening", "open_failed"} => file[q] # f
        /\ Closing(q) => ~Closing(p)'
    /\ \A g \in Files \ {f} :
        ref'[g] = ref[g] /\ dev_id'[g] = dev_id[g] /\ Holders(g)' = Holders(g)
    /\ file[p] = f \/ pc[p] \in {"user", "copying"}
    /\ file'[p] = f \/ pc'[p] \in {"user", "copying"}
    /\ child' = child
    /\ pc[p] # "new" /\ pc'[p] # "new" /\ (pc'[p] = "copying" <=> pc[p] = "copying")

LEMMA StepOthers ==
  ASSUME FileInv, NEW p \in Procs, NEW f \in Files, StepOn(p, f)
  PROVE  /\ \A q \in Procs \ {p} : CallOK(q)'
         /\ \A q \in Procs : ForkOK(q)'
         /\ \A q, r \in Procs : Apart(q, r)'
         /\ \A g \in Files \ {f} : Counted(g)'
         /\ \A d \in DevIds, g \in Files \ {f} : g \in OpenOn(d)' <=> g \in OpenOn(d)
<1>1. ASSUME NEW q \in Procs \ {p} PROVE CallOK(q)'
  <2>1. CallOK(q) /\ file[q] \in Files \cup {NoFile}
    BY DEF FileInv, FileTypeOK
  <2>2. /\ pc'[q] = pc[q] /\ file'[q] = file[q] /\ fd'[q] = fd[q] /\ old'[q] = old[q]
        /\ pc[q] # "new" => file_table'[q] = file_table[q]
        /\ Closing(q) \/ pc[q] \in {"opening", "open_failed"} =>
             file[q] \in Files /\ file[q] # f
    BY <2>1 DEF StepOn, CallOK
  <2>3. Closing(q) \/ pc[q] \in {"opening", "open_failed"} =>
           /\ ref'[file[q]] = ref[file[q]] /\ dev_id'[file[q]] = dev_id[file[q]]
           /\ Holders(file[q])' = Holders(file[q])
    <3>1. SUFFICES ASSUME NEW g \in Files, g # f, file[q] = g
                   PROVE  /\ ref'[g] = ref[g] /\ dev_id'[g] = dev_id[g]
                          /\ Holders(file[q])' = Holders(g)
      BY <2>2
    <3>2. Holders(file[q])' = Holders(g)'
      BY <2>2, <3>1 DEF Holders, Fds
    <3> QED BY <3>1, <3>2 DEF StepOn
  <2>4. ASSUME pc[q] # "new" PROVE Used(q)' = Used(q)
    <3>1. file_table'[q] = file_table[q]
      BY <2>2, <2>4
    <3> QED BY <3>1 DEF Used, Fds
  <2>5. CASE pc[q] = "gone"
    BY <2>1, <2>2, <2>4, <2>5 DEF CallOK, Closing, LastClosing
  <2>6. CASE Closing(q)
    BY <2>1, <2>2, <2>3, <2>6 DEF CallOK, Closing, LastClosing
  <2>7. CASE pc[q] \in {"opening", "open_failed"}
    BY <2>1, <2>2, <2>3, <2>7 DEF CallOK, Closing, LastClosing
  <2>8. CASE ~Closing(q) /\ pc[q] \notin {"gone", "opening", "open_failed"}
    <3>1. /\ pc'[q] \notin {"gone", "close_dec", "opening", "open_failed"}
          /\ ~Closing(q)' /\ ~LastClosing(q)'
      BY <2>2, <2>8 DEF Closing, LastClosing
    <3> QED BY <3>1 DEF CallOK
  <2> QED BY <2>5, <2>6, <2>7, <2>8
<1>2. \A q \in Procs : ForkOK(q)'
  <2>1. child \in [Procs -> Procs] /\ \A q \in Procs : ForkOK(q)
    BY DEF FileInv, FileTypeOK
  <2>2. /\ child' = child
        /\ \A q \in Procs \ {p} : pc'[q] = pc[q]
        /\ pc[p] # "new" /\ (pc'[p] = "copying" <=> pc[p] = "copying")
    BY DEF StepOn
  <2> QED BY <2>1, <2>2 DEF ForkOK
<1>3. \A q, r \in Procs : Apart(q, r)'
  BY DEF FileInv, Apart, StepOn, Closing
<1>4. ASSUME NEW g \in Files \ {f} PROVE Counted(g)'
  <2>1. Settled(g)' => Settled(g)
    BY DEF StepOn, Settled, LastClosing
  <2> QED BY <2>1 DEF FileInv, Counted, StepOn
<1>5. ASSUME NEW d \in DevIds, NEW g \in Files \ {f} PROVE g \in OpenOn(d)' <=> g \in OpenOn(d)
  <2>1. (\E q \in Procs : pc'[q] = "close_fs" /\ file'[q] = g) <=>
        (\E q \in Procs : pc[q] = "close_fs" /\ file[q] = g)
    BY DEF StepOn
  <2> QED BY <2>1 DEF StepOn, OpenOn, WorkingOn
<1> QED BY <1>1, <1>2, <1>3, <1>4, <1>5

\* What is left to show of such a step: the process, the file and the devices.
LEMMA StepInv ==
  ASSUME FileInv, NEW p \in Procs, NEW f \in Files, StepOn(p, f),
         FileTypeOK', CallOK(p)', Counted(f)', \A d \in DevIds : DeviceOK(d)', OpenOnce'
  PROVE  FileInv'
<1>1. (\A q \in Procs : CallOK(q)' /\ ForkOK(q)') /\ \A g \in Files : Counted(g)'
  BY StepOthers
<1> QED BY <1>1, StepOthers DEF FileInv

\* The same when f stays open on the same device, or on none.
LEMMA StepSameDevices ==
  ASSUME FileInv, NEW p \in Procs, NEW f \in Files, StepOn(p, f),
         FileTypeOK', CallOK(p)', Counted(f)',
         UNCHANGED devVars, \A d \in DevIds : f \in OpenOn(d)' <=> f \in OpenOn(d)
  PROVE  FileInv'
<1>1. \A d \in DevIds : OpenOn(d)' = OpenOn(d)
  BY StepOthers DEF OpenOn
<1> QED BY <1>1, SameDevices, StepInv

LEMMA OpenAllocInv ==
  ASSUME FileInv, RacyClose = FALSE, NEW p \in Procs, open_alloc(p) PROVE FileInv'
<1>1. PICK f \in Files, name \in Paths :
        /\ ref[f] = 0
        /\ ref' = [ref EXCEPT ![f] = 1]
        /\ file_name' = [file_name EXCEPT ![f] = name]
        /\ dev_id' = [dev_id EXCEPT ![f] = NoDev]
        /\ file' = [file EXCEPT ![p] = f]
        /\ \/ /\ Used(p) # Fds
              /\ file_table' = [file_table EXCEPT ![p][FirstFree(p)] = f]
              /\ pc' = [pc EXCEPT ![p] = "opening"]
           \/ /\ pc' = [pc EXCEPT ![p] = "open_failed"]
              /\ UNCHANGED file_table
  BY DEF open_alloc, Unreferenced, Goto
<1>2. pc[p] = "user" /\ Undisturbed(p) /\ UNCHANGED <<devVars, fd, old, child, exiting>>
  BY DEF open_alloc, Free
<1>3. FileTypeOK
  BY DEF FileInv
<1>4. \A q \in Procs : ~Closing(q) /\ ~LastClosing(q)
  BY <1>2, NobodyCloses DEF Closing, LastClosing
<1>5. \A q \in Procs : pc[q] \in {"opening", "open_failed"} => file[q] # f
  BY <1>1 DEF FileInv, CallOK
<1>6. Holders(f) = {}
  <2>1. Settled(f)
    BY <1>4, <1>5 DEF Settled
  <2>2. Cardinality(Holders(f)) = 0
    BY <1>1, <2>1 DEF FileInv, Counted
  <2> QED BY <2>2, HoldersFinite, FS_EmptySet
<1>7. /\ pc'[p] \in {"opening", "open_failed"}
      /\ \A q \in Procs \ {p} : pc'[q] = pc[q]
      /\ pc' \in [Procs -> Steps]
  BY <1>1, <1>3 DEF FileTypeOK, Steps
<1>8. /\ file'[p] = f /\ \A q \in Procs \ {p} : file'[q] = file[q]
      /\ ref'[f] = 1 /\ dev_id'[f] = NoDev
      /\ \A g \in Files \ {f} : ref'[g] = ref[g] /\ dev_id'[g] = dev_id[g]
  BY <1>1, <1>3 DEF FileTypeOK
<1>9. /\ file_table' \in [Procs -> [Fds -> Files \cup {NoFile}]]
      /\ \A q \in Procs \ {p} : file_table'[q] = file_table[q]
      /\ \A g \in Files \ {f} : Holders(g)' = Holders(g)
      /\ \/ pc'[p] = "opening" /\ Holders(f)' = {<<p, FirstFree(p)>>} /\ FirstFree(p) \in Fds
         \/ pc'[p] = "open_failed" /\ Holders(f)' = {}
  <2>1. CASE /\ Used(p) # Fds
             /\ file_table' = [file_table EXCEPT ![p][FirstFree(p)] = f]
             /\ pc' = [pc EXCEPT ![p] = "opening"]
    <3>1. FirstFree(p) \in Fds /\ file_table[p][FirstFree(p)] = NoFile
      BY <2>1, FirstFreeIsFree
    <3>2. /\ file_table' \in [Procs -> [Fds -> Files \cup {NoFile}]]
          /\ Holders(f)' = Holders(f) \cup {<<p, FirstFree(p)>>}
          /\ \A g \in Files \ {f} : Holders(g)' = Holders(g)
      BY <1>3, <2>1, <3>1, GiveFd
    <3>3. pc'[p] = "opening" /\ \A q \in Procs \ {p} : file_table'[q] = file_table[q]
      BY <1>3, <2>1 DEF FileTypeOK
    <3> QED BY <1>6, <3>1, <3>2, <3>3
  <2>2. CASE pc' = [pc EXCEPT ![p] = "open_failed"] /\ UNCHANGED file_table
    <3>1. pc'[p] = "open_failed" /\ file_table' \in [Procs -> [Fds -> Files \cup {NoFile}]]
      BY <1>3, <2>2 DEF FileTypeOK
    <3>2. \A g : Holders(g)' = Holders(g)
      BY <2>2 DEF Holders, Fds
    <3> QED BY <1>6, <2>2, <3>1, <3>2
  <2> QED BY <1>1, <2>1, <2>2
<1>10. FileTypeOK'
  BY <1>1, <1>2, <1>3, <1>7, <1>9 DEF FileTypeOK, devVars
<1>11. StepOn(p, f)
  BY <1>2, <1>4, <1>5, <1>7, <1>8, <1>9 DEF StepOn
<1>12. CallOK(p)'
  BY <1>7, <1>8, <1>9 DEF CallOK, Closing, LastClosing
<1>13. Counted(f)'
  <2>1. CASE pc'[p] = "opening" /\ Holders(f)' = {<<p, FirstFree(p)>>}
    BY <1>8, <2>1, FS_Singleton DEF Counted
  <2>2. CASE pc'[p] = "open_failed"
    BY <1>8, <2>2 DEF Counted, Settled
  <2> QED BY <1>9, <2>1, <2>2
<1>14. \A d \in DevIds : f \notin OpenOn(d) /\ f \notin OpenOn(d)'
  BY <1>1, <1>4, <1>8, FileAssumption DEF OpenOn, WorkingOn, Closing
<1> QED BY <1>2, <1>10, <1>11, <1>12, <1>13, <1>14, StepSameDevices

\* Whoever has a descriptor of f knows that no other process is still opening it.
LEMMA HolderKnows ==
  ASSUME FileInv, NEW p \in Procs, NEW f \in Files, NEW i \in Fds, file_table[p][i] = f
  PROVE  /\ <<p, i>> \in Holders(f)
         /\ \A q \in Procs \ {p} : pc[q] \in {"opening", "open_failed"} => file[q] # f
<1>1. <<p, i>> \in Holders(f)
  BY DEF Holders
<1> QED BY <1>1 DEF FileInv, CallOK

LEMMA OpenFailedInv ==
  ASSUME FileInv, RacyClose = FALSE, NEW p \in Procs, open_failed(p) PROVE FileInv'
<1>1. /\ pc[p] = "open_failed" /\ Undisturbed(p)
      /\ ref' = [ref EXCEPT ![file[p]] = IF @ # 0 THEN @ - 1 ELSE @]
      /\ pc' = [pc EXCEPT ![p] = "user"]
      /\ file' = [file EXCEPT ![p] = NoFile]
      /\ fd' = [fd EXCEPT ![p] = 0]
      /\ old' = [old EXCEPT ![p] = 0]
      /\ UNCHANGED <<file_name, dev_id, devVars, file_table, child, exiting>>
  BY DEF open_failed, Return, Goto
<1>2. PICK f \in Files : f = file[p] /\ ref[f] = 1 /\ dev_id[f] = NoDev /\ Holders(f) = {}
  BY <1>1 DEF FileInv, CallOK
<1>3. FileTypeOK
  BY DEF FileInv
<1>4. \A q \in Procs : ~Closing(q) /\ ~LastClosing(q)
  BY <1>1, NobodyCloses DEF Closing, LastClosing
<1>5. \A q \in Procs \ {p} : pc[q] \in {"opening", "open_failed"} => file[q] # f
  BY <1>1, <1>2 DEF FileInv, CallOK, Apart
<1>6. /\ pc'[p] = "user" /\ file'[p] = NoFile /\ ref'[f] = 0
      /\ \A q \in Procs \ {p} : /\ pc'[q] = pc[q] /\ file'[q] = file[q]
                                /\ fd'[q] = fd[q] /\ old'[q] = old[q]
      /\ \A g \in Files \ {f} : ref'[g] = ref[g]
  BY <1>1, <1>2, <1>3 DEF FileTypeOK
<1>7. \A g : Holders(g)' = Holders(g)
  BY <1>1 DEF Holders, Fds
<1>8. FileTypeOK'
  BY <1>1, <1>2, <1>3, FileAssumption DEF FileTypeOK, devVars, Steps, Fds
<1>9. StepOn(p, f)
  BY <1>1, <1>2, <1>4, <1>5, <1>6, <1>7 DEF StepOn
<1>10. CallOK(p)'
  BY <1>6 DEF CallOK, Closing, LastClosing
<1>11. Counted(f)'
  BY <1>2, <1>6, <1>7, FS_EmptySet DEF Counted
<1>12. \A d \in DevIds : f \notin OpenOn(d) /\ f \notin OpenOn(d)'
  BY <1>1, <1>2, FileAssumption DEF OpenOn
<1> QED BY <1>1, <1>2, <1>8, <1>9, <1>10, <1>11, <1>12, StepSameDevices

LEMMA DupInv ==
  ASSUME FileInv, RacyClose = FALSE, NEW p \in Procs, NEW i \in Fds, dup(p, i) PROVE FileInv'
<1>1. /\ pc[p] = "user" /\ Undisturbed(p) /\ i \in Used(p) /\ Used(p) # Fds
      /\ file_table' = [file_table EXCEPT ![p][FirstFree(p)] = file_table[p][i]]
      /\ ref' = [ref EXCEPT ![file_table[p][i]] = @ + 1]
      /\ UNCHANGED <<file_name, dev_id, devVars, localVars>>
  BY DEF dup, Free, IncRef
<1>2. \A q \in Procs : ~Closing(q) /\ ~LastClosing(q)
  BY <1>1, NobodyCloses DEF Closing, LastClosing
<1>3. PICK f \in Files :
      /\ f = file_table[p][i] /\ Settled(f) /\ ref[f] = Cardinality(Holders(f)) /\ ref[f] > 0
      /\ \A q \in Procs \ {p} : pc[q] \in {"opening", "open_failed"} => file[q] # f
  BY <1>1, <1>2, HeldFile, HolderKnows
<1>4. PICK n \in Fds : n = FirstFree(p) /\ file_table[p][n] = NoFile
  BY <1>1, FirstFreeIsFree
<1>5. FileTypeOK
  BY DEF FileInv
<1>6. /\ Cardinality(Holders(f)') = Cardinality(Holders(f)) + 1
      /\ \A g \in Files \ {f} : Holders(g)' = Holders(g)
      /\ file_table' \in [Procs -> [Fds -> Files \cup {NoFile}]]
  BY <1>1, <1>3, <1>4, <1>5, GiveFd
<1>7. /\ \A q \in Procs \ {p} : file_table'[q] = file_table[q]
      /\ ref'[f] = ref[f] + 1 /\ \A g \in Files \ {f} : ref'[g] = ref[g]
      /\ ref' \in [Files -> Nat]
  BY <1>1, <1>3, <1>5 DEF FileTypeOK
<1>8. FileTypeOK'
  BY <1>1, <1>5, <1>6, <1>7 DEF FileTypeOK, devVars, localVars
<1>9. StepOn(p, f)
  BY <1>1, <1>2, <1>3, <1>6, <1>7 DEF StepOn, localVars
<1>10. CallOK(p)'
  BY <1>1 DEF CallOK, Closing, LastClosing, localVars
<1>11. Counted(f)'
  BY <1>3, <1>6, <1>7 DEF Counted
<1>12. \A d \in DevIds : f \in OpenOn(d)' <=> f \in OpenOn(d)
  <2>1. ref[f] \in Nat
    BY <1>3, <1>5 DEF FileTypeOK
  <2> QED BY <1>1, <1>3, <1>7, <2>1 DEF OpenOn
<1> QED BY <1>1, <1>3, <1>8, <1>9, <1>10, <1>11, <1>12, StepSameDevices

LEMMA ForkCopyInv ==
  ASSUME FileInv, RacyClose = FALSE, NEW p \in Procs, fork_copy(p) PROVE FileInv'
<1>1. PICK i \in Used(p) \ Used(child[p]) :
        /\ ref' = [ref EXCEPT ![file_table[p][i]] = @ + 1]
        /\ file_table' = [file_table EXCEPT ![child[p]][i] = file_table[p][i]]
  BY DEF fork_copy, IncRef
<1>2. /\ pc[p] = "copying" /\ Undisturbed(p)
      /\ UNCHANGED <<file_name, dev_id, devVars, localVars>>
  BY DEF fork_copy
<1>3. \A q \in Procs : ~Closing(q) /\ ~LastClosing(q)
  BY <1>2, NobodyCloses DEF Closing, LastClosing
<1>4. i \in Fds
  BY DEF Used
<1>5. PICK f \in Files :
      /\ f = file_table[p][i] /\ Settled(f) /\ ref[f] = Cardinality(Holders(f)) /\ ref[f] > 0
      /\ \A q \in Procs \ {p} : pc[q] \in {"opening", "open_failed"} => file[q] # f
  BY <1>3, <1>4, HeldFile, HolderKnows
<1>6. PICK c \in Procs : c = child[p] /\ c # p /\ pc[c] = "new" /\ file_table[c][i] = NoFile
  <2>1. child[p] \in Procs /\ child[p] # p /\ pc[child[p]] = "new"
    BY <1>2 DEF FileInv, FileTypeOK, ForkOK
  <2> QED BY <1>4, <2>1 DEF Used
<1>7. /\ ref' = [ref EXCEPT ![f] = @ + 1]
      /\ file_table' = [file_table EXCEPT ![c][i] = f]
  BY <1>1, <1>5, <1>6
<1>8. FileTypeOK
  BY DEF FileInv
<1>9. /\ Cardinality(Holders(f)') = Cardinality(Holders(f)) + 1
      /\ \A g \in Files \ {f} : Holders(g)' = Holders(g)
      /\ file_table' \in [Procs -> [Fds -> Files \cup {NoFile}]]
  BY <1>4, <1>5, <1>6, <1>7, <1>8, GiveFd
<1>10. /\ \A q \in Procs : pc[q] # "new" => file_table'[q] = file_table[q]
       /\ ref'[f] = ref[f] + 1 /\ \A g \in Files \ {f} : ref'[g] = ref[g]
       /\ ref' \in [Files -> Nat]
  BY <1>5, <1>6, <1>7, <1>8 DEF FileTypeOK
<1>11. FileTypeOK'
  BY <1>2, <1>8, <1>9, <1>10 DEF FileTypeOK, devVars, localVars
<1>12. StepOn(p, f)
  BY <1>2, <1>3, <1>5, <1>9, <1>10 DEF StepOn, localVars
<1>13. CallOK(p)'
  BY <1>2 DEF CallOK, Closing, LastClosing, localVars
<1>14. Counted(f)'
  BY <1>5, <1>9, <1>10 DEF Counted
<1>15. \A d \in DevIds : f \in OpenOn(d)' <=> f \in OpenOn(d)
  <2>1. ref[f] \in Nat
    BY <1>5, <1>8 DEF FileTypeOK
  <2> QED BY <1>2, <1>5, <1>10, <2>1 DEF OpenOn
<1> QED BY <1>2, <1>5, <1>11, <1>12, <1>13, <1>14, <1>15, StepSameDevices

LEMMA CloseLoadInv ==
  ASSUME FileInv, RacyClose = FALSE, NEW p \in Procs, NEW i \in Fds, close_load(p, i)
  PROVE  FileInv'
<1>1. /\ pc[p] = "user" /\ Undisturbed(p) /\ i \in Used(p)
      /\ file' = [file EXCEPT ![p] = file_table[p][i]]
      /\ fd' = [fd EXCEPT ![p] = i]
      /\ old' = [old EXCEPT ![p] = ref[file_table[p][i]]]
      /\ pc' = [pc EXCEPT ![p] = "close_dec"]
      /\ UNCHANGED <<fileVars, devVars, file_table, child, exiting>>
  BY DEF close_load, Goto
<1>2. \A q \in Procs : ~Closing(q) /\ ~LastClosing(q)
  BY <1>1, NobodyCloses DEF Closing, LastClosing
<1>3. PICK f \in Files :
      /\ f = file_table[p][i] /\ Settled(f) /\ ref[f] = Cardinality(Holders(f)) /\ ref[f] > 0
      /\ \A q \in Procs \ {p} : pc[q] \in {"opening", "open_failed"} => file[q] # f
  BY <1>1, <1>2, HeldFile, HolderKnows
<1>4. FileTypeOK
  BY DEF FileInv
<1>5. /\ pc'[p] = "close_dec" /\ file'[p] = f /\ fd'[p] = i /\ old'[p] = ref[f]
      /\ \A q \in Procs \ {p} : /\ pc'[q] = pc[q] /\ file'[q] = file[q]
                                /\ fd'[q] = fd[q] /\ old'[q] = old[q]
  BY <1>1, <1>3, <1>4 DEF FileTypeOK
<1>6. \A g : Holders(g)' = Holders(g)
  BY <1>1 DEF Holders, Fds
<1>7. FileTypeOK'
  <2>1. ref[f] \in Nat
    BY <1>4 DEF FileTypeOK
  <2> QED BY <1>1, <1>3, <1>4, <2>1 DEF FileTypeOK, fileVars, devVars, Steps
<1>8. StepOn(p, f)
  BY <1>1, <1>2, <1>3, <1>5, <1>6 DEF StepOn, fileVars
<1>9. CallOK(p)'
  BY <1>1, <1>3, <1>5 DEF CallOK, Closing, LastClosing, fileVars
<1>10. Counted(f)'
  BY <1>1, <1>3, <1>6 DEF Counted, fileVars
<1>11. \A d \in DevIds : f \in OpenOn(d)' <=> f \in OpenOn(d)
  BY <1>1, <1>3 DEF OpenOn, fileVars
<1> QED BY <1>1, <1>7, <1>8, <1>9, <1>10, <1>11, StepSameDevices

\* The process in sys_close is alone there, and its descriptor still refers to the file.
LEMMA Closer ==
  ASSUME FileInv, NEW p \in Procs, Closing(p)
  PROVE  \E f \in Files, i \in Fds :
            /\ f = file[p] /\ i = fd[p] /\ file_table[p][i] = f /\ i \in Used(p)
            /\ \A q \in Procs \ {p} : /\ ~Closing(q) /\ ~LastClosing(q)
                                      /\ pc[q] \in {"opening", "open_failed"} => file[q] # f
<1>1. file[p] \in Files /\ fd[p] \in Fds /\ file_table[p][fd[p]] = file[p]
  BY DEF FileInv, CallOK, FileTypeOK
<1>2. \A q \in Procs \ {p} : ~Closing(q) /\ ~LastClosing(q)
  BY DEF FileInv, Apart, Closing, LastClosing
<1>3. fd[p] \in Used(p)
  BY <1>1, FileAssumption DEF Used
<1>4. \A q \in Procs \ {p} : pc[q] \in {"opening", "open_failed"} => file[q] # file[p]
  BY <1>1, HolderKnows
<1> QED BY <1>1, <1>2, <1>3, <1>4

\* The race excluded, sys_close decrements the count it loaded, which counts its descriptor.
LEMMA CloseDecIsLive ==
  ASSUME FileInv, NEW p \in Procs, pc[p] = "close_dec"
  PROVE  old[p] = ref[file[p]] /\ ref[file[p]] = Cardinality(Holders(file[p])) /\ old[p] > 0
<1>1. Closing(p)
  BY DEF Closing
<1>2. PICK f \in Files, i \in Fds :
        /\ f = file[p] /\ i = fd[p] /\ file_table[p][i] = f /\ i \in Used(p)
        /\ \A q \in Procs \ {p} : ~LastClosing(q)
  BY <1>1, Closer
<1>3. \A q \in Procs : ~LastClosing(q)
  BY <1>2 DEF LastClosing
<1>4. ref[f] = Cardinality(Holders(f)) /\ ref[f] > 0
  BY <1>2, <1>3, HeldFile
<1> QED BY <1>2, <1>4 DEF FileInv, CallOK

LEMMA CloseDecInv == ASSUME FileInv, NEW p \in Procs, close_dec(p) PROVE FileInv'
<1>1. /\ pc[p] = "close_dec"
      /\ ref' = [ref EXCEPT ![file[p]] = old[p] - 1]
      /\ UNCHANGED <<file_name, dev_id, devVars, child, exiting>>
  BY DEF close_dec
<1>2. PICK f \in Files, i \in Fds :
        /\ f = file[p] /\ i = fd[p] /\ file_table[p][i] = f /\ i \in Used(p)
        /\ \A q \in Procs \ {p} : /\ ~Closing(q) /\ ~LastClosing(q)
                                  /\ pc[q] \in {"opening", "open_failed"} => file[q] # f
  BY <1>1, Closer DEF Closing
<1>3. FileTypeOK
  BY DEF FileInv
<1>4. /\ old[p] = ref[f] /\ ref[f] = Cardinality(Holders(f)) /\ ref[f] > 0 /\ ref[f] \in Nat
      /\ ref'[f] = ref[f] - 1 /\ ref' \in [Files -> Nat]
      /\ \A g \in Files \ {f} : ref'[g] = ref[g]
  <2>1. old[p] = ref[f] /\ ref[f] = Cardinality(Holders(f)) /\ old[p] > 0
    BY <1>1, <1>2, CloseDecIsLive
  <2>2. ref[f] \in Nat /\ old[p] - 1 \in Nat
    BY <1>3, <2>1 DEF FileTypeOK
  <2> QED BY <1>1, <1>2, <1>3, <2>1, <2>2 DEF FileTypeOK
<1>5. CASE old[p] = 1
  <2>1. pc' = [pc EXCEPT ![p] = "close_fs"] /\ UNCHANGED <<file_table, file, fd, old>>
    BY <1>5 DEF close_dec, LastReference, Goto
  <2>2. pc'[p] = "close_fs" /\ \A q \in Procs \ {p} : pc'[q] = pc[q]
    BY <1>3, <2>1 DEF FileTypeOK
  <2>3. \A g : Holders(g)' = Holders(g)
    BY <2>1 DEF Holders, Fds
  <2>4. Holders(f) = {<<p, i>>}
    <3>1. <<p, i>> \in Holders(f)
      BY <1>2, HolderKnows
    <3>2. \E h : Holders(f) = {h}
      BY <1>4, <1>5, HoldersFinite, FS_Singleton
    <3> QED BY <3>1, <3>2
  <2>5. FileTypeOK'
    BY <1>1, <1>3, <1>4, <2>1 DEF FileTypeOK, devVars, Steps
  <2>6. StepOn(p, f)
    BY <1>1, <1>2, <1>4, <2>1, <2>2, <2>3 DEF StepOn
  <2>7. CallOK(p)'
    <3>1. ref'[f] = 0 /\ file'[p] = f /\ fd'[p] = i /\ file_table'[p][i] = f
      BY <1>2, <1>4, <1>5, <2>1
    <3>2. Holders(file[p])' = {<<p, i>>}
      BY <1>2, <2>1, <2>4 DEF Holders
    <3> QED BY <2>2, <3>1, <3>2 DEF CallOK, Closing, LastClosing
  <2>8. Counted(f)'
    BY <1>2, <2>1, <2>2 DEF Counted, Settled, LastClosing
  <2>9. \A d \in DevIds : f \in OpenOn(d)' <=> f \in OpenOn(d)
    BY <1>1, <1>2, <1>4, <2>1, <2>2 DEF OpenOn, WorkingOn
  <2> QED BY <1>1, <2>5, <2>6, <2>7, <2>8, <2>9, StepSameDevices
<1>6. CASE old[p] # 1
  <2>1. /\ file_table' = [file_table EXCEPT ![p][i] = NoFile]
        /\ pc' = [pc EXCEPT ![p] = "user"]
        /\ file' = [file EXCEPT ![p] = NoFile]
        /\ fd' = [fd EXCEPT ![p] = 0]
        /\ old' = [old EXCEPT ![p] = 0]
    BY <1>2, <1>6 DEF close_dec, LastReference, RemoveFd, Return, Goto
  <2>2. /\ pc'[p] = "user" /\ file'[p] = NoFile
        /\ \A q \in Procs \ {p} : /\ pc'[q] = pc[q] /\ file'[q] = file[q] /\ fd'[q] = fd[q]
                                  /\ old'[q] = old[q] /\ file_table'[q] = file_table[q]
    BY <1>3, <2>1 DEF FileTypeOK
  <2>3. /\ file_table' \in [Procs -> [Fds -> Files \cup {NoFile}]]
        /\ Cardinality(Holders(f)') = Cardinality(Holders(f)) - 1
        /\ \A g \in Files \ {f} : Holders(g)' = Holders(g)
    <3>1. file_table[p][i] = f /\ file_table' = [file_table EXCEPT ![p][i] = NoFile]
      BY <1>2, <2>1
    <3> QED BY <1>3, <3>1, DropFd
  <2>4. FileTypeOK'
    BY <1>1, <1>3, <1>4, <2>1, <2>3, FileAssumption DEF FileTypeOK, devVars, Steps, Fds
  <2>5. StepOn(p, f)
    BY <1>1, <1>2, <1>4, <2>2, <2>3 DEF StepOn
  <2>6. CallOK(p)'
    BY <2>2 DEF CallOK, Closing, LastClosing
  <2>7. Counted(f)'
    BY <1>4, <2>3 DEF Counted
  <2>8. \A d \in DevIds : f \in OpenOn(d)' <=> f \in OpenOn(d)
    <3>1. ref'[f] > 0
      BY <1>4, <1>6
    <3> QED BY <1>1, <1>4, <3>1 DEF OpenOn
  <2> QED BY <1>1, <2>4, <2>5, <2>6, <2>7, <2>8, StepSameDevices
<1> QED BY <1>5, <1>6

LEMMA CloseFreeInv == ASSUME FileInv, NEW p \in Procs, close_free(p) PROVE FileInv'
<1>1. /\ pc[p] = "close_free"
      /\ ref' = [ref EXCEPT ![file[p]] = IF @ # 0 THEN @ - 1 ELSE @]
      /\ file_table' = [file_table EXCEPT ![p][fd[p]] = NoFile]
      /\ pc' = [pc EXCEPT ![p] = "user"]
      /\ file' = [file EXCEPT ![p] = NoFile]
      /\ fd' = [fd EXCEPT ![p] = 0]
      /\ old' = [old EXCEPT ![p] = 0]
      /\ UNCHANGED <<file_name, dev_id, devVars, child, exiting>>
  BY DEF close_free, RemoveFd, Return, Goto
<1>2. PICK f \in Files, i \in Fds :
        /\ f = file[p] /\ i = fd[p] /\ file_table[p][i] = f /\ i \in Used(p)
        /\ \A q \in Procs \ {p} : /\ ~Closing(q) /\ ~LastClosing(q)
                                  /\ pc[q] \in {"opening", "open_failed"} => file[q] # f
  BY <1>1, Closer DEF Closing
<1>3. FileTypeOK
  BY DEF FileInv
<1>4. ref[f] = 0 /\ Holders(f) = {<<p, i>>}
  BY <1>1, <1>2 DEF FileInv, CallOK, LastClosing
<1>5. ref' = ref
  BY <1>1, <1>2, <1>3, <1>4 DEF FileTypeOK
<1>6. /\ pc'[p] = "user" /\ file'[p] = NoFile
      /\ \A q \in Procs \ {p} : /\ pc'[q] = pc[q] /\ file'[q] = file[q] /\ fd'[q] = fd[q]
                                /\ old'[q] = old[q] /\ file_table'[q] = file_table[q]
  BY <1>1, <1>3 DEF FileTypeOK
<1>7. /\ file_table' \in [Procs -> [Fds -> Files \cup {NoFile}]]
      /\ Holders(f)' = {}
      /\ \A g \in Files \ {f} : Holders(g)' = Holders(g)
  <2>1. /\ file_table' \in [Procs -> [Fds -> Files \cup {NoFile}]]
        /\ Holders(f)' = Holders(f) \ {<<p, i>>}
        /\ \A g \in Files \ {f} : Holders(g)' = Holders(g)
    BY <1>1, <1>2, <1>3, DropFd
  <2> QED BY <1>4, <2>1
<1>8. FileTypeOK'
  <2>1. /\ pc' \in [Procs -> Steps] /\ file' \in [Procs -> Files \cup {NoFile}]
        /\ fd' \in [Procs -> Fds] /\ old' \in [Procs -> Nat]
    BY <1>1, <1>3, FileAssumption DEF FileTypeOK, Steps, Fds
  <2>2. UNCHANGED <<ref, file_name, dev_id, minor, open_count, child, exiting>>
    BY <1>1, <1>5 DEF devVars
  <2> QED BY <1>3, <1>7, <2>1, <2>2 DEF FileTypeOK
<1>9. StepOn(p, f)
  BY <1>1, <1>2, <1>5, <1>6, <1>7 DEF StepOn
<1>10. CallOK(p)'
  BY <1>6 DEF CallOK, Closing, LastClosing
<1>11. Counted(f)'
  BY <1>4, <1>5, <1>7, FS_EmptySet DEF Counted
<1>12. \A d \in DevIds : f \notin OpenOn(d) /\ f \notin OpenOn(d)'
  BY <1>1, <1>2, <1>4, <1>5, <1>6 DEF OpenOn, WorkingOn, Closing
<1> QED BY <1>1, <1>8, <1>9, <1>10, <1>11, <1>12, StepSameDevices

LEMMA CloseFsInv == ASSUME FileInv, NEW p \in Procs, close_fs(p) PROVE FileInv'
<1>1. /\ pc[p] = "close_fs" /\ dev_close(dev_id[file[p]])
      /\ pc' = [pc EXCEPT ![p] = "close_free"]
      /\ UNCHANGED <<fileVars, file_table, file, fd, old, child, exiting>>
  BY DEF close_fs, Goto
<1>2. PICK f \in Files, i \in Fds :
        /\ f = file[p] /\ i = fd[p] /\ file_table[p][i] = f /\ i \in Used(p)
        /\ \A q \in Procs \ {p} : /\ ~Closing(q) /\ ~LastClosing(q)
                                  /\ pc[q] \in {"opening", "open_failed"} => file[q] # f
  BY <1>1, Closer DEF Closing
<1>3. FileTypeOK
  BY DEF FileInv
<1>4. ref[f] = 0 /\ Holders(f) = {<<p, i>>}
  BY <1>1, <1>2 DEF FileInv, CallOK, LastClosing
<1>5. pc'[p] = "close_free" /\ \A q \in Procs \ {p} : pc'[q] = pc[q]
  BY <1>1, <1>3 DEF FileTypeOK
<1>6. \A g : Holders(g)' = Holders(g)
  BY <1>1 DEF Holders, Fds
<1>7. StepOn(p, f)
  BY <1>1, <1>2, <1>5, <1>6 DEF StepOn, fileVars
<1>8. CallOK(p)'
  <2>1. ref'[f] = 0 /\ file'[p] = f /\ fd'[p] = i /\ file_table'[p][i] = f
    BY <1>1, <1>2, <1>4 DEF fileVars
  <2>2. Holders(file[p])' = {<<p, i>>}
    BY <1>1, <1>2, <1>4 DEF Holders
  <2> QED BY <1>5, <2>1, <2>2 DEF CallOK, Closing, LastClosing
<1>9. Counted(f)'
  BY <1>1, <1>2, <1>5 DEF Counted, Settled, LastClosing
<1>10. pc' \in [Procs -> Steps]
  BY <1>1, <1>3 DEF FileTypeOK, Steps
<1>11. \A d \in DevIds : /\ f \notin OpenOn(d)'
                         /\ f \in OpenOn(d) <=> d = dev_id[f]
  <2>1. \A q \in Procs : ~(pc'[q] = "close_fs" /\ file'[q] = f)
    BY <1>2, <1>5 DEF LastClosing
  <2> QED BY <1>1, <1>2, <1>4, <2>1 DEF OpenOn, WorkingOn, fileVars
<1>12. CASE dev_id[f] \notin DevIds
  <2>1. UNCHANGED devVars
    BY <1>1, <1>2, <1>12 DEF dev_close, is_devid_bad
  <2>2. FileTypeOK'
    BY <1>1, <1>3, <1>10, <2>1 DEF FileTypeOK, fileVars, devVars
  <2> QED BY <1>7, <1>8, <1>9, <1>11, <1>12, <2>1, <2>2, StepSameDevices
<1>13. CASE dev_id[f] \in DevIds
  <2>1. PICK d \in DevIds : d = dev_id[f]
    BY <1>13
  <2>2. /\ f \in OpenOn(d) /\ OpenOn(d)' = OpenOn(d) \ {f}
        /\ \A e \in DevIds \ {d} : OpenOn(e)' = OpenOn(e)
    <3>1. \A e \in DevIds, g \in Files \ {f} : g \in OpenOn(e)' <=> g \in OpenOn(e)
      BY <1>7, StepOthers
    <3> QED BY <1>11, <2>1, <3>1 DEF OpenOn
  <2>3. /\ open_count[d] \in Nat /\ open_count[d] > 0 /\ minor[d] # NoDev
        /\ Cardinality(OpenOn(d)') = open_count[d] - 1
    <3>1. Cardinality(OpenOn(d) \ {f}) = Cardinality(OpenOn(d)) - 1
      BY <2>2, OpenOnFinite, FS_RemoveElement
    <3>2. Cardinality(OpenOn(d)) # 0
      BY <2>2, OpenOnFinite, FS_EmptySet
    <3>3. /\ open_count[d] = Cardinality(OpenOn(d)) /\ open_count[d] \in Nat
          /\ minor[d] # NoDev <=> open_count[d] > 0
      BY <1>3 DEF FileInv, DeviceOK, FileTypeOK
    <3> QED BY <2>2, <3>1, <3>2, <3>3
  <2>4. /\ open_count' = [open_count EXCEPT ![d] = IF LastUser(d) THEN 0 ELSE @ - 1]
        /\ minor' = [minor EXCEPT ![d] = IF LastUser(d) THEN NoDev ELSE @]
    BY <1>1, <1>2, <2>1, <2>3 DEF dev_close, is_devid_bad
  <2>5. /\ open_count'[d] = open_count[d] - 1
        /\ minor'[d] = IF open_count[d] = 1 THEN NoDev ELSE minor[d]
        /\ \A e \in DevIds \ {d} : open_count'[e] = open_count[e] /\ minor'[e] = minor[e]
        /\ open_count' \in [DevIds -> Nat] /\ minor' \in [DevIds -> Minors \cup {NoDev}]
    <3>1. open_count \in [DevIds -> Nat] /\ minor \in [DevIds -> Minors \cup {NoDev}]
      BY <1>3 DEF FileTypeOK
    <3>2. open_count[d] - 1 \in Nat
      BY <2>3
    <3>3. CASE open_count[d] = 1
      BY <2>4, <3>1, <3>3 DEF LastUser
    <3>4. CASE open_count[d] # 1
      BY <2>4, <3>1, <3>2, <3>4 DEF LastUser
    <3> QED BY <3>3, <3>4
  <2>6. FileTypeOK'
    BY <1>1, <1>3, <1>10, <2>5 DEF FileTypeOK, fileVars
  <2>7. \A e \in DevIds : DeviceOK(e)'
    <3>1. DeviceOK(d)'
      BY <2>3, <2>5 DEF DeviceOK
    <3>2. ASSUME NEW e \in DevIds \ {d} PROVE DeviceOK(e)'
      BY <2>2, <2>5 DEF FileInv, DeviceOK
    <3> QED BY <3>1, <3>2
  <2>8. OpenOnce'
    <3>1. \A e \in DevIds : open_count[e] \in Nat
      BY <1>3 DEF FileTypeOK
    <3>2. \A e \in DevIds : minor'[e] # NoDev => minor'[e] = minor[e] /\ open_count[e] > 0
      BY <2>3, <2>5 DEF FileInv, DeviceOK
    <3>3. \A e \in DevIds : open_count'[e] > 0 => minor'[e] # NoDev
      BY <2>7 DEF DeviceOK
    <3> QED BY <3>1, <3>2, <3>3 DEF FileInv, OpenOnce
  <2> QED BY <1>7, <1>8, <1>9, <2>6, <2>7, <2>8, StepInv
<1> QED BY <1>12, <1>13

\* dev_open: one more file is open on the device, which holds the minor asked for.
LEMMA DevOpenDevices ==
  ASSUME FileInv, NEW p \in Procs, NEW f \in Files, f = file[p], dev_id[f] = NoDev,
         NEW m \in Minors, dev_open(p, m),
         \A d \in DevIds, g \in Files \ {f} : g \in OpenOn(d)' <=> g \in OpenOn(d),
         \A d \in DevIds : f \in OpenOn(d)' <=> dev_id'[f] = d
  PROVE  /\ open_count' \in [DevIds -> Nat] /\ minor' \in [DevIds -> Minors \cup {NoDev}]
         /\ dev_id' \in [Files -> DevIds \cup {NoDev}]
         /\ \A g \in Files \ {f} : dev_id'[g] = dev_id[g]
         /\ \A d \in DevIds : DeviceOK(d)'
         /\ OpenOnce'
<1>1. /\ open_count \in [DevIds -> Nat] /\ minor \in [DevIds -> Minors \cup {NoDev}]
      /\ dev_id \in [Files -> DevIds \cup {NoDev}]
      /\ \A d \in DevIds : open_count[d] = Cardinality(OpenOn(d)) /\ (minor[d] # NoDev <=> open_count[d] > 0)
  BY DEF FileInv, FileTypeOK, DeviceOK
<1>2. \E d \in DevIds :
        /\ open_count' = [open_count EXCEPT ![d] = open_count[d] + 1]
        /\ dev_id' = [dev_id EXCEPT ![f] = d]
        /\ minor'[d] = m
        /\ \A e \in DevIds \ {d} : minor'[e] = minor[e] /\ (open_count[e] > 0 => minor[e] # m)
        /\ minor' \in [DevIds -> Minors \cup {NoDev}]
  <2>1. CASE \E d \in AlreadyOpen(m) :
               /\ open_count' = [open_count EXCEPT ![d] = @ + 1]
               /\ dev_id' = [dev_id EXCEPT ![file[p]] = d]
               /\ UNCHANGED minor
    <3>1. PICK d \in DevIds : /\ open_count[d] > 0 /\ minor[d] = m
                              /\ open_count' = [open_count EXCEPT ![d] = @ + 1]
                              /\ dev_id' = [dev_id EXCEPT ![file[p]] = d]
                              /\ UNCHANGED minor
      BY <2>1 DEF AlreadyOpen
    <3>2. \A e \in DevIds \ {d} : open_count[e] > 0 => minor[e] # m
      BY <3>1 DEF FileInv, OpenOnce
    <3> QED BY <1>1, <3>1, <3>2
  <2>2. CASE /\ AlreadyOpen(m) = {}
             /\ \E d \in DevIds : /\ open_count[d] = 0
                                  /\ open_count' = [open_count EXCEPT ![d] = 1]
                                  /\ minor' = [minor EXCEPT ![d] = m]
                                  /\ dev_id' = [dev_id EXCEPT ![file[p]] = d]
    <3>1. \A e \in DevIds : open_count[e] > 0 => minor[e] # m
      BY <2>2 DEF AlreadyOpen
    <3>2. PICK d \in DevIds : /\ open_count[d] = 0
                              /\ open_count' = [open_count EXCEPT ![d] = 1]
                              /\ minor' = [minor EXCEPT ![d] = m]
                              /\ dev_id' = [dev_id EXCEPT ![file[p]] = d]
      BY <2>2
    <3>3. open_count[d] + 1 = 1
      BY <3>2
    <3>4. /\ minor'[d] = m /\ minor' \in [DevIds -> Minors \cup {NoDev}]
          /\ \A e \in DevIds \ {d} : minor'[e] = minor[e]
      BY <1>1, <3>2
    <3> QED BY <3>1, <3>2, <3>3, <3>4
  <2> QED BY <2>1, <2>2 DEF dev_open
<1>3. PICK d \in DevIds :
        /\ open_count' = [open_count EXCEPT ![d] = open_count[d] + 1]
        /\ dev_id' = [dev_id EXCEPT ![f] = d]
        /\ minor'[d] = m
        /\ \A e \in DevIds \ {d} : minor'[e] = minor[e] /\ (open_count[e] > 0 => minor[e] # m)
        /\ minor' \in [DevIds -> Minors \cup {NoDev}]
  BY <1>2
<1>4. /\ open_count' \in [DevIds -> Nat]
      /\ open_count'[d] = open_count[d] + 1 /\ open_count[d] \in Nat
      /\ \A e \in DevIds \ {d} : open_count'[e] = open_count[e]
  BY <1>1, <1>3
<1>5. /\ dev_id' \in [Files -> DevIds \cup {NoDev}] /\ dev_id'[f] = d
      /\ \A g \in Files \ {f} : dev_id'[g] = dev_id[g]
  BY <1>1, <1>3
<1>6. /\ f \notin OpenOn(d) /\ OpenOn(d)' = OpenOn(d) \cup {f}
      /\ \A e \in DevIds \ {d} : OpenOn(e)' = OpenOn(e)
  BY <1>5, FileAssumption DEF OpenOn
<1>7. Cardinality(OpenOn(d)') = Cardinality(OpenOn(d)) + 1
  BY <1>6, OpenOnFinite, FS_AddElement
<1>8. \A e \in DevIds : DeviceOK(e)'
  <2>1. DeviceOK(d)'
    BY <1>1, <1>3, <1>4, <1>7, FileAssumption DEF DeviceOK
  <2>2. ASSUME NEW e \in DevIds \ {d} PROVE DeviceOK(e)'
    BY <1>1, <1>3, <1>4, <1>6 DEF DeviceOK
  <2> QED BY <2>1, <2>2
<1>9. OpenOnce'
  BY <1>1, <1>3, <1>4, FileAssumption DEF FileInv, OpenOnce
<1> QED BY <1>3, <1>4, <1>5, <1>8, <1>9

LEMMA OpenFsInv == ASSUME FileInv, NEW p \in Procs, open_fs(p) PROVE FileInv'
<1>1. /\ pc[p] = "opening"
      /\ \/ file_name[file[p]] \in Minors /\ dev_open(p, file_name[file[p]])
         \/ UNCHANGED <<dev_id, devVars>>
      /\ pc' = [pc EXCEPT ![p] = "user"]
      /\ file' = [file EXCEPT ![p] = NoFile]
      /\ fd' = [fd EXCEPT ![p] = 0]
      /\ old' = [old EXCEPT ![p] = 0]
      /\ UNCHANGED <<ref, file_name, file_table, child, exiting>>
  BY DEF open_fs, Return, Goto
<1>2. PICK f \in Files : f = file[p] /\ ref[f] = 1 /\ dev_id[f] = NoDev
                         /\ \E i \in Fds : Holders(f) = {<<p, i>>}
  BY <1>1 DEF FileInv, CallOK
<1>3. FileTypeOK
  BY DEF FileInv
<1>4. \A q \in Procs \ {p} : Closing(q) \/ pc[q] \in {"opening", "open_failed"} => file[q] # f
  <2>1. PICK i \in Fds : Holders(f) = {<<p, i>>}
    BY <1>2
  <2>2. ASSUME NEW q \in Procs \ {p}, Closing(q) PROVE file[q] # f
    <3>1. fd[q] \in Fds /\ file_table[q][fd[q]] = file[q]
      BY <1>3, <2>2 DEF FileInv, CallOK, FileTypeOK
    <3>2. file[q] = f => <<q, fd[q]>> \in Holders(f)
      BY <3>1 DEF Holders
    <3> QED BY <2>1, <3>2
  <2>3. ASSUME NEW q \in Procs \ {p}, pc[q] \in {"opening", "open_failed"} PROVE file[q] # f
    <3>1. (\E j \in Fds : Holders(file[q]) = {<<q, j>>}) \/ Holders(file[q]) = {}
      BY <2>3 DEF FileInv, CallOK
    <3>2. <<p, i>> \notin Holders(file[q])
      BY <3>1
    <3> QED BY <2>1, <3>2
  <2> QED BY <2>2, <2>3
<1>5. /\ pc'[p] = "user" /\ file'[p] = NoFile
      /\ \A q \in Procs \ {p} : /\ pc'[q] = pc[q] /\ file'[q] = file[q]
                                /\ fd'[q] = fd[q] /\ old'[q] = old[q]
      /\ pc' \in [Procs -> Steps] /\ file' \in [Procs -> Files \cup {NoFile}]
      /\ fd' \in [Procs -> Fds] /\ old' \in [Procs -> Nat]
  BY <1>1, <1>3, FileAssumption DEF FileTypeOK, Steps, Fds
<1>6. \A g : Holders(g)' = Holders(g)
  BY <1>1 DEF Holders, Fds
<1>7. \A g \in Files \ {f} : dev_id'[g] = dev_id[g]
  <2>1. dev_id \in [Files -> DevIds \cup {NoDev}]
    BY <1>3 DEF FileTypeOK
  <2> QED BY <1>1, <1>2, <2>1 DEF dev_open
<1>8. StepOn(p, f)
  BY <1>1, <1>2, <1>4, <1>5, <1>6, <1>7 DEF StepOn, Closing
<1>9. CallOK(p)'
  BY <1>5 DEF CallOK, Closing, LastClosing
<1>10. Counted(f)'
  BY <1>1, <1>2, <1>6, FS_Singleton DEF Counted
<1>11. \A d \in DevIds : f \in OpenOn(d)' <=> dev_id'[f] = d
  BY <1>1, <1>2 DEF OpenOn
<1>12. CASE UNCHANGED <<dev_id, devVars>>
  <2>1. FileTypeOK'
    BY <1>1, <1>3, <1>5, <1>12 DEF FileTypeOK, devVars
  <2>2. \A d \in DevIds : f \in OpenOn(d)' <=> f \in OpenOn(d)
    BY <1>2, <1>11, <1>12 DEF OpenOn
  <2> QED BY <1>8, <1>9, <1>10, <1>12, <2>1, <2>2, StepSameDevices
<1>13. CASE file_name[file[p]] \in Minors /\ dev_open(p, file_name[file[p]])
  <2>1. PICK m \in Minors : dev_open(p, m)
    BY <1>13
  <2>2. \A d \in DevIds, g \in Files \ {f} : g \in OpenOn(d)' <=> g \in OpenOn(d)
    BY <1>8, StepOthers
  <2>3. /\ open_count' \in [DevIds -> Nat] /\ minor' \in [DevIds -> Minors \cup {NoDev}]
        /\ dev_id' \in [Files -> DevIds \cup {NoDev}]
        /\ \A d \in DevIds : DeviceOK(d)'
        /\ OpenOnce'
    BY <1>2, <1>11, <2>1, <2>2, DevOpenDevices
  <2>4. FileTypeOK'
    BY <1>1, <1>3, <1>5, <2>3 DEF FileTypeOK
  <2> QED BY <1>8, <1>9, <1>10, <2>3, <2>4, StepInv
<1> QED BY <1>1, <1>12, <1>13
-----------------------------------------------------------------------------
LEMMA FileNextInv ==
  ASSUME FileInv, RacyClose = FALSE, [Next]_vars PROVE FileInv'
<1>1. CASE UNCHANGED vars
  <2>1. UNCHANGED <<fileVars, devVars, file_table, localVars>>
    BY <1>1 DEF vars
  <2>2. /\ pc' = pc /\ child' = child /\ UNCHANGED <<file, fd, old>>
        /\ pc' \in [Procs -> Steps] /\ child' \in [Procs -> Procs] /\ exiting' \subseteq Procs
    BY <2>1 DEF FileInv, FileTypeOK, localVars
  <2>3. /\ \A q \in Procs : ForkOK(q)'
        /\ \A q, r \in Procs :
             pc'[q] = "copying" /\ pc'[r] = "copying" /\ child'[q] = child'[r] => q = r
    BY <2>2 DEF FileInv, ForkOK, Apart
  <2>4. \A q \in Procs : /\ pc'[q] = pc[q]
                         /\ pc'[q] = "gone" => pc[q] = "gone"
    BY <2>2
  <2> QED BY <2>1, <2>2, <2>3, <2>4, QuietInv
<1>2. ASSUME NEW p \in Procs, Begin(p) PROVE FileInv'
  BY <1>2, OpenAllocInv, DupInv, ForkBeginInv, ExitBeginInv DEF Begin
<1>3. ASSUME NEW p \in Procs, Continue(p) PROVE FileInv'
  BY <1>3, OpenFailedInv, OpenFsInv, ForkCopyInv, ForkEndInv, CloseDecInv, CloseFsInv,
     CloseFreeInv, ExitEndInv DEF Continue
<1>4. ASSUME NEW p \in Procs, NEW i \in Fds, close_load(p, i) PROVE FileInv'
  BY <1>4, CloseLoadInv
<1> QED BY <1>1, <1>2, <1>3, <1>4 DEF Next

LEMMA FileInvariant == ASSUME RacyClose = FALSE PROVE Spec => []FileInv
<1>1. Init => FileInv
  BY FileInitInv
<1>2. FileInv /\ [Next]_vars => FileInv'
  BY FileNextInv
<1> QED BY <1>1, <1>2, PTL DEF Spec

\* No variable of the table leaves its type; in particular no count is ever negative.
THEOREM FileTypeCorrect == ASSUME RacyClose = FALSE PROVE Spec => []FileTypeOK
<1>1. FileInv => FileTypeOK
  BY DEF FileInv
<1> QED BY <1>1, FileInvariant, PTL

\* The count of a file is the number of descriptors that refer to it, in all processes, up to
\* the one call that is opening it without a descriptor or closing its last one.
THEOREM RefsCountFds == ASSUME RacyClose = FALSE PROVE Spec => []RefsMatchFds
<1>1. ASSUME FileInv PROVE RefsMatchFds
  <2>1. SUFFICES ASSUME NEW f \in Files
        PROVE  ref[f] = Cardinality(Holders(f))
                        - Cardinality(WorkingOn(f, {"close_fs", "close_free"}))
                        + Cardinality(WorkingOn(f, {"open_failed"}))
    BY DEF RefsMatchFds
  <2>2. /\ Cardinality(Holders(f)) \in Nat
        /\ Cardinality({}) = 0
        /\ \A p, i : Cardinality({p}) = 1 /\ Cardinality({<<p, i>>}) = 1
    BY HoldersFinite, FS_CardinalityType, FS_EmptySet, FS_Singleton
  <2>3. CASE Settled(f)
    <3>1. /\ WorkingOn(f, {"close_fs", "close_free"}) = {}
          /\ WorkingOn(f, {"open_failed"}) = {}
      BY <2>3 DEF Settled, LastClosing, WorkingOn
    <3>2. ref[f] = Cardinality(Holders(f))
      BY <1>1, <2>3 DEF FileInv, Counted
    <3>3. /\ Cardinality(WorkingOn(f, {"close_fs", "close_free"})) = 0
          /\ Cardinality(WorkingOn(f, {"open_failed"})) = 0
      BY <2>2, <3>1
    <3> QED BY <2>2, <3>2, <3>3
  <2>4. CASE \E p \in Procs : file[p] = f /\ LastClosing(p)
    <3>1. PICK p \in Procs : file[p] = f /\ LastClosing(p)
      BY <2>4
    <3>2. ref[f] = 0 /\ Holders(f) = {<<p, fd[p]>>}
      BY <1>1, <3>1 DEF FileInv, CallOK
    <3>3. WorkingOn(f, {"close_fs", "close_free"}) = {p}
      BY <1>1, <3>1 DEF FileInv, Apart, Closing, LastClosing, WorkingOn
    <3>4. WorkingOn(f, {"open_failed"}) = {}
      BY <1>1, <3>2 DEF FileInv, CallOK, WorkingOn
    <3>5. /\ Cardinality(WorkingOn(f, {"close_fs", "close_free"})) = 1
          /\ Cardinality(WorkingOn(f, {"open_failed"})) = 0
          /\ Cardinality(Holders(f)) = 1
      BY <2>2, <3>2, <3>3, <3>4
    <3> QED BY <3>2, <3>5
  <2>5. CASE \E p \in Procs : file[p] = f /\ pc[p] = "open_failed"
    <3>1. PICK p \in Procs : file[p] = f /\ pc[p] = "open_failed"
      BY <2>5
    <3>2. ref[f] = 1 /\ Holders(f) = {}
      BY <1>1, <3>1 DEF FileInv, CallOK
    <3>3. WorkingOn(f, {"open_failed"}) = {p}
      BY <1>1, <3>1 DEF FileInv, Apart, WorkingOn
    <3>4. WorkingOn(f, {"close_fs", "close_free"}) = {}
      BY <1>1, <3>2 DEF FileInv, CallOK, LastClosing, WorkingOn
    <3>5. /\ Cardinality(WorkingOn(f, {"close_fs", "close_free"})) = 0
          /\ Cardinality(WorkingOn(f, {"open_failed"})) = 1
          /\ Cardinality(Holders(f)) = 0
      BY <2>2, <3>2, <3>3, <3>4
    <3> QED BY <3>2, <3>5
  <2> QED BY <2>3, <2>4, <2>5 DEF Settled
<1> QED BY <1>1, FileInvariant, PTL

\* A device counts exactly the files that are open on it, and a minor is open once.
THEOREM DevicesCountFiles == ASSUME RacyClose = FALSE PROVE Spec => []DevicesMatchFiles
<1>1. FileInv => DevicesMatchFiles
  BY DEF FileInv, DeviceOK, OpenOnce, DevicesMatchFiles
<1> QED BY <1>1, FileInvariant, PTL

\* fs.c:274: the count that sys_close is about to decrement is positive.
THEOREM CloseAssertHolds == ASSUME RacyClose = FALSE PROVE Spec => []AssertHolds
<1>1. ASSUME FileInv PROVE AssertHolds
  BY <1>1, CloseDecIsLive DEF AssertHolds
<1> QED BY <1>1, FileInvariant, PTL
-----------------------------------------------------------------------------
LEMMA OpenKeepsPromise ==
  ASSUME FileInv, RacyClose = FALSE, NEW p \in Procs, open_alloc(p)
  PROVE  Promise!Next \/ UNCHANGED file_table
<1>1. PICK f \in Files :
        /\ ref[f] = 0
        /\ \/ /\ Used(p) # Fds
              /\ file_table' = [file_table EXCEPT ![p][FirstFree(p)] = f]
           \/ UNCHANGED file_table
  BY DEF open_alloc, Unreferenced
<1>2. \A q \in Procs : ~LastClosing(q)
  BY NobodyCloses DEF open_alloc, Free, Closing, LastClosing
<1>3. \A q \in Procs, i \in Fds : file_table[q][i] # f
  <2>1. ASSUME NEW q \in Procs, NEW i \in Fds, file_table[q][i] = f PROVE FALSE
    <3>1. i \in Used(q)
      BY <2>1, FileAssumption DEF Used
    <3>2. ref[f] > 0
      BY <1>2, <2>1, <3>1, HeldFile
    <3> QED BY <1>1, <3>2
  <2> QED BY <2>1
<1>4. ASSUME Used(p) # Fds, file_table' = [file_table EXCEPT ![p][FirstFree(p)] = f]
      PROVE  Promise!Next
  <2>1. FirstFree(p) \in Fds /\ file_table[p][FirstFree(p)] = NoFile
    BY <1>4, FirstFreeIsFree
  <2>2. Promise!Open(p, FirstFree(p))
    BY <1>3, <1>4, <2>1 DEF Promise!Open, Promise!InUse
  <2> QED BY <2>1, <2>2 DEF Promise!Next
<1> QED BY <1>1, <1>4

LEMMA DupKeepsPromise ==
  ASSUME FileInv, NEW p \in Procs, NEW i \in Fds, dup(p, i) PROVE Promise!Next
<1>1. /\ Used(p) # Fds /\ file_table[p][i] # NoFile
      /\ file_table' = [file_table EXCEPT ![p][FirstFree(p)] = file_table[p][i]]
  BY DEF dup, Used
<1>2. FirstFree(p) \in Fds /\ file_table[p][FirstFree(p)] = NoFile
  BY <1>1, FirstFreeIsFree
<1>3. Promise!Dup(p, FirstFree(p))
  BY <1>1, <1>2 DEF Promise!Dup
<1> QED BY <1>2, <1>3 DEF Promise!Next

LEMMA ForkKeepsPromise ==
  ASSUME FileInv, NEW p \in Procs, fork_copy(p) PROVE Promise!Next
<1>1. PICK i \in Used(p) \ Used(child[p]) :
        file_table' = [file_table EXCEPT ![child[p]][i] = file_table[p][i]]
  BY DEF fork_copy
<1>2. child[p] \in Procs
  BY DEF FileInv, FileTypeOK
<1>3. i \in Fds /\ file_table[p][i] # NoFile /\ file_table[child[p]][i] = NoFile
  BY DEF Used
<1>4. Promise!Inherit(child[p], i)
  BY <1>1, <1>3 DEF Promise!Inherit
<1> QED BY <1>2, <1>3, <1>4 DEF Promise!Next

LEMMA RemoveKeepsPromise ==
  ASSUME FileInv, NEW p \in Procs, Closing(p), RemoveFd(p) PROVE Promise!Next
<1>1. fd[p] \in Fds /\ file_table[p][fd[p]] # NoFile
  BY FileAssumption DEF FileInv, FileTypeOK, CallOK
<1>2. Promise!Close(p, fd[p])
  BY <1>1 DEF RemoveFd, Promise!Close
<1> QED BY <1>1, <1>2 DEF Promise!Next

\* The table implements OpenFiles: nobody ever opens a file that a descriptor still refers to.
THEOREM TableKeepsPromise == ASSUME RacyClose = FALSE PROVE Spec => KeepsPromise
<1>1. Init => Promise!Init
  BY DEF Init, Promise!Init
<1>2. ASSUME FileInv, [Next]_vars PROVE Promise!Next \/ UNCHANGED file_table
  <2>1. CASE UNCHANGED vars
    BY <2>1 DEF vars
  <2>2. ASSUME NEW p \in Procs, Begin(p) PROVE Promise!Next \/ UNCHANGED file_table
    BY <1>2, <2>2, OpenKeepsPromise, DupKeepsPromise DEF Begin, fork_begin, exit_begin
  <2>3. ASSUME NEW p \in Procs, Continue(p) PROVE Promise!Next \/ UNCHANGED file_table
    <3>1. close_dec(p) => Promise!Next \/ UNCHANGED file_table
      BY <1>2, RemoveKeepsPromise DEF close_dec, Closing
    <3>2. close_free(p) => Promise!Next
      BY <1>2, RemoveKeepsPromise DEF close_free, Closing
    <3> QED BY <1>2, <2>3, <3>1, <3>2, ForkKeepsPromise
        DEF Continue, open_failed, open_fs, fork_end, close_fs, exit_end
  <2>4. ASSUME NEW p \in Procs, NEW i \in Fds, close_load(p, i) PROVE UNCHANGED file_table
    BY <2>4 DEF close_load
  <2> QED BY <1>2, <2>1, <2>2, <2>3, <2>4 DEF Next
<1>3. ASSUME FileInv, [Next]_vars PROVE [Promise!Next]_file_table
  BY <1>2, <1>3
<1>4. Spec => Promise!Init /\ [][Promise!Next]_file_table
  BY <1>1, <1>3, FileInvariant, PTL DEF Spec
<1> QED BY <1>4 DEF KeepsPromise, Promise!Spec
=============================================================================
