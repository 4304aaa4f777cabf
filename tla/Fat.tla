-------------------------------- MODULE Fat --------------------------------
(***************************************************************************)
(* The FAT16 file system, fs/fatfs/fatfs.c: the allocation table with a    *)
(* chain of clusters per file, the root directory, and the open files with *)
(* their position, kept twice: as a byte offset and as a cluster.          *)
(*                                                                         *)
(* Every call runs under the file system's mutex (fs_protect), so one call *)
(* is in progress at a time, `op'.  Read and write go through the file     *)
(* cluster by cluster, one step for each part of the loop.  A file is cut  *)
(* into units, Cb to a cluster; what a unit holds is <<entry, offset>>:    *)
(* which file it was written for and where.                                *)
(*                                                                         *)
(* Directory entries of an open file are out of date until it is closed.   *)
(***************************************************************************)
EXTENDS Integers, FiniteSets

CONSTANTS LastCluster,   (* the table has entries for 2 .. LastCluster     *)
          LastEntry,     (* the root directory has entries 0 .. LastEntry  *)
          Cb,            (* cluster_byte_size, in units                    *)
          Word,          (* 2^32 in the code; no size comes to it          *)
          Names,         (* of files                                       *)
          NameEnd,       (* DIRITEM_NAME_END: no entry from here on        *)
          NameFree,      (* DIRITEM_NAME_FREE, left by another system      *)
          Files,         (* the elements of file_table for FAT files       *)
          NoFile,        (* no call is in progress                         *)
          Modes,         (* the flags files are opened with                *)
          Reads, Writes, (* the lengths of reads and writes                *)
          Offsets,       (* where seeks go                                 *)
          HostSizes,     (* of a file another system put on the disk,      *)
                         (* 0 if there is none                             *)
          Unwritten,     (* what a unit holds before it is written         *)
          Careless       (* which of these processes do: "share" a file    *)
                         (* through two opens or unlink it while open,     *)
                         (* "miss" a file when they open for writing,      *)
                         (* "seek" behind a file's end                     *)

Flags == {"WRONLY", "RDWR", "CREAT", "TRUNC"}

ASSUME FatAssumption ==
       /\ LastCluster \in Nat \ {0, 1} /\ LastEntry \in Nat \ {0}
       /\ Cb \in Nat \ {0} /\ Word \in Nat \ {0}
       /\ {NameEnd, NameFree} \cap Names = {} /\ NameEnd # NameFree
       /\ NoFile \notin Files /\ Modes \subseteq SUBSET Flags
       /\ Reads \cup Writes \subseteq Nat \ {0} /\ Offsets \subseteq Nat
       /\ HostSizes \subseteq 0 .. Cb * (LastCluster - 1)
       /\ Careless \subseteq {"share", "miss", "seek"}

VARIABLES fat,    (* the allocation table                                  *)
          dir,    (* the root directory: name, sblk and size of each entry *)
          data,   (* what is in each unit of each cluster                  *)
          file,   (* the file_t of each open file                          *)
          op,     (* the read or write in progress                         *)
          overwritten  (* the entries of files written in front of their   *)
                       (* end since they were empty (not in the code)      *)

fatVars == <<fat, dir, data, file, op, overwritten>>

Clusters == 2 .. LastCluster
Entries == 0 .. LastEntry
Free == 0                     (* FAT_CLUSTER_FREE                          *)
Invalid == LastCluster + 1    (* FAT_CLUSTER_INVALID, the end of a chain   *)
HostEnd == LastCluster + 2    (* the end mark other systems write, 0xFFFF  *)

Closed == [ref |-> 0, mode |-> {}, size |-> 0, pos |-> 0, sblk |-> 0, cblk |-> 0, p_index |-> 0]
NoOp == [step |-> "idle", f |-> NoFile, writing |-> FALSE,
         left |-> 0, inc |-> 0, then |-> "idle"]
-----------------------------------------------------------------------------
(* Chains.                                                                 *)

cluster_is_valid(c) == c \in Clusters

cluster_get_next(c) == IF cluster_is_valid(c) THEN fat[c] ELSE Invalid

\* The k-th cluster of the chain that starts at c, counted from 0.
Nth(c, k) ==
    LET n[i \in 0 .. k] == IF i = 0 THEN c ELSE cluster_get_next(n[i - 1])
    IN  n[k]

\* The clusters of the chain.
Chain(c) == {Nth(c, k) : k \in 0 .. LastCluster - 2} \cap Clusters

\* cluster_free_chain
FreeChain(c) == [x \in Clusters |-> IF x \in Chain(c) THEN Free ELSE fat[x]]

\* A freed cluster keeps its units, but nobody should read them: they count as junk.
Scrap(c) == [x \in Clusters |-> IF x \in Chain(c) THEN [o \in 0 .. Cb - 1 |-> Unwritten] ELSE data[x]]

\* cluster_alloc_free looks for n free clusters from the start of the table (here as long as
\* the disk has clusters; the code searches every entry of the table's sectors) ...
IsFree_OrLast(c) == fat[c] \in {Free, Invalid}
IsFree(c) == fat[c] = Free

Lowest(n) ==
    CHOOSE S \in SUBSET {c \in Clusters : IsFree(c)} :
        Cardinality(S) = n /\ \A c \in Clusters \ S : IsFree(c) => \A s \in S : s < c

FirstOf(S) == CHOOSE c \in S : \A d \in S : c <= d

\* ... and links them, the last one with the mark of the end.
Link(S) ==
    [c \in Clusters |->
        IF c \notin S THEN fat[c]
        ELSE LET later == {d \in S : c < d}
             IN  IF later = {} THEN Invalid ELSE FirstOf(later)]
-----------------------------------------------------------------------------
(* The disk as another system left it: perhaps a deleted file, perhaps one *)
(* file with exactly the clusters it needs.                                *)
Up(n) == (n + Cb - 1) \div Cb

FatInit ==
    /\ \E name \in Names, size \in HostSizes, deleted \in BOOLEAN :
        LET last == Up(size) + 1
            e == IF deleted THEN 1 ELSE 0
        IN
        /\ fat = [c \in Clusters |-> IF c > last THEN Free
                                     ELSE IF c = last THEN HostEnd ELSE c + 1]
        /\ data = [c \in Clusters |-> [o \in 0 .. Cb - 1 |->
                      IF (c - 2) * Cb + o < size THEN <<e, (c - 2) * Cb + o>> ELSE Unwritten]]
        /\ dir = [i \in Entries |->
                     IF i = e /\ size > 0 THEN [name |-> name, sblk |-> 2, size |-> size]
                     ELSE [name |-> IF i < e THEN NameFree ELSE NameEnd, sblk |-> 0, size |-> 0]]
    /\ file = [f \in Files |-> Closed]
    /\ op = NoOp
    /\ overwritten = {}

Calm == op.step = "idle"
Open(f) == file[f].ref > 0
-----------------------------------------------------------------------------
(* The directory.                                                          *)

\* A scan stops at the first entry with the name for the end.
Scanned == {i \in Entries : \A j \in 0 .. i : dir[j].name # NameEnd}
Matches(name) == {i \in Scanned : dir[i].name = name}

\* Where fatfs_open puts a new file: the entry where its scan ended, otherwise the last
\* deleted one; -1 if there is neither.
NewIndex ==
    LET deleted == {i \in Scanned : dir[i].name = NameFree} IN
    IF Scanned # Entries THEN Cardinality(Scanned)
    ELSE IF deleted # {} THEN CHOOSE i \in deleted : \A j \in deleted : j <= i
    ELSE -1

\* read_from_diritem
FromItem(mode, i, item) ==
    [ref |-> 1, mode |-> mode, size |-> item.size, pos |-> 0,
     sblk |-> item.sblk, cblk |-> item.sblk, p_index |-> i]

\* An open file that has its data in the entry.
InUse(i) == \E f \in Files : Open(f) /\ file[f].p_index = i
Undisturbed(name) ==
    "share" \in Careless \/ \A i \in Entries : dir[i].name = name => ~InUse(i)

\* sys_open with fatfs_open, of a file that is there.
Truncated_SameSize(t) == [t EXCEPT !.sblk = Invalid, !.cblk = Invalid]
Truncated(t) == [t EXCEPT !.sblk = Invalid, !.cblk = Invalid, !.size = 0]

open_existing(f, name, mode) ==
    LET i == FirstOf(Matches(name))
        t == FromItem(mode, i, dir[i])
    IN
    /\ Matches(name) # {}
    /\ \/ /\ "TRUNC" \in mode
          /\ fat' = FreeChain(t.sblk)
          /\ data' = Scrap(t.sblk)
          /\ file' = [file EXCEPT ![f] = Truncated(t)]
          /\ overwritten' = overwritten \ {i}
       \/ /\ "TRUNC" \notin mode
          /\ file' = [file EXCEPT ![f] = t]
          /\ UNCHANGED <<fat, data, overwritten>>
    /\ UNCHANGED <<dir, op>>

open_new(f, name, mode) ==
    LET item == [name |-> name, sblk |-> Invalid, size |-> 0] IN
    /\ Matches(name) = {}
    /\ "CREAT" \in mode
    /\ NewIndex >= 0
    /\ dir' = [dir EXCEPT ![NewIndex] = item]
    /\ file' = [file EXCEPT ![f] = FromItem(mode, NewIndex, item)]
    /\ overwritten' = overwritten \ {NewIndex}
    /\ UNCHANGED <<fat, data, op>>

\* The open fails, but the file_t stays taken and will be closed like any other.
open_failed(f, name, mode) ==
    /\ Matches(name) = {}
    /\ "CREAT" \in mode => NewIndex < 0
    /\ "miss" \in Careless \/ mode = {}
    /\ file' = [file EXCEPT ![f] = [Closed EXCEPT !.ref = 1, !.mode = mode]]
    /\ UNCHANGED <<fat, dir, data, op, overwritten>>

fatfs_open(f, name, mode) ==
    /\ Calm
    /\ ~Open(f)
    /\ Undisturbed(name)
    /\ open_existing(f, name, mode) \/ open_new(f, name, mode) \/ open_failed(f, name, mode)

\* The last sys_close of the file: fatfs_close writes its entry back.
fatfs_close(f) ==
    /\ Calm
    /\ Open(f)
    /\ \/ /\ file[f].mode # {}
          /\ dir' = [dir EXCEPT ![file[f].p_index].sblk = file[f].sblk,
                                ![file[f].p_index].size = file[f].size]
       \/ file[f].mode = {} /\ UNCHANGED dir
    /\ file' = [file EXCEPT ![f] = Closed]
    /\ UNCHANGED <<fat, data, op, overwritten>>

\* The entry is overwritten with zeros.
fatfs_unlink(name) ==
    LET i == FirstOf(Matches(name)) IN
    /\ Calm
    /\ Undisturbed(name)
    /\ Matches(name) # {}
    /\ fat' = FreeChain(dir[i].sblk)
    /\ data' = Scrap(dir[i].sblk)
    /\ dir' = [dir EXCEPT ![i] = [name |-> NameEnd, sblk |-> 0, size |-> 0]]
    /\ UNCHANGED <<file, op, overwritten>>
-----------------------------------------------------------------------------
(* Read, write and seek.                                                   *)

\* fatfs_seek walks the chain from its start and changes nothing if it leaves it.
SeekCluster(t, offset) == Nth(t.sblk, offset \div Cb)

fatfs_seek(f, offset) ==
    LET t == file[f]
        c == SeekCluster(t, offset)
    IN
    /\ Calm
    /\ Open(f)
    /\ "seek" \in Careless \/ offset <= t.size
    /\ offset >= Cb => cluster_is_valid(c)
    /\ file' = [file EXCEPT ![f].pos = offset, ![f].cblk = c]
    /\ UNCHANGED <<fat, dir, data, op, overwritten>>

fatfs_read(f, n) ==
    LET t == file[f]
        nbytes == IF t.pos + n > t.size THEN (t.size - t.pos) % Word ELSE n
    IN
    /\ Calm
    /\ Open(f)
    /\ t.mode # {"WRONLY"}
    /\ nbytes > 0
    /\ op' = [NoOp EXCEPT !.step = "copy", !.f = f, !.left = nbytes]
    /\ UNCHANGED <<fat, dir, data, file, overwritten>>

\* fatfs_write starts with the growth of the file.
fatfs_write(f, n) ==
    LET t == file[f] IN
    /\ Calm
    /\ Open(f)
    /\ t.mode # {}
    /\ t.size + n < Word
    /\ op' = [NoOp EXCEPT !.step = IF t.pos + n > t.size THEN "expand" ELSE "copy",
                          !.f = f, !.writing = TRUE, !.left = n,
                          !.inc = t.pos + n - t.size, !.then = "copy"]
    /\ overwritten' = overwritten \cup (IF t.pos < t.size THEN {t.p_index} ELSE {})
    /\ UNCHANGED <<fat, dir, data, file>>

\* How many clusters expand_file gets for inc more units.
Needed(size, inc) ==
    LET cfree == Cb - (size % Cb) IN
    IF size % Cb = 0 THEN Up(inc)
    ELSE IF cfree > inc THEN 0
    ELSE IF inc = cfree THEN 1 ELSE Up(inc - cfree)

\* expand_file: new clusters become the file's, or the continuation of its current one.
expand_file ==
    LET t == file[op.f]
        n == Needed(t.size, op.inc)
        S == Lowest(n)
        Enough == n <= Cardinality({c \in Clusters : IsFree(c)})
    IN
    /\ op.step = "expand"
    /\ \/ /\ n = 0
          /\ op' = [op EXCEPT !.step = op.then, !.inc = 0]
          /\ UNCHANGED <<fat, file>>
       \/ /\ n > 0 /\ Enough /\ ~cluster_is_valid(t.sblk)
          /\ fat' = Link(S)
          /\ file' = [file EXCEPT ![op.f].sblk = FirstOf(S), ![op.f].cblk = FirstOf(S)]
          /\ op' = [op EXCEPT !.step = op.then, !.inc = 0]
       \/ /\ n > 0 /\ Enough /\ cluster_is_valid(t.sblk) /\ cluster_is_valid(t.cblk)
          /\ fat' = [Link(S) EXCEPT ![t.cblk] = FirstOf(S)]
          /\ op' = [op EXCEPT !.step = op.then, !.inc = 0]
          /\ UNCHANGED file
       \/ /\ n > 0 /\ Enough /\ cluster_is_valid(t.sblk) /\ ~cluster_is_valid(t.cblk)
          /\ fat' = Link(S)
          /\ op' = NoOp
          /\ UNCHANGED file
       \/ /\ ~Enough
          /\ op' = NoOp
          /\ UNCHANGED <<fat, file>>
    /\ UNCHANGED <<dir, data, overwritten>>

\* One round of the loop of fatfs_read and fatfs_write, at most to the end of the cluster;
\* a write has made the file longer even if it overwrites.
Part(t) ==
    LET room == Cb - (t.pos % Cb) IN IF op.left > room THEN room ELSE op.left

SizeAfter(t) == t.size + Part(t)

\* move_file_pos is at the end of a cluster, where a file that is written gets one more
\* cluster if this was its last.
AtBoundary_Past(t) == (t.pos % Cb) + Part(t) > Cb
AtBoundary(t) == (t.pos % Cb) + Part(t) >= Cb

MustGrow(t) == op.writing /\ AtBoundary(t) /\ cluster_get_next(t.cblk) = Invalid

\* The end of the round: the position moves on, and to the next cluster at a boundary.
Moved(t) ==
    [t EXCEPT !.pos = @ + Part(t), !.cblk = IF AtBoundary(t) THEN cluster_get_next(@) ELSE @]
NextRound ==
    LET left == op.left - Part(file[op.f])
    IN  IF left = 0 THEN NoOp ELSE [op EXCEPT !.step = "copy", !.left = left]

Written(t) ==
    LET off == t.pos % Cb IN
    [c \in Clusters |-> [o \in 0 .. Cb - 1 |->
        IF c = t.cblk /\ o \in off .. off + Part(t) - 1
        THEN <<t.p_index, t.pos + o - off>> ELSE data[c][o]]]

copy_read ==
    /\ op.step = "copy"
    /\ ~op.writing
    /\ file' = [file EXCEPT ![op.f] = Moved(@)]
    /\ op' = NextRound
    /\ UNCHANGED <<fat, dir, data, overwritten>>

copy_written ==
    LET t == file[op.f]
        longer == [t EXCEPT !.size = SizeAfter(t)]
    IN
    /\ op.step = "copy"
    /\ op.writing
    /\ data' = Written(t)
    /\ \/ /\ ~MustGrow(t)
          /\ file' = [file EXCEPT ![op.f] = Moved(longer)]
          /\ op' = NextRound
       \/ /\ MustGrow(t)
          /\ file' = [file EXCEPT ![op.f] = longer]
          /\ op' = [op EXCEPT !.step = "expand", !.inc = Cb, !.then = "move"]
    /\ UNCHANGED <<fat, dir, overwritten>>

\* Behind the chain of an overwritten file the sectors computed from cblk are not the file
\* system's: above, a read or write there goes on without effect on any cluster; the drive may
\* also refuse it.
copy_refused ==
    /\ op.step = "copy"
    /\ ~cluster_is_valid(file[op.f].cblk)
    /\ op' = NoOp
    /\ UNCHANGED <<fat, dir, data, file, overwritten>>

\* The file has grown, the position can move on.
move ==
    /\ op.step = "move"
    /\ file' = [file EXCEPT ![op.f] = Moved(@)]
    /\ op' = NextRound
    /\ UNCHANGED <<fat, dir, data, overwritten>>

FatNext ==
    \/ \E f \in Files :
        \/ \E name \in Names, mode \in Modes : fatfs_open(f, name, mode)
        \/ (\E n \in Reads : fatfs_read(f, n)) \/ (\E n \in Writes : fatfs_write(f, n))
        \/ \E offset \in Offsets : fatfs_seek(f, offset)
        \/ fatfs_close(f)
    \/ \E name \in Names : fatfs_unlink(name)
    \/ expand_file \/ copy_read \/ copy_written \/ copy_refused \/ move

FatSpec == FatInit /\ [][FatNext]_fatVars
-----------------------------------------------------------------------------
FatTypeOK ==
    /\ fat \in [Clusters -> Clusters \cup {Free, Invalid, HostEnd}]
    /\ \A i \in Entries : /\ dir[i].name \in Names \cup {NameEnd, NameFree}
                          /\ dir[i].sblk \in Clusters \cup {Free, Invalid}
                          /\ dir[i].size \in 0 .. Word - 1
    /\ \A f \in Files : /\ file[f].mode \subseteq Flags
                        /\ {file[f].size, file[f].pos} \subseteq 0 .. Word - 1
                        /\ file[f].sblk \in Clusters \cup {Free, Invalid}
                        /\ file[f].cblk \in Clusters \cup {Free, Invalid, HostEnd}
                        /\ file[f].p_index \in Entries

\* The files there are, and what is known of each: from the file_t that has it open for
\* writing, otherwise from the directory.
Live == {i \in Entries : dir[i].name \in Names}
Writer(i) == {f \in Files : Open(f) /\ file[f].mode # {} /\ file[f].p_index = i}
View(i) ==
    IF Writer(i) = {} THEN [sblk |-> dir[i].sblk, size |-> dir[i].size]
    ELSE LET f == CHOOSE f \in Writer(i) : TRUE IN [sblk |-> file[f].sblk, size |-> file[f].size]

\* The chains of the files: each comes to an end, goes through clusters that are taken, and
\* shares none with another file, whatever was truncated, unlinked or hidden before.
ChainsSound ==
    LET start == [i \in Live |-> View(i).sblk]
        chain == [i \in Live |-> Chain(start[i])]
    IN
    \A i \in Live :
        /\ ~cluster_is_valid(Nth(start[i], LastCluster - 1))
        /\ \A c \in chain[i] : fat[c] # Free
        /\ \A j \in Live \ {i} : chain[i] \cap chain[j] = {}

\* Every unit of a file that was only appended to is the one that was written there: no
\* allocation, growth or removal of another file and no write into one touches its data, and
\* no growth, not even one that fails, breaks its own chain.
ContentsIntact ==
    \A i \in Live \ overwritten :
        LET v == View(i) IN
        \A o \in 0 .. v.size - 1 :
            LET c == Nth(v.sblk, o \div Cb) IN
            cluster_is_valid(c) /\ data[c][o % Cb] = <<i, o>>

\* The two positions of an open file agree, so that a read returns the file's own data:
\* cblk is the cluster of pos as long as there is something at pos.
PosFollowsChain ==
    \A f \in Files : Open(f) /\ file[f].pos < file[f].size =>
        file[f].cblk = Nth(file[f].sblk, file[f].pos \div Cb)

\* fatfs.c:666 "if the file is not big enough, it is expanded first": when a write copies, the
\* file has a cluster for every unit that is left to write.
RoomForWrite ==
    op.step = "copy" /\ op.writing =>
        LET t == file[op.f] IN
        \A o \in t.pos .. t.pos + op.left - 1 : cluster_is_valid(Nth(t.sblk, o \div Cb))

\* fatfs.c:337 "at this time the current cluster has reached the last cluster": expand_file
\* links the new clusters behind the file's last one.
ExpandsAtLastCluster ==
    op.step = "expand" /\ cluster_is_valid(file[op.f].sblk) /\ Needed(file[op.f].size, op.inc) > 0 =>
        /\ cluster_is_valid(file[op.f].cblk)
        /\ ~cluster_is_valid(cluster_get_next(file[op.f].cblk))

\* fatfs.c:536 "the end entry, no need to scan on": behind it there are no files, so a scan
\* finds every file there is.
NothingBehindEnd == Live \subseteq Scanned
=============================================================================
