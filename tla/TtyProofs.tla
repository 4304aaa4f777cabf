----------------------------- MODULE TtyProofs -----------------------------
(***************************************************************************)
(* The terminal's queues keep their characters in order, the tokens of its *)
(* semaphores count them, and no output is left behind, for any number of  *)
(* tasks, any sizes of the queues and any messages, as long as no key      *)
(* overruns a reader (Overrun is FALSE): with an overrun a key finds the   *)
(* input queue full (KeyHasRoom of Tty fails) and its semaphore counts a   *)
(* character that is not there.                                            *)
(*                                                                         *)
(* Behind them, the keyboard that feeds them: no modifier sticks and every *)
(* key arrives as it was pressed, for every set of keys and however many   *)
(* scan codes wait in the controller.                                      *)
(***************************************************************************)
EXTENDS Tty, Kbd, FiniteSetTheorems, SequenceTheorems, TLAPS

Queues == {"in", "out"}

\* The i-th cell after cell r of a ring of n cells.
Cell(n, r, i) == (r + i) % n

\* The two ring buffers.
FifosOK ==
    /\ DOMAIN buf = Queues
    /\ \A q \in Queues : buf[q] \in [0 .. Size[q] - 1 -> Char \cup {Junk}]
    /\ read \in [Queues -> Nat] /\ write \in [Queues -> Nat]
    /\ count \in [Queues -> Nat]
    /\ \A q \in Queues : read[q] < Size[q] /\ write[q] = Cell(Size[q], read[q], count[q]) /\ count[q] <= Size[q]

\* The input queue holds what was typed.
HoldsKeys == \A i \in Nat : i < count["in"] => buf["in"][Cell(IbufSize, read["in"], i)] \in Keys

\* The tasks.
TasksOK ==
    /\ owner \in Procs \cup {NoProc}
    /\ pc \in [Procs -> Steps]
    /\ line \in [Procs -> Seq(Char)] /\ reading \in [Procs -> BOOLEAN]
    /\ todo \in [Procs -> Seq(Keys)] /\ c \in [Procs -> Char]
    /\ \A p \in Procs : pc[p] \in {"put_wait", "put_test", "put"} => todo[p] # <<>>

\* Who waits for a token waits at one place, once, and for want of tokens.
WaitStep == [q \in Queues |-> IF q = "in" THEN "read_test" ELSE "put_test"]
SemsOK ==
    /\ tokens \in [Queues -> Nat]
    /\ waiting \in [Queues -> Seq(Procs)]
    /\ \A q \in Queues : /\ IsInjective(waiting[q])
                         /\ \A p \in Range(waiting[q]) : pc[p] = WaitStep[q]
                         /\ tokens[q] > 0 => waiting[q] = <<>>

\* The characters and places that a task has its token for.
Fetchers == Doing({"read_test", "read_get"})
Fillers == Doing({"put_test", "put"})
Emptiers == Doing({"drain_notify"})
CharsCounted == count["in"] = tokens["in"] + Cardinality(Fetchers)
PlacesCounted ==
    ObufSize - count["out"] = tokens["out"] + Cardinality(Fillers) + Cardinality(Emptiers)

\* The screen is drained by who holds its mutex, one character after the other.
Draining == {"drain_test", "drain_get", "drain_notify", "unlock"}
OwnerDrains ==
    \A p \in Procs :
        /\ pc[p] \in Draining <=> owner = p
        /\ pc[p] = "drain_get" => count["out"] > 0

\* A task that will still look at the output queue.
WillLook(p) ==
    \/ pc[p] \in {"lock", "drain_test", "drain_get", "drain_notify"}
    \/ pc[p] \in {"put_wait", "put_test", "put"} /\ c[p] = "nl"
OutputWatched == count["out"] > 0 => \E p \in Procs : WillLook(p)

\* The inductive invariant.
TtyInv ==
    /\ FifosOK
    /\ HoldsKeys
    /\ TasksOK
    /\ SemsOK
    /\ CharsCounted
    /\ PlacesCounted
    /\ OwnerDrains
    /\ OutputWatched
-----------------------------------------------------------------------------
LEMMA Sizes ==
  /\ Size["in"] = IbufSize /\ Size["out"] = ObufSize
  /\ \A q \in Queues : Size[q] \in Nat /\ Size[q] > 0
<1>1. Cardinality(Procs) \in Nat
  BY TtyAssumption, FS_CardinalityType
<1> QED BY <1>1, TtyAssumption DEF Size, Queues

LEMMA RingIndex ==
  ASSUME NEW S \in Nat, S > 0, NEW x \in Nat, x < S + S
  PROVE  x % S = IF x < S THEN x ELSE x - S
<1>1. CASE x < S
  BY <1>1
<1>2. CASE x >= S
  BY <1>2
<1> QED BY <1>1, <1>2

\* Walking around a ring: the i-th cell after r, that two are different, and the next one.
LEMMA CellAt ==
  ASSUME NEW S \in Nat, NEW r \in Nat, NEW i \in Nat, r < S, i <= S
  PROVE  \E a \in Nat : /\ a = Cell(S, r, i) /\ a < S
                        /\ r + i < S => a = r + i
                        /\ ~(r + i < S) => a = r + i - S
<1>1. S > 0
  OBVIOUS
<1>2. PICK x \in Nat : x = r + i /\ x < S + S
  BY <1>1
<1>3. x % S = IF x < S THEN x ELSE x - S
  BY <1>1, <1>2, RingIndex
<1>4. Cell(S, r, i) = x % S
  BY <1>1, <1>2 DEF Cell
<1>5. CASE x < S
  BY <1>1, <1>2, <1>3, <1>4, <1>5
<1>6. CASE ~(x < S)
  BY <1>1, <1>2, <1>3, <1>4, <1>6
<1> QED BY <1>5, <1>6

LEMMA CellsDiffer ==
  ASSUME NEW S \in Nat, NEW r \in Nat, NEW i \in Nat, NEW j \in Nat, r < S, i < j, j < S
  PROVE  Cell(S, r, i) # Cell(S, r, j)
<1>1. i <= S /\ j <= S
  OBVIOUS
<1>2. PICK a \in Nat : /\ a = Cell(S, r, i) /\ a < S
                       /\ r + i < S => a = r + i
                       /\ ~(r + i < S) => a = r + i - S
  BY <1>1, CellAt
<1>3. PICK b \in Nat : /\ b = Cell(S, r, j) /\ b < S
                       /\ r + j < S => b = r + j
                       /\ ~(r + j < S) => b = r + j - S
  BY <1>1, CellAt
<1>4. a # b
  BY <1>1, <1>2, <1>3
<1> QED BY <1>2, <1>3, <1>4

LEMMA NextCell ==
  ASSUME NEW S \in Nat, NEW r \in Nat, NEW n \in Nat, r < S,
         r + 1 < S => n = r + 1, ~(r + 1 < S) => n = 0
  PROVE  /\ n < S
         /\ Cell(S, r, 0) = r
         /\ \A i \in Nat : i < S => Cell(S, n, i) = Cell(S, r, i + 1)
<1>1. n < S
  OBVIOUS
<1>2. Cell(S, r, 0) = r
  <2>1. PICK o \in Nat : o = 0
    OBVIOUS
  <2>2. o <= S
    BY <2>1
  <2>3. PICK z \in Nat : /\ z = Cell(S, r, o) /\ z < S
                         /\ r + o < S => z = r + o
                         /\ ~(r + o < S) => z = r + o - S
    BY <2>2, CellAt
  <2>4. z = r
    BY <2>1, <2>3
  <2> QED BY <2>1, <2>3, <2>4
<1>3. ASSUME NEW i \in Nat, i < S PROVE Cell(S, n, i) = Cell(S, r, i + 1)
  <2>1. i <= S
    BY <1>3
  <2>2. PICK a \in Nat : /\ a = Cell(S, n, i) /\ a < S
                         /\ n + i < S => a = n + i
                         /\ ~(n + i < S) => a = n + i - S
    BY <1>1, <2>1, CellAt
  <2>3. PICK j \in Nat : j = i + 1
    OBVIOUS
  <2>4. j <= S
    BY <1>3, <2>3
  <2>5. PICK b \in Nat : /\ b = Cell(S, r, j) /\ b < S
                         /\ r + j < S => b = r + j
                         /\ ~(r + j < S) => b = r + j - S
    BY <2>4, CellAt
  <2>6. a = b
    BY <1>1, <1>3, <2>2, <2>3, <2>5
  <2> QED BY <2>2, <2>3, <2>5, <2>6
<1> QED BY <1>1, <1>2, <1>3

LEMMA AfterLast ==
  ASSUME NEW S \in Nat, NEW r \in Nat, NEW n \in Nat, NEW w \in Nat, r < S, n < S,
         w = Cell(S, r, n)
  PROVE  /\ w < S
         /\ (IF w + 1 >= S THEN 0 ELSE w + 1) = Cell(S, r, n + 1)
<1>1. n <= S
  OBVIOUS
<1>2. PICK a \in Nat : /\ a = Cell(S, r, n) /\ a < S
                       /\ r + n < S => a = r + n
                       /\ ~(r + n < S) => a = r + n - S
  BY <1>1, CellAt
<1>3. PICK j \in Nat : j = n + 1
  OBVIOUS
<1>4. j <= S
  BY <1>3
<1>5. PICK b \in Nat : /\ b = Cell(S, r, j) /\ b < S
                       /\ r + j < S => b = r + j
                       /\ ~(r + j < S) => b = r + j - S
  BY <1>4, CellAt
<1>6. (IF a + 1 >= S THEN 0 ELSE a + 1) = b
  BY <1>2, <1>3, <1>5
<1> QED BY <1>2, <1>3, <1>5, <1>6

\* tty_fifo_put adds the character after the youngest one.
LEMMA PutCell ==
  ASSUME FifosOK, NEW q \in Queues, NEW char \in Char, Put(q, char), count[q] < Size[q]
  PROVE  /\ FifosOK'
         /\ count'[q] = count[q] + 1 /\ read'[q] = read[q]
         /\ \A o \in Queues \ {q} : buf'[o] = buf[o] /\ read'[o] = read[o] /\ count'[o] = count[o]
         /\ \A i \in Nat : i < count[q] =>
              buf'[q][Cell(Size[q], read[q], i)] = buf[q][Cell(Size[q], read[q], i)]
         /\ buf'[q][Cell(Size[q], read[q], count[q])] = char
<1>1. PICK S \in Nat, r \in Nat, n \in Nat, w \in Nat, m \in Nat :
        /\ S = Size[q] /\ r = read[q] /\ n = count[q] /\ w = write[q] /\ m = NextIndex(q, w)
        /\ r < S /\ n < S /\ w = Cell(S, r, n) /\ m = IF w + 1 >= S THEN 0 ELSE w + 1
  <2>1. NextIndex(q, write[q]) \in Nat
    BY Sizes DEF FifosOK, NextIndex
  <2> QED BY <2>1, Sizes DEF FifosOK, NextIndex
<1>2. r < S /\ n < S /\ n + 1 <= S
  BY <1>1
<1>3. w < S /\ m = Cell(S, r, n + 1)
  BY <1>1, <1>2, AfterLast
<1>4. PICK b \in [0 .. S - 1 -> Char \cup {Junk}] : b = buf[q]
  BY <1>1 DEF FifosOK
<1>5. /\ buf' = [buf EXCEPT ![q] = [b EXCEPT ![w] = char]]
      /\ write' = [write EXCEPT ![q] = m]
      /\ count' = [count EXCEPT ![q] = n + 1]
      /\ read' = read
  BY <1>1, <1>4 DEF Put
<1>6. /\ DOMAIN buf' = Queues /\ buf'[q] = [b EXCEPT ![w] = char]
      /\ read'[q] = r /\ count'[q] = n + 1 /\ write'[q] = m
      /\ \A o \in Queues \ {q} : /\ buf'[o] = buf[o] /\ read'[o] = read[o]
                                 /\ count'[o] = count[o] /\ write'[o] = write[o]
  BY <1>1, <1>5 DEF FifosOK
<1>7. ASSUME NEW i \in Nat, i < n PROVE buf'[q][Cell(S, r, i)] = b[Cell(S, r, i)]
  <2>1. i <= S
    BY <1>2, <1>7
  <2>2. PICK x \in Nat : /\ x = Cell(S, r, i) /\ x < S
                         /\ r + i < S => x = r + i
                         /\ ~(r + i < S) => x = r + i - S
    BY <1>2, <2>1, CellAt
  <2>3. Cell(S, r, i) # Cell(S, r, n)
    BY <1>2, <1>7, CellsDiffer
  <2>4. x \in 0 .. S - 1 /\ x # w
    BY <1>1, <2>2, <2>3
  <2> QED BY <1>6, <2>2, <2>4
<1>8. buf'[q][w] = char
  <2>1. w \in 0 .. S - 1
    BY <1>3
  <2> QED BY <1>6, <2>1
<1>9. FifosOK'
  <2>1. read' \in [Queues -> Nat] /\ write' \in [Queues -> Nat] /\ count' \in [Queues -> Nat]
    <3>1. n + 1 \in Nat
      OBVIOUS
    <3> QED BY <1>5, <3>1 DEF FifosOK
  <2>2. ASSUME NEW o \in Queues
        PROVE  /\ buf'[o] \in [0 .. Size[o] - 1 -> Char \cup {Junk}]
               /\ read'[o] < Size[o] /\ write'[o] = Cell(Size[o], read'[o], count'[o])
               /\ count'[o] <= Size[o]
    <3>1. CASE o = q
      <4>1. buf'[q] \in [0 .. S - 1 -> Char \cup {Junk}]
        BY <1>6
      <4> QED BY <1>1, <1>2, <1>3, <1>6, <3>1, <4>1
    <3>2. CASE o # q
      BY <1>6, <3>2 DEF FifosOK
    <3> QED BY <3>1, <3>2
  <2> QED BY <1>6, <2>1, <2>2 DEF FifosOK
<1> QED BY <1>1, <1>4, <1>6, <1>7, <1>8, <1>9

\* tty_fifo_get takes the oldest character out.
LEMMA GetCell ==
  ASSUME FifosOK, NEW q \in Queues, Get(q), count[q] > 0
  PROVE  /\ FifosOK'
         /\ count'[q] = count[q] - 1
         /\ \A o \in Queues \ {q} : buf'[o] = buf[o] /\ read'[o] = read[o] /\ count'[o] = count[o]
         /\ \A i \in Nat : i + 1 < count[q] =>
              buf'[q][Cell(Size[q], read'[q], i)] = buf[q][Cell(Size[q], read[q], i + 1)]
         /\ Cell(Size[q], read[q], 0) = read[q]
<1>1. PICK S \in Nat, r \in Nat, n \in Nat, s \in Nat :
        /\ S = Size[q] /\ r = read[q] /\ n = count[q] /\ s = NextIndex(q, r)
        /\ r < S /\ n <= S /\ n > 0 /\ s = IF r + 1 >= S THEN 0 ELSE r + 1
  <2>1. NextIndex(q, read[q]) \in Nat
    BY Sizes DEF FifosOK, NextIndex
  <2> QED BY <2>1, Sizes DEF FifosOK, NextIndex
<1>2. r < S /\ n <= S /\ n > 0 /\ s = IF r + 1 >= S THEN 0 ELSE r + 1
  BY <1>1
<1>3. PICK m \in Nat : m = n - 1 /\ m < S /\ m + 1 = n
  BY <1>2
<1>4. PICK b \in [0 .. S - 1 -> Char \cup {Junk}] : b = buf[q]
  BY <1>1 DEF FifosOK
<1>5. /\ buf' = [buf EXCEPT ![q] = [b EXCEPT ![r] = Junk]]
      /\ read' = [read EXCEPT ![q] = s]
      /\ count' = [count EXCEPT ![q] = m]
      /\ write' = write
  BY <1>1, <1>3, <1>4 DEF Get
<1>6. /\ DOMAIN buf' = Queues /\ buf'[q] = [b EXCEPT ![r] = Junk]
      /\ read'[q] = s /\ count'[q] = m /\ write'[q] = write[q]
      /\ \A o \in Queues \ {q} : /\ buf'[o] = buf[o] /\ read'[o] = read[o]
                                 /\ count'[o] = count[o] /\ write'[o] = write[o]
  BY <1>1, <1>5 DEF FifosOK
<1>7. s < S /\ Cell(S, r, 0) = r /\ \A i \in Nat : i < S => Cell(S, s, i) = Cell(S, r, i + 1)
  <2>1. r < S /\ (r + 1 < S => s = r + 1) /\ (~(r + 1 < S) => s = 0)
    BY <1>2
  <2> QED BY <2>1, NextCell
<1>8. ASSUME NEW i \in Nat, i + 1 < n
      PROVE  buf'[q][Cell(S, s, i)] = b[Cell(S, r, i + 1)]
  <2>1. PICK j \in Nat : j = i + 1
    OBVIOUS
  <2>2. j < S /\ i < S /\ 0 < j /\ j <= S
    BY <1>2, <1>8, <2>1
  <2>3. r < S
    BY <1>2
  <2>4. PICK x \in Nat : /\ x = Cell(S, r, j) /\ x < S
                         /\ r + j < S => x = r + j
                         /\ ~(r + j < S) => x = r + j - S
    BY <2>3, <2>2, CellAt
  <2>5. Cell(S, r, 0) # Cell(S, r, j)
    BY <2>3, <2>2, CellsDiffer
  <2>6. x \in 0 .. S - 1 /\ x # r
    BY <1>7, <2>4, <2>5
  <2>7. Cell(S, s, i) = Cell(S, r, j)
    BY <1>7, <2>1, <2>2
  <2> QED BY <1>6, <2>1, <2>4, <2>6, <2>7
<1>9. FifosOK'
  <2>1. read' \in [Queues -> Nat] /\ write' \in [Queues -> Nat] /\ count' \in [Queues -> Nat]
    BY <1>5 DEF FifosOK
  <2>2. ASSUME NEW o \in Queues
        PROVE  /\ buf'[o] \in [0 .. Size[o] - 1 -> Char \cup {Junk}]
               /\ read'[o] < Size[o] /\ write'[o] = Cell(Size[o], read'[o], count'[o])
               /\ count'[o] <= Size[o]
    <3>1. CASE o = q
      <4>1. buf'[q] \in [0 .. S - 1 -> Char \cup {Junk}]
        BY <1>6
      <4>2. Cell(S, s, m) = Cell(S, r, n)
        BY <1>3, <1>7
      <4>3. write'[q] = Cell(S, r, n)
        BY <1>1, <1>6 DEF FifosOK
      <4>4. m <= S
        BY <1>3
      <4> QED BY <1>1, <1>6, <1>7, <3>1, <4>1, <4>2, <4>3, <4>4
    <3>2. CASE o # q
      BY <1>6, <3>2 DEF FifosOK
    <3> QED BY <3>1, <3>2
  <2> QED BY <1>6, <2>1, <2>2 DEF FifosOK
<1> QED BY <1>1, <1>3, <1>4, <1>6, <1>7, <1>8, <1>9
-----------------------------------------------------------------------------
\* Queueing for a token, and leaving the queue.
LEMMA AppendWaiter ==
  ASSUME NEW S, NEW list \in Seq(S), NEW t \in S, IsInjective(list), t \notin Range(list)
  PROVE  /\ Append(list, t) \in Seq(S)
         /\ IsInjective(Append(list, t))
         /\ Range(Append(list, t)) = Range(list) \cup {t}
<1>1. PICK n \in Nat : n = Len(list)
  OBVIOUS
<1>2. /\ Append(list, t) \in Seq(S) /\ Len(Append(list, t)) = n + 1
      /\ \A i \in 1 .. n : Append(list, t)[i] = list[i]
      /\ Append(list, t)[n + 1] = t
  BY <1>1
<1>3. PICK more : more = Append(list, t)
  OBVIOUS
<1>4. /\ more \in [1 .. n + 1 -> S] /\ \A i \in 1 .. n : more[i] = list[i]
      /\ more[n + 1] = t /\ list \in [1 .. n -> S]
  <2>1. more \in Seq(S) /\ Len(more) = n + 1
    BY <1>2, <1>3
  <2>2. more \in [1 .. Len(more) -> S] /\ list \in [1 .. Len(list) -> S]
    BY <2>1
  <2> QED BY <1>1, <1>2, <1>3, <2>1, <2>2
<1>5. \A i \in 1 .. n : list[i] # t
  BY <1>4 DEF Range
<1>6. IsInjective(more)
  BY <1>4, <1>5 DEF IsInjective
<1>7. Range(more) = Range(list) \cup {t}
  BY <1>4 DEF Range
<1> QED BY <1>2, <1>3, <1>6, <1>7

LEMMA HeadLeaves ==
  ASSUME NEW S, NEW list \in Seq(S), IsInjective(list), list # <<>>
  PROVE  /\ Head(list) \in Range(list) /\ Head(list) \in S
         /\ Tail(list) \in Seq(S)
         /\ IsInjective(Tail(list))
         /\ Range(Tail(list)) = Range(list) \ {Head(list)}
<1> DEFINE n == Len(list)
           tail == Tail(list)
<1>1. n \in Nat /\ n >= 1 /\ Head(list) = list[1] /\ list \in [1 .. n -> S]
  OBVIOUS
<1>2. tail \in Seq(S) /\ Len(tail) = n - 1 /\ DOMAIN tail = 1 .. n - 1
  BY <1>1
<1>3. \A i \in 1 .. n - 1 : tail[i] = list[i + 1]
  BY <1>1
<1>4. \A i, j \in 1 .. n : list[i] = list[j] => i = j
  BY <1>1 DEF IsInjective
<1>5. Range(list) = {list[i] : i \in 1 .. n} /\ Range(tail) = {tail[i] : i \in 1 .. n - 1}
  BY <1>1, <1>2 DEF Range
<1> HIDE DEF n, tail
<1>6. IsInjective(tail)
  BY <1>1, <1>2, <1>3, <1>4 DEF IsInjective
<1>7. Range(tail) = Range(list) \ {list[1]}
  <2>1. ASSUME NEW i \in 1 .. n - 1 PROVE tail[i] \in Range(list) \ {list[1]}
    <3>1. i + 1 \in 1 .. n /\ 1 \in 1 .. n /\ i + 1 # 1
      BY <1>1, <2>1
    <3> QED BY <1>3, <1>4, <1>5, <2>1, <3>1
  <2>2. ASSUME NEW j \in 1 .. n, j # 1 PROVE list[j] \in Range(tail)
    <3>1. j - 1 \in 1 .. n - 1 /\ tail[j - 1] = list[j]
      BY <1>1, <1>3, <2>2
    <3> QED BY <1>5, <3>1
  <2> QED BY <1>5, <2>1, <2>2
<1>8. list[1] \in Range(list) /\ list[1] \in S
  BY <1>1, <1>5
<1> QED BY <1>1, <1>2, <1>6, <1>7, <1>8 DEF tail

LEMMA OneMoreOrLess ==
  ASSUME NEW T, IsFiniteSet(T), NEW x
  PROVE  /\ Cardinality(T) \in Nat
         /\ x \notin T => Cardinality(T \cup {x}) = Cardinality(T) + 1
         /\ x \in T => Cardinality(T \ {x}) = Cardinality(T) - 1
BY FS_CardinalityType, FS_AddElement, FS_RemoveElement

LEMMA DoingFinite ==
  /\ IsFiniteSet(Fetchers) /\ IsFiniteSet(Fillers) /\ IsFiniteSet(Emptiers)
  /\ IsFiniteSet(Fetchers') /\ IsFiniteSet(Fillers') /\ IsFiniteSet(Emptiers')
BY TtyAssumption, FS_Subset DEF Fetchers, Fillers, Emptiers, Doing

LEMMA CountsAreNat ==
  /\ Cardinality(Fetchers) \in Nat /\ Cardinality(Fillers) \in Nat /\ Cardinality(Emptiers) \in Nat
  /\ Cardinality(Fetchers') \in Nat /\ Cardinality(Fillers') \in Nat /\ Cardinality(Emptiers') \in Nat
BY DoingFinite, FS_CardinalityType

\* sem_wait: the token, or the end of the queue.
LEMMA SemWait ==
  ASSUME SemsOK, pc \in [Procs -> Steps], NEW q \in Queues, NEW p \in Procs,
         ~HeldUp(p), sem_wait(q, p), pc' = [pc EXCEPT ![p] = WaitStep[q]]
  PROVE  /\ SemsOK'
         /\ \A o \in Queues \ {q} : tokens'[o] = tokens[o]
         /\ \/ waiting' = waiting /\ tokens[q] > 0 /\ tokens'[q] = tokens[q] - 1
            \/ /\ tokens'[q] = tokens[q] /\ HeldUp(p)'
               /\ \A r \in Procs \ {p} : HeldUp(r)' <=> HeldUp(r)
<1>1. /\ waiting \in [Queues -> Seq(Procs)] /\ tokens \in [Queues -> Nat]
      /\ \A o \in Queues : IsInjective(waiting[o]) /\ p \notin Range(waiting[o])
  BY DEF SemsOK, HeldUp, Queues
<1>2. \A o \in Queues : tokens[o] > 0 => waiting[o] = <<>>
  BY DEF SemsOK
<1>3. \A o \in Queues : \A r \in Range(waiting[o]) : r \in Procs /\ pc[r] = WaitStep[o]
  BY DEF SemsOK, Range
<1>4. \A r \in Procs \ {p} : pc'[r] = pc[r]
  OBVIOUS
<1>5. pc'[p] = WaitStep[q]
  OBVIOUS
<1>6. CASE tokens[q] > 0
  <2>1. tokens' = [tokens EXCEPT ![q] = tokens[q] - 1] /\ waiting' = waiting
    BY <1>6 DEF sem_wait
  <2>2. tokens[q] - 1 \in Nat /\ tokens[q] - 1 <= tokens[q]
    BY <1>1, <1>6
  <2>3. /\ tokens' \in [Queues -> Nat] /\ tokens'[q] = tokens[q] - 1
        /\ \A o \in Queues \ {q} : tokens'[o] = tokens[o]
    BY <1>1, <2>1, <2>2
  <2>4. ASSUME NEW o \in Queues, tokens'[o] > 0 PROVE waiting'[o] = <<>>
    <3>1. CASE o = q
      BY <1>6, <1>2, <2>1, <3>1
    <3>2. CASE o # q
      BY <1>2, <2>1, <2>3, <2>4, <3>2
    <3> QED BY <3>1, <3>2
  <2>5. SemsOK'
    BY <1>1, <1>3, <1>4, <2>1, <2>3, <2>4 DEF SemsOK
  <2> QED BY <1>6, <2>1, <2>3, <2>5
<1>7. CASE ~(tokens[q] > 0)
  <2>1. waiting' = [waiting EXCEPT ![q] = Append(waiting[q], p)] /\ tokens' = tokens
    BY <1>7 DEF sem_wait
  <2>2. /\ Append(waiting[q], p) \in Seq(Procs) /\ IsInjective(Append(waiting[q], p))
        /\ Range(Append(waiting[q], p)) = Range(waiting[q]) \cup {p}
    BY <1>1, AppendWaiter
  <2>3. /\ waiting' \in [Queues -> Seq(Procs)] /\ waiting'[q] = Append(waiting[q], p)
        /\ \A o \in Queues \ {q} : waiting'[o] = waiting[o]
    BY <1>1, <2>1, <2>2
  <2>4. ASSUME NEW o \in Queues
        PROVE  /\ IsInjective(waiting'[o]) /\ \A r \in Range(waiting'[o]) : pc'[r] = WaitStep[o]
               /\ tokens'[o] > 0 => waiting'[o] = <<>>
    <3>1. \A r \in Range(waiting'[o]) : pc'[r] = WaitStep[o]
      <4>1. CASE o = q
        <5>1. Range(waiting'[o]) = Range(waiting[q]) \cup {p}
          BY <2>2, <2>3, <4>1
        <5> QED BY <1>3, <1>1, <1>4, <1>5, <4>1, <5>1
      <4>2. CASE o # q
        <5>1. Range(waiting'[o]) = Range(waiting[o])
          BY <2>3, <4>2
        <5> QED BY <1>3, <1>1, <1>4, <5>1
      <4> QED BY <4>1, <4>2
    <3>2. tokens'[o] > 0 => o # q
      BY <1>7, <2>1
    <3> QED BY <1>1, <1>2, <2>1, <2>2, <2>3, <3>1, <3>2
  <2>5. SemsOK'
    BY <1>1, <2>1, <2>3, <2>4 DEF SemsOK
  <2>6. HeldUp(p)'
    BY <2>2, <2>3 DEF HeldUp, Queues
  <2>7. ASSUME NEW r \in Procs \ {p} PROVE HeldUp(r)' <=> HeldUp(r)
    <3>1. \A o \in Queues : r \in Range(waiting'[o]) <=> r \in Range(waiting[o])
      BY <2>2, <2>3
    <3> QED BY <3>1 DEF HeldUp, Queues
  <2> QED BY <2>1, <2>5, <2>6, <2>7
<1> QED BY <1>6, <1>7

\* sem_notify: the token goes to the oldest waiter, or to the count.
LEMMA SemNotify ==
  ASSUME SemsOK, NEW q \in Queues, sem_notify(q),
         \A o \in Queues : \A r \in Range(waiting[o]) : pc'[r] = pc[r]
  PROVE  /\ SemsOK'
         /\ \A o \in Queues \ {q} : tokens'[o] = tokens[o]
         /\ \/ waiting' = waiting /\ tokens'[q] = tokens[q] + 1
            \/ /\ tokens'[q] = tokens[q]
               /\ \E h \in Procs : /\ HeldUp(h) /\ ~HeldUp(h)' /\ pc[h] = WaitStep[q]
                                  /\ \A r \in Procs \ {h} : HeldUp(r)' <=> HeldUp(r)
<1>1. /\ waiting \in [Queues -> Seq(Procs)] /\ tokens \in [Queues -> Nat]
      /\ \A o \in Queues : IsInjective(waiting[o])
  BY DEF SemsOK
<1>2. \A o \in Queues : tokens[o] > 0 => waiting[o] = <<>>
  BY DEF SemsOK
<1>3. \A o \in Queues : \A r \in Range(waiting[o]) : pc[r] = WaitStep[o] /\ pc'[r] = WaitStep[o]
  BY DEF SemsOK
<1>4. CASE waiting[q] = <<>>
  <2>1. waiting' = waiting /\ tokens' = [tokens EXCEPT ![q] = tokens[q] + 1]
    BY <1>4 DEF sem_notify
  <2>2. tokens[q] + 1 \in Nat
    BY <1>1
  <2>3. /\ tokens' \in [Queues -> Nat] /\ tokens'[q] = tokens[q] + 1
        /\ \A o \in Queues \ {q} : tokens'[o] = tokens[o]
    BY <1>1, <2>1, <2>2
  <2>4. ASSUME NEW o \in Queues, tokens'[o] > 0 PROVE waiting'[o] = <<>>
    <3>1. CASE o = q
      BY <1>4, <2>1, <3>1
    <3>2. CASE o # q
      BY <1>2, <2>1, <2>3, <2>4, <3>2
    <3> QED BY <3>1, <3>2
  <2>5. SemsOK'
    BY <1>1, <1>3, <2>1, <2>3, <2>4 DEF SemsOK
  <2> QED BY <2>1, <2>3, <2>5
<1>5. CASE waiting[q] # <<>>
  <2>1. waiting' = [waiting EXCEPT ![q] = Tail(waiting[q])] /\ tokens' = tokens
    BY <1>5 DEF sem_notify
  <2>2. PICK h \in Procs : h = Head(waiting[q]) /\ h \in Range(waiting[q])
    BY <1>1, <1>5, HeadLeaves
  <2>3. /\ Tail(waiting[q]) \in Seq(Procs) /\ IsInjective(Tail(waiting[q]))
        /\ Range(Tail(waiting[q])) = Range(waiting[q]) \ {h}
    BY <1>1, <1>5, <2>2, HeadLeaves
  <2>4. /\ waiting' \in [Queues -> Seq(Procs)] /\ waiting'[q] = Tail(waiting[q])
        /\ \A o \in Queues \ {q} : waiting'[o] = waiting[o]
    BY <1>1, <2>1, <2>3
  <2>5. ASSUME NEW o \in Queues
        PROVE  /\ IsInjective(waiting'[o]) /\ \A r \in Range(waiting'[o]) : pc'[r] = WaitStep[o]
               /\ tokens'[o] > 0 => waiting'[o] = <<>>
    <3>1. CASE o = q
      <4>1. Range(waiting'[o]) \subseteq Range(waiting[o])
        BY <2>3, <2>4, <3>1
      <4>2. ~(tokens'[o] > 0)
        BY <1>2, <1>5, <2>1, <3>1
      <4> QED BY <1>3, <2>3, <2>4, <3>1, <4>1, <4>2
    <3>2. CASE o # q
      BY <1>1, <1>2, <1>3, <2>1, <2>4, <3>2
    <3> QED BY <3>1, <3>2
  <2>6. SemsOK'
    BY <1>1, <2>1, <2>4, <2>5 DEF SemsOK
  <2>7. \A o \in Queues \ {q} : h \notin Range(waiting[o])
    BY <1>3, <2>2 DEF WaitStep, Queues
  <2>8. HeldUp(h) /\ ~HeldUp(h)' /\ pc[h] = WaitStep[q]
    BY <1>3, <2>2, <2>3, <2>4, <2>7 DEF HeldUp, Queues
  <2>9. ASSUME NEW r \in Procs \ {h} PROVE HeldUp(r)' <=> HeldUp(r)
    <3>1. \A o \in Queues : r \in Range(waiting'[o]) <=> r \in Range(waiting[o])
      BY <2>3, <2>4
    <3> QED BY <3>1 DEF HeldUp, Queues
  <2> QED BY <2>1, <2>6, <2>8, <2>9
<1> QED BY <1>4, <1>5

\* Who counts for a token, after a step of a task that is not held up.
LEMMA StepCounts ==
  ASSUME pc \in [Procs -> Steps], NEW p \in Procs, NEW s, ~HeldUp(p), pc' = [pc EXCEPT ![p] = s],
         \A r \in Procs : HeldUp(r)' <=> HeldUp(r)
  PROVE  /\ Fetchers' = IF s \in {"read_test", "read_get"} THEN Fetchers \cup {p} ELSE Fetchers \ {p}
         /\ Fillers' = IF s \in {"put_test", "put"} THEN Fillers \cup {p} ELSE Fillers \ {p}
         /\ Emptiers' = IF s \in {"drain_notify"} THEN Emptiers \cup {p} ELSE Emptiers \ {p}
<1>1. \A r \in Procs : pc'[r] = IF r = p THEN s ELSE pc[r]
  OBVIOUS
<1>2. CASE s \in {"read_test", "read_get"}
  BY <1>1, <1>2 DEF Fetchers, Fillers, Emptiers, Doing
<1>3. CASE s \in {"put_test", "put"}
  BY <1>1, <1>3 DEF Fetchers, Fillers, Emptiers, Doing
<1>4. CASE s \notin {"read_test", "read_get", "put_test", "put"}
  BY <1>1, <1>4 DEF Fetchers, Fillers, Emptiers, Doing
<1> QED BY <1>2, <1>3, <1>4

\* A task that finds no token counts for none.
LEMMA HeldCounts ==
  ASSUME NEW p \in Procs, HeldUp(p)', \A r \in Procs \ {p} : pc'[r] = pc[r],
         \A r \in Procs \ {p} : HeldUp(r)' <=> HeldUp(r)
  PROVE  Fetchers' = Fetchers \ {p} /\ Fillers' = Fillers \ {p} /\ Emptiers' = Emptiers \ {p}
BY DEF Fetchers, Fillers, Emptiers, Doing

\* A waiter that gets a token counts for it at once.
LEMMA ReleasedCounts ==
  ASSUME NEW q \in Queues, NEW h \in Procs, pc[h] = WaitStep[q], HeldUp(h), ~HeldUp(h)',
         pc' = pc, \A r \in Procs \ {h} : HeldUp(r)' <=> HeldUp(r)
  PROVE  /\ h \notin Fetchers /\ h \notin Fillers
         /\ Fetchers' = IF q = "in" THEN Fetchers \cup {h} ELSE Fetchers
         /\ Fillers' = IF q = "out" THEN Fillers \cup {h} ELSE Fillers
         /\ Emptiers' = Emptiers
<1>1. CASE q = "in"
  <2>1. pc[h] = "read_test"
    BY <1>1 DEF WaitStep
  <2> QED BY <1>1, <2>1 DEF Fetchers, Fillers, Emptiers, Doing
<1>2. CASE q = "out"
  <2>1. pc[h] = "put_test"
    BY <1>2 DEF WaitStep
  <2> QED BY <1>2, <2>1 DEF Fetchers, Fillers, Emptiers, Doing
<1> QED BY <1>1, <1>2 DEF Queues
-----------------------------------------------------------------------------
\* What the parts of the invariant have in common for the steps of a task.

\* Who is not held up may go anywhere.
LEMMA SemsStay ==
  ASSUME SemsOK, NEW p \in Procs, ~HeldUp(p), UNCHANGED <<tokens, waiting>>,
         \A r \in Procs \ {p} : pc'[r] = pc[r]
  PROVE  SemsOK' /\ \A r \in Procs : HeldUp(r)' <=> HeldUp(r)
<1>1. \A q \in Queues : p \notin Range(waiting[q])
  BY DEF HeldUp, Queues
<1>2. \A q \in Queues : \A r \in Range(waiting[q]) : r \in Procs
  BY DEF SemsOK, Range
<1>3. SemsOK'
  BY <1>1, <1>2 DEF SemsOK
<1> QED BY <1>3 DEF HeldUp

\* A step that takes no token and leaves the queues alone.
LEMMA QuietStep ==
  ASSUME TtyInv, NEW p \in Procs, NEW s, ~HeldUp(p), pc' = [pc EXCEPT ![p] = s],
         UNCHANGED <<fifoVars, semVars>>,
         pc[p] \in {"read_test", "read_get"} <=> s \in {"read_test", "read_get"},
         pc[p] \in {"put_test", "put"} <=> s \in {"put_test", "put"},
         pc[p] \in {"drain_notify"} <=> s \in {"drain_notify"}
  PROVE  FifosOK' /\ HoldsKeys' /\ SemsOK' /\ CharsCounted' /\ PlacesCounted'
<1>1. pc \in [Procs -> Steps] /\ UNCHANGED <<buf, read, write, count, tokens, waiting>>
  BY DEF TtyInv, TasksOK, fifoVars, semVars
<1>2. FifosOK' /\ HoldsKeys'
  BY <1>1 DEF TtyInv, FifosOK, HoldsKeys
<1>3. SemsOK' /\ \A r \in Procs : HeldUp(r)' <=> HeldUp(r)
  BY <1>1, SemsStay DEF TtyInv
<1>4. \A r \in Procs : HeldUp(r)' <=> HeldUp(r)
  BY <1>3
<1>5. /\ p \in Fetchers <=> pc[p] \in {"read_test", "read_get"}
      /\ p \in Fillers <=> pc[p] \in {"put_test", "put"}
      /\ p \in Emptiers <=> pc[p] \in {"drain_notify"}
  BY DEF Fetchers, Fillers, Emptiers, Doing
<1>6. /\ Fetchers' = IF s \in {"read_test", "read_get"} THEN Fetchers \cup {p} ELSE Fetchers \ {p}
      /\ Fillers' = IF s \in {"put_test", "put"} THEN Fillers \cup {p} ELSE Fillers \ {p}
      /\ Emptiers' = IF s \in {"drain_notify"} THEN Emptiers \cup {p} ELSE Emptiers \ {p}
  BY <1>1, <1>4, StepCounts
<1>7. Fetchers' = Fetchers /\ Fillers' = Fillers /\ Emptiers' = Emptiers
  BY <1>5, <1>6
<1> QED BY <1>1, <1>2, <1>3, <1>7 DEF TtyInv, CharsCounted, PlacesCounted

\* A step outside console_write does not disturb who drains.
LEMMA OwnerStays ==
  ASSUME OwnerDrains, pc \in [Procs -> Steps], NEW p \in Procs, NEW s,
         pc' = [pc EXCEPT ![p] = s], pc[p] \notin Draining, s \notin Draining, owner' = owner,
         count["out"] > 0 => count'["out"] > 0
  PROVE  OwnerDrains'
<1>1. \A r \in Procs : pc'[r] = IF r = p THEN s ELSE pc[r]
  OBVIOUS
<1> QED BY <1>1 DEF OwnerDrains, Draining

\* The others look on as they did.
LEMMA WatchStep ==
  ASSUME OutputWatched, NEW p \in Procs, \A r \in Procs \ {p} : pc'[r] = pc[r] /\ c'[r] = c[r],
         count'["out"] > 0 => WillLook(p)' \/ (count["out"] > 0 /\ ~WillLook(p))
  PROVE  OutputWatched'
<1>1. \A r \in Procs \ {p} : WillLook(r)' <=> WillLook(r)
  BY DEF WillLook
<1> QED BY <1>1 DEF OutputWatched

LEMMA AcceptTasks ==
  ASSUME TasksOK, NEW p \in Procs, NEW key \in Keys, Accept(p, key), UNCHANGED <<owner, reading>>
  PROVE  /\ TasksOK'
         /\ \A r \in Procs \ {p} : c'[r] = c[r]
         /\ \E s \in {"read_wait", "put_wait"} : pc' = [pc EXCEPT ![p] = s]
<1>1. /\ pc \in [Procs -> Steps] /\ line \in [Procs -> Seq(Char)] /\ todo \in [Procs -> Seq(Keys)]
      /\ c \in [Procs -> Char]
      /\ \A r \in Procs : pc[r] \in {"put_wait", "put_test", "put"} => todo[r] # <<>>
  BY DEF TasksOK
<1>2. CASE key = "del" /\ line[p] = <<>>
  <2>1. pc' = [pc EXCEPT ![p] = "read_wait"] /\ UNCHANGED <<line, todo, c>>
    BY <1>2 DEF Accept, Goto
  <2>2. pc' \in [Procs -> Steps] /\ pc'[p] = "read_wait" /\ \A r \in Procs \ {p} : pc'[r] = pc[r]
    BY <1>1, <2>1 DEF Steps
  <2> QED BY <1>1, <2>1, <2>2 DEF TasksOK
<1>3. CASE ~(key = "del" /\ line[p] = <<>>)
  <2>1. PICK ch \in Char, l \in Seq(Char) :
          /\ pc' = [pc EXCEPT ![p] = "put_wait"] /\ line' = [line EXCEPT ![p] = l]
          /\ todo' = [todo EXCEPT ![p] = <<key>>] /\ c' = [c EXCEPT ![p] = ch]
    <3>1. Edited(line[p], key) \in Seq(Char)
      <4>1. PICK l \in Seq(Char) : l = line[p]
        BY <1>1
      <4>2. CASE key = "del"
        <5>1. l # <<>> /\ Len(l) \in Nat /\ Len(l) - 1 <= Len(l)
          BY <1>3, <4>1, <4>2
        <5>2. SubSeq(l, 1, Len(l) - 1) \in Seq(Char)
          BY <5>1
        <5> QED BY <4>1, <4>2, <5>2 DEF Edited
      <4>3. CASE key = "nl"
        <5>1. l \o <<"cr", "nl">> \in Seq(Char) /\ Append(l, "nl") \in Seq(Char)
          BY DEF Char, Keys
        <5> QED BY <4>1, <4>3, <5>1 DEF Edited, WithNewline
      <4>4. CASE key \notin {"del", "nl"}
        <5>1. Append(l, key) \in Seq(Char)
          BY DEF Char
        <5> QED BY <4>1, <4>4, <5>1 DEF Edited
      <4> QED BY <4>2, <4>3, <4>4
    <3>2. (IF key = "nl" THEN "cr" ELSE key) \in Char
      BY DEF Char
    <3> QED BY <1>3, <3>1, <3>2 DEF Accept, Goto
  <2>2. pc' \in [Procs -> Steps] /\ line' \in [Procs -> Seq(Char)] /\ c' \in [Procs -> Char]
    BY <1>1, <2>1 DEF Steps
  <2>3. <<key>> \in Seq(Keys) /\ <<key>> # <<>>
    OBVIOUS
  <2>4. /\ todo' \in [Procs -> Seq(Keys)] /\ todo'[p] # <<>>
        /\ \A r \in Procs \ {p} : todo'[r] = todo[r] /\ pc'[r] = pc[r] /\ c'[r] = c[r]
    BY <1>1, <2>1, <2>3
  <2> QED BY <1>1, <2>1, <2>2, <2>4 DEF TasksOK
<1> QED BY <1>2, <1>3

LEMMA ReturnTasks ==
  ASSUME TasksOK, NEW p \in Procs, Return(p), owner' \in Procs \cup {NoProc}
  PROVE  /\ TasksOK'
         /\ \A r \in Procs \ {p} : c'[r] = c[r]
         /\ \E s \in {"user", "read_wait"} : pc' = [pc EXCEPT ![p] = s]
<1>1. /\ pc \in [Procs -> Steps] /\ line \in [Procs -> Seq(Char)] /\ todo \in [Procs -> Seq(Keys)]
      /\ c \in [Procs -> Char] /\ reading \in [Procs -> BOOLEAN]
      /\ \A r \in Procs : pc[r] \in {"put_wait", "put_test", "put"} => todo[r] # <<>>
  BY DEF TasksOK
<1>2. PICK s \in {"user", "read_wait"}, l \in Seq(Char), b \in BOOLEAN :
        /\ pc' = [pc EXCEPT ![p] = s] /\ line' = [line EXCEPT ![p] = l]
        /\ reading' = [reading EXCEPT ![p] = b]
        /\ todo' = [todo EXCEPT ![p] = <<>>] /\ c' = [c EXCEPT ![p] = "a"]
  <2>1. line[p] \in Seq(Char) /\ <<>> \in Seq(Char)
    BY <1>1
  <2> QED BY <2>1 DEF Return, Goto
<1>3. pc' \in [Procs -> Steps] /\ line' \in [Procs -> Seq(Char)] /\ reading' \in [Procs -> BOOLEAN]
  BY <1>1, <1>2 DEF Steps
<1>4. todo' \in [Procs -> Seq(Keys)] /\ c' \in [Procs -> Char]
  BY <1>1, <1>2 DEF Char, Keys
<1>5. /\ pc'[p] = s /\ \A r \in Procs \ {p} : todo'[r] = todo[r] /\ pc'[r] = pc[r] /\ c'[r] = c[r]
  BY <1>1, <1>2
<1>6. \A r \in Procs : pc'[r] \in {"put_wait", "put_test", "put"} => todo'[r] # <<>>
  BY <1>1, <1>5
<1> QED BY <1>2, <1>3, <1>4, <1>5, <1>6 DEF TasksOK

LEMMA MemberCounts == ASSUME NEW T, IsFiniteSet(T), NEW x \in T PROVE Cardinality(T) > 0
<1>1. Cardinality(T) \in Nat /\ Cardinality(T) # 0
  BY FS_CardinalityType, FS_EmptySet
<1> QED BY <1>1

\* sem_wait at either queue.
LEMMA WaitTokens ==
  ASSUME TtyInv, NEW q \in Queues, NEW p \in Procs, ~HeldUp(p), sem_wait(q, p),
         pc[p] \notin {"read_test", "read_get", "put_test", "put", "drain_notify"},
         pc' = [pc EXCEPT ![p] = WaitStep[q]], UNCHANGED fifoVars
  PROVE  FifosOK' /\ HoldsKeys' /\ SemsOK' /\ CharsCounted' /\ PlacesCounted'
<1>1. pc \in [Procs -> Steps] /\ UNCHANGED <<buf, read, write, count>>
  BY DEF TtyInv, TasksOK, fifoVars
<1>2. FifosOK' /\ HoldsKeys'
  BY <1>1 DEF TtyInv, FifosOK, HoldsKeys
<1>3. SemsOK
  BY DEF TtyInv
<1>4. p \notin Fetchers /\ p \notin Fillers /\ p \notin Emptiers
  BY DEF Fetchers, Fillers, Emptiers, Doing
<1>5. SemsOK' /\ \A o \in Queues \ {q} : tokens'[o] = tokens[o]
  BY <1>1, <1>3, SemWait
<1>6. /\ count["in"] = tokens["in"] + Cardinality(Fetchers)
      /\ ObufSize - count["out"] = tokens["out"] + Cardinality(Fillers) + Cardinality(Emptiers)
  BY DEF TtyInv, CharsCounted, PlacesCounted
<1>7. /\ tokens["in"] \in Nat /\ tokens["out"] \in Nat /\ tokens'["in"] \in Nat /\ tokens'["out"] \in Nat
      /\ count' = count /\ count["in"] \in Nat /\ count["out"] \in Nat /\ ObufSize \in Nat
  BY <1>1, <1>3, <1>5, TtyAssumption DEF SemsOK, Queues, TtyInv, FifosOK
<1>8. CASE waiting' = waiting /\ tokens[q] > 0 /\ tokens'[q] = tokens[q] - 1
  <2>1. \A r \in Procs : HeldUp(r)' <=> HeldUp(r)
    BY <1>8 DEF HeldUp
  <2>2. CASE q = "in"
    <3>1. WaitStep[q] = "read_test"
      BY <2>2 DEF WaitStep
    <3>2. /\ Fetchers' = Fetchers \cup {p} /\ Fillers' = Fillers \ {p} /\ Emptiers' = Emptiers \ {p}
      BY <1>1, <2>1, <3>1, StepCounts
    <3>3. Fillers' = Fillers /\ Emptiers' = Emptiers
      BY <1>4, <3>2
    <3>4. Cardinality(Fetchers') = Cardinality(Fetchers) + 1
      BY <1>4, <3>2, DoingFinite, OneMoreOrLess
    <3>5. tokens'["out"] = tokens["out"] /\ tokens'["in"] = tokens["in"] - 1
      BY <1>5, <1>8, <2>2 DEF Queues
    <3>6. CharsCounted'
      <4>1. tokens["in"] \in Nat /\ Cardinality(Fetchers) \in Nat
        BY <1>7, CountsAreNat
      <4>2. count'["in"] = tokens["in"] + Cardinality(Fetchers)
        BY <1>6, <1>7
      <4>3. count'["in"] = tokens'["in"] + Cardinality(Fetchers')
        BY <3>4, <3>5, <4>1, <4>2
      <4> QED BY <4>3 DEF CharsCounted
    <3>7. PlacesCounted'
      BY <1>6, <1>7, <3>3, <3>5 DEF PlacesCounted
    <3> QED BY <1>2, <1>5, <3>6, <3>7
  <2>3. CASE q = "out"
    <3>1. WaitStep[q] = "put_test"
      BY <2>3 DEF WaitStep, Queues
    <3>2. /\ Fetchers' = Fetchers \ {p} /\ Fillers' = Fillers \cup {p} /\ Emptiers' = Emptiers \ {p}
      BY <1>1, <2>1, <3>1, StepCounts
    <3>3. Fetchers' = Fetchers /\ Emptiers' = Emptiers
      BY <1>4, <3>2
    <3>4. Cardinality(Fillers') = Cardinality(Fillers) + 1
      BY <1>4, <3>2, DoingFinite, OneMoreOrLess
    <3>5. tokens'["in"] = tokens["in"] /\ tokens'["out"] = tokens["out"] - 1
      BY <1>5, <1>8, <2>3 DEF Queues
    <3> QED BY <1>2, <1>5, <1>6, <1>7, <3>3, <3>4, <3>5, CountsAreNat DEF CharsCounted, PlacesCounted
  <2> QED BY <2>2, <2>3 DEF Queues
<1>9. CASE /\ tokens'[q] = tokens[q] /\ HeldUp(p)'
           /\ \A r \in Procs \ {p} : HeldUp(r)' <=> HeldUp(r)
  <2>1. \A r \in Procs \ {p} : pc'[r] = pc[r]
    BY <1>1
  <2>2. Fetchers' = Fetchers \ {p} /\ Fillers' = Fillers \ {p} /\ Emptiers' = Emptiers \ {p}
    BY <1>9, <2>1, HeldCounts
  <2>3. Fetchers' = Fetchers /\ Fillers' = Fillers /\ Emptiers' = Emptiers
    BY <1>4, <2>2
  <2>4. tokens'["in"] = tokens["in"] /\ tokens'["out"] = tokens["out"]
    BY <1>5, <1>9 DEF Queues
  <2> QED BY <1>2, <1>5, <1>6, <1>7, <2>3, <2>4 DEF CharsCounted, PlacesCounted
<1> QED BY <1>1, <1>3, <1>8, <1>9, SemWait

LEMMA TtyInitInv == Init => TtyInv
<1> SUFFICES ASSUME Init PROVE TtyInv
  OBVIOUS
<1>1. /\ \A q \in Queues : /\ read[q] = 0 /\ write[q] = 0 /\ count[q] = 0
                          /\ buf[q] = [i \in 0 .. Size[q] - 1 |-> Junk] /\ waiting[q] = <<>>
      /\ tokens["in"] = 0 /\ tokens["out"] = ObufSize
      /\ \A p \in Procs : pc[p] = "user" /\ ~HeldUp(p)
  BY DEF Init, Queues, OsemCount, HeldUp, Range
<1>2. FifosOK
  <2>1. DOMAIN buf = Queues /\ read \in [Queues -> Nat] /\ write \in [Queues -> Nat]
        /\ count \in [Queues -> Nat]
    BY DEF Init, Queues
  <2>2. ASSUME NEW q \in Queues PROVE 0 = Cell(Size[q], 0, 0) /\ 0 < Size[q] /\ 0 <= Size[q]
    <3>1. PICK S \in Nat : S = Size[q] /\ S > 0
      BY Sizes
    <3>2. 0 % S = 0
      BY <3>1, RingIndex
    <3> QED BY <3>1, <3>2 DEF Cell
  <2> QED BY <1>1, <2>1, <2>2 DEF FifosOK
<1>3. HoldsKeys
  BY <1>1 DEF HoldsKeys, Queues
<1>4. TasksOK
  BY DEF Init, TasksOK, Steps, Char, Keys
<1>5. SemsOK
  <2>1. tokens \in [Queues -> Nat] /\ waiting \in [Queues -> Seq(Procs)]
    BY TtyAssumption DEF Init, OsemCount, Queues
  <2>2. \A q \in Queues : waiting[q] = <<>>
    BY <1>1
  <2>3. IsInjective(<<>>) /\ Range(<<>>) = {}
    BY DEF IsInjective, Range
  <2> QED BY <2>1, <2>2, <2>3 DEF SemsOK
<1>6. Fetchers = {} /\ Fillers = {} /\ Emptiers = {}
  BY <1>1 DEF Fetchers, Fillers, Emptiers, Doing
<1>7. CharsCounted /\ PlacesCounted
  BY <1>1, <1>6, FS_EmptySet, TtyAssumption DEF CharsCounted, PlacesCounted, Queues
<1>8. OwnerDrains /\ OutputWatched
  BY <1>1, TtyAssumption DEF Init, OwnerDrains, Draining, OutputWatched, Queues
<1> QED BY <1>2, <1>3, <1>4, <1>5, <1>7, <1>8 DEF TtyInv

\* Under the assumption on the keyboard there is room for every key that is let in.
LEMMA KeyFits ==
  ASSUME TtyInv, Overrun = FALSE, NEW key \in Keys, tty_in(key)
  PROVE  count["in"] < IbufSize
<1>1. count["in"] < IbufSize \/ Fetchers = {}
  BY DEF tty_in, Fetching, Fetchers, Doing
<1>2. CASE Fetchers = {}
  <2>1. count["in"] = tokens["in"] + 0 /\ tokens["in"] \in Nat
    BY <1>2, FS_EmptySet DEF TtyInv, CharsCounted, SemsOK, Queues
  <2>2. tokens["in"] < IbufSize
    BY DEF tty_in, Admits
  <2> QED BY <2>1, <2>2
<1> QED BY <1>1, <1>2

LEMMA TtyInInv ==
  ASSUME TtyInv, Overrun = FALSE, NEW key \in Keys, tty_in(key) PROVE TtyInv'
<1>1. /\ Put("in", key) /\ sem_notify("in")
      /\ UNCHANGED <<owner, pc, line, reading, todo, c>>
  BY KeyFits DEF tty_in, taskVars
<1>2. "in" \in Queues /\ "out" \in Queues /\ key \in Char /\ Size["in"] = IbufSize
  BY Sizes DEF Queues, Char
<1>3. FifosOK /\ SemsOK /\ count["in"] < Size["in"]
  BY <1>2, KeyFits DEF TtyInv
<1>4. /\ FifosOK' /\ count'["in"] = count["in"] + 1 /\ read'["in"] = read["in"]
      /\ count'["out"] = count["out"]
      /\ \A i \in Nat : i < count["in"] =>
           buf'["in"][Cell(IbufSize, read["in"], i)] = buf["in"][Cell(IbufSize, read["in"], i)]
      /\ buf'["in"][Cell(IbufSize, read["in"], count["in"])] = key
  BY <1>1, <1>2, <1>3, PutCell
<1>5. HoldsKeys'
  <2>1. count["in"] \in Nat
    BY <1>2, <1>3 DEF FifosOK
  <2>2. ASSUME NEW i \in Nat, i < count'["in"] PROVE buf'["in"][Cell(IbufSize, read["in"], i)] \in Keys
    <3>1. i < count["in"] \/ i = count["in"]
      BY <1>4, <2>1, <2>2
    <3> QED BY <1>4, <3>1 DEF TtyInv, HoldsKeys
  <2> QED BY <1>4, <2>2 DEF HoldsKeys
<1>6. TasksOK'
  BY <1>1 DEF TtyInv, TasksOK
<1>7. /\ SemsOK' /\ tokens'["out"] = tokens["out"]
      /\ \/ waiting' = waiting /\ tokens'["in"] = tokens["in"] + 1
         \/ /\ tokens'["in"] = tokens["in"]
            /\ \E h \in Procs : /\ HeldUp(h) /\ ~HeldUp(h)' /\ pc[h] = WaitStep["in"]
                               /\ \A r \in Procs \ {h} : HeldUp(r)' <=> HeldUp(r)
  BY <1>1, <1>2, <1>3, SemNotify
<1>8. /\ count["in"] = tokens["in"] + Cardinality(Fetchers)
      /\ ObufSize - count["out"] = tokens["out"] + Cardinality(Fillers) + Cardinality(Emptiers)
      /\ tokens["in"] \in Nat /\ tokens["out"] \in Nat
  BY <1>2, <1>3 DEF TtyInv, CharsCounted, PlacesCounted, SemsOK
<1>9. CharsCounted' /\ PlacesCounted'
  <2>1. CASE waiting' = waiting /\ tokens'["in"] = tokens["in"] + 1
    <3>1. Fetchers' = Fetchers /\ Fillers' = Fillers /\ Emptiers' = Emptiers
      BY <1>1, <2>1 DEF Fetchers, Fillers, Emptiers, Doing, HeldUp
    <3> QED BY <1>4, <1>7, <1>8, <2>1, <3>1, CountsAreNat DEF CharsCounted, PlacesCounted
  <2>2. CASE /\ tokens'["in"] = tokens["in"]
             /\ \E h \in Procs : /\ HeldUp(h) /\ ~HeldUp(h)' /\ pc[h] = WaitStep["in"]
                                /\ \A r \in Procs \ {h} : HeldUp(r)' <=> HeldUp(r)
    <3>1. PICK h \in Procs : /\ HeldUp(h) /\ ~HeldUp(h)' /\ pc[h] = WaitStep["in"]
                             /\ \A r \in Procs \ {h} : HeldUp(r)' <=> HeldUp(r)
      BY <2>2
    <3>2. h \notin Fetchers /\ Fetchers' = Fetchers \cup {h} /\ Fillers' = Fillers /\ Emptiers' = Emptiers
      BY <1>1, <1>2, <3>1, ReleasedCounts
    <3>3. Cardinality(Fetchers') = Cardinality(Fetchers) + 1
      BY <3>2, DoingFinite, OneMoreOrLess
    <3> QED BY <1>4, <1>7, <1>8, <2>2, <3>2, <3>3, CountsAreNat DEF CharsCounted, PlacesCounted
  <2> QED BY <1>7, <2>1, <2>2
<1>10. OwnerDrains' /\ OutputWatched'
  BY <1>1, <1>4 DEF TtyInv, OwnerDrains, OutputWatched, WillLook
<1> QED BY <1>4, <1>5, <1>6, <1>7, <1>9, <1>10 DEF TtyInv
-----------------------------------------------------------------------------
\* A step of a task outside console_write that changes no more than where it is.
LEMMA TaskMoves ==
  ASSUME TasksOK, NEW p \in Procs, NEW s \in Steps, pc' = [pc EXCEPT ![p] = s],
         UNCHANGED <<line, reading, todo, c>>, owner' \in Procs \cup {NoProc},
         s \in {"put_wait", "put_test", "put"} => todo[p] # <<>>
  PROVE  /\ TasksOK'
         /\ pc'[p] = s /\ c'[p] = c[p]
         /\ \A r \in Procs \ {p} : pc'[r] = pc[r] /\ c'[r] = c[r]
<1>1. pc \in [Procs -> Steps]
  BY DEF TasksOK
<1>2. pc' \in [Procs -> Steps] /\ pc'[p] = s /\ \A r \in Procs \ {p} : pc'[r] = pc[r]
  BY <1>1
<1> QED BY <1>2 DEF TasksOK

LEMMA ReadBeginInv == ASSUME TtyInv, NEW p \in Procs, read_begin(p) PROVE TtyInv'
<1>1. /\ pc[p] = "user" /\ ~HeldUp(p) /\ pc' = [pc EXCEPT ![p] = "read_wait"]
      /\ reading' = [reading EXCEPT ![p] = TRUE] /\ UNCHANGED <<fifoVars, semVars>>
      /\ UNCHANGED <<buf, read, write, count, owner, line, todo, c>>
  BY DEF read_begin, At, Goto, fifoVars
<1>2. FifosOK' /\ HoldsKeys' /\ SemsOK' /\ CharsCounted' /\ PlacesCounted'
  BY <1>1, QuietStep
<1>3. pc \in [Procs -> Steps] /\ reading \in [Procs -> BOOLEAN]
  BY DEF TtyInv, TasksOK
<1>4. pc' \in [Procs -> Steps] /\ pc'[p] = "read_wait" /\ \A r \in Procs \ {p} : pc'[r] = pc[r]
  BY <1>1, <1>3 DEF Steps
<1>5. TasksOK'
  BY <1>1, <1>3, <1>4 DEF TtyInv, TasksOK
<1>6. OwnerDrains'
  BY <1>1, <1>3, OwnerStays DEF TtyInv, Draining
<1>7. OutputWatched'
  BY <1>1, <1>4, WatchStep DEF TtyInv, WillLook
<1> QED BY <1>2, <1>5, <1>6, <1>7 DEF TtyInv

LEMMA ReadWaitInv == ASSUME TtyInv, NEW p \in Procs, read_wait(p) PROVE TtyInv'
<1>1. /\ pc[p] = "read_wait" /\ ~HeldUp(p) /\ pc' = [pc EXCEPT ![p] = "read_test"]
      /\ sem_wait("in", p) /\ UNCHANGED fifoVars
      /\ UNCHANGED <<buf, read, write, count, owner, line, reading, todo, c>>
  BY DEF read_wait, At, Goto, fifoVars
<1>2. "in" \in Queues /\ WaitStep["in"] = "read_test" /\ "read_test" \in Steps
  BY DEF Queues, WaitStep, Steps
<1>3. FifosOK' /\ HoldsKeys' /\ SemsOK' /\ CharsCounted' /\ PlacesCounted'
  BY <1>1, <1>2, WaitTokens
<1>4. pc \in [Procs -> Steps] /\ owner \in Procs \cup {NoProc}
  BY DEF TtyInv, TasksOK
<1>5. /\ TasksOK' /\ pc'[p] = "read_test"
      /\ \A r \in Procs \ {p} : pc'[r] = pc[r] /\ c'[r] = c[r]
  BY <1>1, <1>2, <1>4, TaskMoves DEF TtyInv
<1>6. OwnerDrains'
  BY <1>1, <1>4, OwnerStays DEF TtyInv, Draining
<1>7. OutputWatched'
  BY <1>1, <1>5, WatchStep DEF TtyInv, WillLook
<1> QED BY <1>3, <1>5, <1>6, <1>7 DEF TtyInv

\* A reader with a token finds a character.
LEMMA ReaderFinds == ASSUME TtyInv, NEW p \in Fetchers PROVE count["in"] > 0
<1>1. Cardinality(Fetchers) > 0 /\ Cardinality(Fetchers) \in Nat
  BY DoingFinite, CountsAreNat, MemberCounts
<1>2. tokens["in"] \in Nat /\ count["in"] = tokens["in"] + Cardinality(Fetchers)
  BY DEF TtyInv, SemsOK, CharsCounted, Queues
<1> QED BY <1>1, <1>2

LEMMA ReadTestInv == ASSUME TtyInv, NEW p \in Procs, read_test(p) PROVE TtyInv'
<1>1. pc[p] = "read_test" /\ ~HeldUp(p)
  BY DEF read_test, At
<1>2. count["in"] > 0 /\ count["in"] \in Nat
  <2>1. p \in Fetchers
    BY <1>1 DEF Fetchers, Doing
  <2> QED BY <2>1, ReaderFinds DEF TtyInv, FifosOK, Queues
<1>3. ~(count["in"] <= 0)
  BY <1>2
<1>4. /\ pc' = [pc EXCEPT ![p] = "read_get"] /\ UNCHANGED <<fifoVars, semVars>>
      /\ UNCHANGED <<buf, read, write, count, owner, line, reading, todo, c>>
  BY <1>3 DEF read_test, Goto, fifoVars
<1>5. FifosOK' /\ HoldsKeys' /\ SemsOK' /\ CharsCounted' /\ PlacesCounted'
  BY <1>1, <1>4, QuietStep
<1>6. pc \in [Procs -> Steps] /\ owner \in Procs \cup {NoProc} /\ "read_get" \in Steps
  BY DEF TtyInv, TasksOK, Steps
<1>7. /\ TasksOK' /\ pc'[p] = "read_get"
      /\ \A r \in Procs \ {p} : pc'[r] = pc[r] /\ c'[r] = c[r]
  BY <1>4, <1>6, TaskMoves DEF TtyInv
<1>8. OwnerDrains'
  BY <1>1, <1>4, <1>6, OwnerStays DEF TtyInv, Draining
<1>9. OutputWatched'
  BY <1>1, <1>4, <1>7, WatchStep DEF TtyInv, WillLook
<1> QED BY <1>5, <1>7, <1>8, <1>9 DEF TtyInv

LEMMA ReadGetInv == ASSUME TtyInv, NEW p \in Procs, read_get(p) PROVE TtyInv'
<1>1. /\ pc[p] = "read_get" /\ ~HeldUp(p) /\ Get("in") /\ Accept(p, buf["in"][read["in"]])
      /\ UNCHANGED semVars /\ UNCHANGED <<tokens, waiting, owner, reading>>
  BY DEF read_get, At, semVars
<1>2. "in" \in Queues /\ "out" \in Queues /\ "out" \in Queues \ {"in"} /\ Size["in"] = IbufSize
  BY Sizes DEF Queues
<1>3. p \in Fetchers
  BY <1>1 DEF Fetchers, Doing
<1>4. count["in"] > 0 /\ count["in"] \in Nat
  BY <1>2, <1>3, ReaderFinds DEF TtyInv, FifosOK
<1>5. /\ FifosOK' /\ count'["in"] = count["in"] - 1 /\ count'["out"] = count["out"]
      /\ \A i \in Nat : i + 1 < count["in"] =>
           buf'["in"][Cell(IbufSize, read'["in"], i)] = buf["in"][Cell(IbufSize, read["in"], i + 1)]
      /\ Cell(IbufSize, read["in"], 0) = read["in"]
  BY <1>1, <1>2, <1>4, GetCell DEF TtyInv
<1>6. PICK key \in Keys : key = buf["in"][read["in"]]
  <2>1. buf["in"][Cell(IbufSize, read["in"], 0)] \in Keys
    BY <1>4 DEF TtyInv, HoldsKeys
  <2> QED BY <1>5, <2>1
<1>7. HoldsKeys'
  <2>1. ASSUME NEW i \in Nat, i < count'["in"]
        PROVE  buf'["in"][Cell(IbufSize, read'["in"], i)] \in Keys
    <3>1. i + 1 < count["in"] /\ i + 1 \in Nat
      BY <1>4, <1>5, <2>1
    <3>2. buf["in"][Cell(IbufSize, read["in"], i + 1)] \in Keys
      BY <3>1 DEF TtyInv, HoldsKeys
    <3> QED BY <1>5, <3>1, <3>2
  <2> QED BY <2>1 DEF HoldsKeys
<1>8. TasksOK /\ Accept(p, key) /\ UNCHANGED <<owner, reading>>
  BY <1>1, <1>6 DEF TtyInv
<1>9. /\ TasksOK' /\ \A r \in Procs \ {p} : c'[r] = c[r]
      /\ \E s \in {"read_wait", "put_wait"} : pc' = [pc EXCEPT ![p] = s]
  BY <1>8, AcceptTasks
<1>10. PICK s \in {"read_wait", "put_wait"} : pc' = [pc EXCEPT ![p] = s]
  BY <1>9
<1>11. /\ pc \in [Procs -> Steps] /\ \A r \in Procs \ {p} : pc'[r] = pc[r]
       /\ s \notin {"read_test", "read_get", "put_test", "put", "drain_notify"} /\ s \notin Draining
  BY <1>10 DEF TtyInv, TasksOK, Draining
<1>12. SemsOK' /\ \A r \in Procs : HeldUp(r)' <=> HeldUp(r)
  BY <1>1, <1>11, SemsStay DEF TtyInv
<1>13. Fetchers' = Fetchers \ {p} /\ Fillers' = Fillers /\ Emptiers' = Emptiers
  <2>1. /\ Fetchers' = IF s \in {"read_test", "read_get"} THEN Fetchers \cup {p} ELSE Fetchers \ {p}
        /\ Fillers' = IF s \in {"put_test", "put"} THEN Fillers \cup {p} ELSE Fillers \ {p}
        /\ Emptiers' = IF s \in {"drain_notify"} THEN Emptiers \cup {p} ELSE Emptiers \ {p}
    BY <1>1, <1>10, <1>11, <1>12, StepCounts
  <2>2. p \notin Fillers /\ p \notin Emptiers
    BY <1>1 DEF Fillers, Emptiers, Doing
  <2> QED BY <1>11, <2>1, <2>2
<1>14. CharsCounted'
  <2>1. Cardinality(Fetchers') = Cardinality(Fetchers) - 1 /\ Cardinality(Fetchers) \in Nat
    BY <1>3, <1>13, DoingFinite, OneMoreOrLess
  <2>2. tokens["in"] \in Nat /\ count["in"] = tokens["in"] + Cardinality(Fetchers)
    BY <1>2 DEF TtyInv, SemsOK, CharsCounted
  <2>3. count'["in"] = tokens["in"] + Cardinality(Fetchers')
    BY <1>4, <1>5, <2>1, <2>2
  <2> QED BY <1>1, <2>3 DEF CharsCounted
<1>15. PlacesCounted'
  BY <1>1, <1>5, <1>13 DEF TtyInv, PlacesCounted
<1>16. OwnerDrains'
  BY <1>1, <1>5, <1>10, <1>11, OwnerStays DEF TtyInv, Draining
<1>17. OutputWatched'
  BY <1>1, <1>5, <1>9, <1>11, WatchStep DEF TtyInv, WillLook
<1> QED BY <1>5, <1>7, <1>9, <1>12, <1>14, <1>15, <1>16, <1>17 DEF TtyInv
-----------------------------------------------------------------------------
LEMMA WriteBeginInv ==
  ASSUME TtyInv, NEW p \in Procs, NEW m \in Messages, write_begin(p, m) PROVE TtyInv'
<1>1. PICK ch \in Char :
        /\ pc[p] = "user" /\ ~HeldUp(p) /\ pc' = [pc EXCEPT ![p] = "put_wait"]
        /\ todo' = [todo EXCEPT ![p] = m] /\ c' = [c EXCEPT ![p] = ch]
        /\ UNCHANGED <<fifoVars, semVars>>
        /\ UNCHANGED <<buf, read, write, count, owner, line, reading>>
  <2>1. m \in Seq({"a", "nl"}) /\ m # <<>>
    BY TtyAssumption
  <2>2. m[1] \in {"a", "nl"}
    BY <2>1
  <2>3. (IF m[1] = "nl" THEN "cr" ELSE m[1]) \in Char
    BY <2>2 DEF Char, Keys
  <2> QED BY <2>3 DEF write_begin, At, Goto, fifoVars
<1>2. FifosOK' /\ HoldsKeys' /\ SemsOK' /\ CharsCounted' /\ PlacesCounted'
  BY <1>1, QuietStep
<1>3. /\ pc \in [Procs -> Steps] /\ todo \in [Procs -> Seq(Keys)] /\ c \in [Procs -> Char]
      /\ m \in Seq(Keys) /\ m # <<>>
  <2>1. m \in Seq({"a", "nl"}) /\ m # <<>>
    BY TtyAssumption
  <2>2. m \in Seq(Keys)
    BY <2>1 DEF Keys
  <2> QED BY <2>1, <2>2 DEF TtyInv, TasksOK
<1>4. /\ pc' \in [Procs -> Steps] /\ todo' \in [Procs -> Seq(Keys)] /\ c' \in [Procs -> Char]
      /\ pc'[p] = "put_wait" /\ todo'[p] = m
      /\ \A r \in Procs \ {p} : pc'[r] = pc[r] /\ todo'[r] = todo[r] /\ c'[r] = c[r]
  BY <1>1, <1>3 DEF Steps
<1>5. TasksOK'
  BY <1>1, <1>3, <1>4 DEF TtyInv, TasksOK
<1>6. OwnerDrains'
  BY <1>1, <1>3, OwnerStays DEF TtyInv, Draining
<1>7. OutputWatched'
  BY <1>1, <1>4, WatchStep DEF TtyInv, WillLook
<1> QED BY <1>2, <1>5, <1>6, <1>7 DEF TtyInv

LEMMA PutWaitInv == ASSUME TtyInv, NEW p \in Procs, put_wait(p) PROVE TtyInv'
<1>1. /\ pc[p] = "put_wait" /\ ~HeldUp(p) /\ pc' = [pc EXCEPT ![p] = "put_test"]
      /\ sem_wait("out", p) /\ UNCHANGED fifoVars
      /\ UNCHANGED <<buf, read, write, count, owner, line, reading, todo, c>>
  BY DEF put_wait, At, Goto, fifoVars
<1>2. "out" \in Queues /\ WaitStep["out"] = "put_test" /\ "put_test" \in Steps
  BY DEF Queues, WaitStep, Steps
<1>3. FifosOK' /\ HoldsKeys' /\ SemsOK' /\ CharsCounted' /\ PlacesCounted'
  BY <1>1, <1>2, WaitTokens
<1>4. pc \in [Procs -> Steps] /\ owner \in Procs \cup {NoProc} /\ todo[p] # <<>>
  BY <1>1 DEF TtyInv, TasksOK
<1>5. /\ TasksOK' /\ pc'[p] = "put_test" /\ c'[p] = c[p]
      /\ \A r \in Procs \ {p} : pc'[r] = pc[r] /\ c'[r] = c[r]
  BY <1>1, <1>2, <1>4, TaskMoves DEF TtyInv
<1>6. OwnerDrains'
  BY <1>1, <1>4, OwnerStays DEF TtyInv, Draining
<1>7. OutputWatched'
  BY <1>1, <1>5, WatchStep DEF TtyInv, WillLook
<1> QED BY <1>3, <1>5, <1>6, <1>7 DEF TtyInv

\* A writer with a token finds a place.
LEMMA WriterFits == ASSUME TtyInv, NEW p \in Fillers PROVE count["out"] < ObufSize
<1>1. Cardinality(Fillers) > 0 /\ Cardinality(Fillers) \in Nat /\ Cardinality(Emptiers) \in Nat
  BY DoingFinite, CountsAreNat, MemberCounts
<1>2. /\ tokens["out"] \in Nat /\ count["out"] \in Nat /\ ObufSize \in Nat
      /\ ObufSize - count["out"] = tokens["out"] + Cardinality(Fillers) + Cardinality(Emptiers)
  BY TtyAssumption DEF TtyInv, FifosOK, SemsOK, PlacesCounted, Queues
<1> QED BY <1>1, <1>2

LEMMA PutTestInv == ASSUME TtyInv, NEW p \in Procs, put_test(p) PROVE TtyInv'
<1>1. pc[p] = "put_test" /\ ~HeldUp(p)
  BY DEF put_test, At
<1>2. ~(count["out"] >= ObufSize)
  <2>1. p \in Fillers
    BY <1>1 DEF Fillers, Doing
  <2>2. count["out"] < ObufSize /\ count["out"] \in Nat /\ ObufSize \in Nat
    BY <2>1, WriterFits, TtyAssumption DEF TtyInv, FifosOK, Queues
  <2> QED BY <2>2
<1>3. /\ pc' = [pc EXCEPT ![p] = "put"] /\ UNCHANGED <<fifoVars, semVars>>
      /\ UNCHANGED <<buf, read, write, count, owner, line, reading, todo, c>>
  BY <1>2 DEF put_test, Goto, fifoVars
<1>4. FifosOK' /\ HoldsKeys' /\ SemsOK' /\ CharsCounted' /\ PlacesCounted'
  BY <1>1, <1>3, QuietStep
<1>5. /\ pc \in [Procs -> Steps] /\ owner \in Procs \cup {NoProc} /\ "put" \in Steps
      /\ todo[p] # <<>>
  BY <1>1 DEF TtyInv, TasksOK, Steps
<1>6. /\ TasksOK' /\ pc'[p] = "put" /\ c'[p] = c[p]
      /\ \A r \in Procs \ {p} : pc'[r] = pc[r] /\ c'[r] = c[r]
  BY <1>3, <1>5, TaskMoves DEF TtyInv
<1>7. OwnerDrains'
  BY <1>1, <1>3, <1>5, OwnerStays DEF TtyInv, Draining
<1>8. OutputWatched'
  BY <1>1, <1>3, <1>6, WatchStep DEF TtyInv, WillLook
<1> QED BY <1>4, <1>6, <1>7, <1>8 DEF TtyInv

LEMMA PutInv == ASSUME TtyInv, NEW p \in Procs, put(p) PROVE TtyInv'
<1>1. /\ pc[p] = "put" /\ ~HeldUp(p) /\ Put("out", c[p])
      /\ UNCHANGED <<tokens, waiting, owner, line, reading>>
  BY DEF put, At, semVars
<1>2. /\ "in" \in Queues /\ "out" \in Queues /\ "in" \in Queues \ {"out"} /\ Size["out"] = ObufSize
      /\ c[p] \in Char
  BY Sizes DEF Queues, TtyInv, TasksOK
<1>3. p \in Fillers
  BY <1>1 DEF Fillers, Doing
<1>4. count["out"] < ObufSize /\ count["out"] \in Nat /\ ObufSize \in Nat
  BY <1>2, <1>3, WriterFits, TtyAssumption DEF TtyInv, FifosOK
<1>5. /\ FifosOK' /\ count'["out"] = count["out"] + 1
      /\ buf'["in"] = buf["in"] /\ read'["in"] = read["in"] /\ count'["in"] = count["in"]
  BY <1>1, <1>2, <1>4, PutCell DEF TtyInv
<1>6. HoldsKeys'
  BY <1>5 DEF TtyInv, HoldsKeys
<1>7. /\ pc \in [Procs -> Steps] /\ todo \in [Procs -> Seq(Keys)] /\ c \in [Procs -> Char]
      /\ todo[p] # <<>>
  BY <1>1 DEF TtyInv, TasksOK
<1>8. PICK s \in {"put_wait", "lock"}, l \in Seq(Keys), ch \in Char :
        /\ pc' = [pc EXCEPT ![p] = s] /\ todo' = [todo EXCEPT ![p] = l]
        /\ c' = [c EXCEPT ![p] = ch]
        /\ s = "put_wait" => ch = "nl" /\ l # <<>>
  <2>1. CASE c[p] = "cr"
    <3>1. pc' = [pc EXCEPT ![p] = "put_wait"] /\ todo' = todo /\ c' = [c EXCEPT ![p] = "nl"]
      BY <2>1 DEF put, Goto
    <3>2. todo' = [todo EXCEPT ![p] = todo[p]] /\ todo[p] \in Seq(Keys) /\ "nl" \in Char
      BY <1>7, <3>1 DEF Char, Keys
    <3> QED BY <1>7, <3>1, <3>2
  <2>2. CASE c[p] # "cr"
    <3>1. /\ pc' = [pc EXCEPT ![p] = "lock"] /\ todo' = [todo EXCEPT ![p] = Tail(todo[p])]
          /\ c' = [c EXCEPT ![p] = "a"]
      BY <2>2 DEF put, Goto
    <3>2. Tail(todo[p]) \in Seq(Keys) /\ "a" \in Char
      BY <1>7 DEF Char, Keys
    <3> QED BY <3>1, <3>2
  <2> QED BY <2>1, <2>2
<1>9. /\ pc' \in [Procs -> Steps] /\ todo' \in [Procs -> Seq(Keys)] /\ c' \in [Procs -> Char]
      /\ pc'[p] = s /\ todo'[p] = l /\ c'[p] = ch
      /\ \A r \in Procs \ {p} : pc'[r] = pc[r] /\ todo'[r] = todo[r] /\ c'[r] = c[r]
  BY <1>7, <1>8 DEF Steps
<1>10. TasksOK'
  BY <1>1, <1>8, <1>9 DEF TtyInv, TasksOK
<1>11. SemsOK' /\ \A r \in Procs : HeldUp(r)' <=> HeldUp(r)
  BY <1>1, <1>9, SemsStay DEF TtyInv
<1>12. Fetchers' = Fetchers /\ Fillers' = Fillers \ {p} /\ Emptiers' = Emptiers
  <2>1. /\ Fetchers' = IF s \in {"read_test", "read_get"} THEN Fetchers \cup {p} ELSE Fetchers \ {p}
        /\ Fillers' = IF s \in {"put_test", "put"} THEN Fillers \cup {p} ELSE Fillers \ {p}
        /\ Emptiers' = IF s \in {"drain_notify"} THEN Emptiers \cup {p} ELSE Emptiers \ {p}
    BY <1>1, <1>7, <1>8, <1>11, StepCounts
  <2>2. p \notin Fetchers /\ p \notin Emptiers
    BY <1>1 DEF Fetchers, Emptiers, Doing
  <2> QED BY <1>8, <2>1, <2>2
<1>13. CharsCounted'
  BY <1>1, <1>5, <1>12 DEF TtyInv, CharsCounted
<1>14. PlacesCounted'
  <2>1. /\ Cardinality(Fillers') = Cardinality(Fillers) - 1
        /\ Cardinality(Fillers) \in Nat /\ Cardinality(Emptiers) \in Nat
    BY <1>3, <1>12, DoingFinite, OneMoreOrLess
  <2>2. /\ tokens["out"] \in Nat
        /\ ObufSize - count["out"] = tokens["out"] + Cardinality(Fillers) + Cardinality(Emptiers)
    BY <1>2 DEF TtyInv, SemsOK, PlacesCounted
  <2>3. count'["out"] = count["out"] + 1
    BY <1>5
  <2>4. ObufSize - count'["out"] = tokens["out"] + Cardinality(Fillers') + Cardinality(Emptiers)
    <3>1. PICK n \in Nat, places \in Nat, t \in Nat, f \in Nat, e \in Nat :
            /\ n = count["out"] /\ places = ObufSize /\ t = tokens["out"]
            /\ f = Cardinality(Fillers) /\ e = Cardinality(Emptiers)
      BY <1>4, <2>1, <2>2
    <3>2. places - n = t + f + e
      BY <2>2, <3>1
    <3>3. places - (n + 1) = t + (f - 1) + e
      BY <3>2
    <3> QED BY <2>1, <2>3, <3>1, <3>3
  <2> QED BY <1>1, <1>12, <2>4 DEF PlacesCounted
<1>15. OwnerDrains'
  <2>1. s \notin Draining /\ pc[p] \notin Draining /\ (count["out"] > 0 => count'["out"] > 0)
    BY <1>1, <1>4, <1>5, <1>8 DEF Draining
  <2> QED BY <1>1, <1>7, <1>8, <2>1, OwnerStays DEF TtyInv
<1>16. OutputWatched'
  <2>1. WillLook(p)'
    BY <1>8, <1>9 DEF WillLook
  <2> QED BY <1>9, <2>1, WatchStep DEF TtyInv
<1> QED BY <1>5, <1>6, <1>10, <1>11, <1>13, <1>14, <1>15, <1>16 DEF TtyInv
-----------------------------------------------------------------------------
LEMMA LockInv == ASSUME TtyInv, NEW p \in Procs, lock(p) PROVE TtyInv'
<1>1. /\ pc[p] = "lock" /\ ~HeldUp(p) /\ pc' = [pc EXCEPT ![p] = "drain_test"]
      /\ owner = NoProc /\ owner' = p /\ UNCHANGED <<fifoVars, semVars>>
      /\ UNCHANGED <<buf, read, write, count, line, reading, todo, c>>
  BY DEF lock, At, Goto, fifoVars
<1>2. FifosOK' /\ HoldsKeys' /\ SemsOK' /\ CharsCounted' /\ PlacesCounted'
  BY <1>1, QuietStep
<1>3. pc \in [Procs -> Steps] /\ "drain_test" \in Steps
  BY DEF TtyInv, TasksOK, Steps
<1>4. /\ TasksOK' /\ pc'[p] = "drain_test"
      /\ \A r \in Procs \ {p} : pc'[r] = pc[r] /\ c'[r] = c[r]
  BY <1>1, <1>3, TaskMoves DEF TtyInv
<1>5. OwnerDrains'
  BY <1>1, <1>4, TtyAssumption DEF TtyInv, OwnerDrains, Draining
<1>6. OutputWatched'
  BY <1>4 DEF OutputWatched, WillLook
<1> QED BY <1>2, <1>4, <1>5, <1>6 DEF TtyInv

LEMMA DrainTestInv == ASSUME TtyInv, NEW p \in Procs, drain_test(p) PROVE TtyInv'
<1>1. PICK s \in {"unlock", "drain_get"} :
        /\ pc[p] = "drain_test" /\ ~HeldUp(p) /\ pc' = [pc EXCEPT ![p] = s]
        /\ s = "unlock" <=> count["out"] <= 0
        /\ UNCHANGED <<fifoVars, semVars>>
        /\ UNCHANGED <<buf, read, write, count, owner, line, reading, todo, c>>
  BY DEF drain_test, Drained, At, Goto, fifoVars
<1>2. FifosOK' /\ HoldsKeys' /\ SemsOK' /\ CharsCounted' /\ PlacesCounted'
  BY <1>1, QuietStep
<1>3. /\ pc \in [Procs -> Steps] /\ owner \in Procs \cup {NoProc} /\ s \in Steps
      /\ s \notin {"put_wait", "put_test", "put"}
  BY DEF TtyInv, TasksOK, Steps
<1>4. /\ TasksOK' /\ pc'[p] = s
      /\ \A r \in Procs \ {p} : pc'[r] = pc[r] /\ c'[r] = c[r]
  BY <1>1, <1>3, TaskMoves DEF TtyInv
<1>5. count["out"] \in Nat
  BY DEF TtyInv, FifosOK, Queues
<1>6. s = "drain_get" => count["out"] > 0
  BY <1>1, <1>5
<1>7. OwnerDrains'
  <2>1. pc[p] \in Draining /\ s \in Draining
    BY <1>1 DEF Draining
  <2> QED BY <1>1, <1>4, <1>6, <2>1 DEF TtyInv, OwnerDrains
<1>8. count["out"] > 0 => s = "drain_get"
  BY <1>1, <1>5
<1>9. OutputWatched'
  BY <1>1, <1>4, <1>8 DEF OutputWatched, WillLook
<1> QED BY <1>2, <1>4, <1>7, <1>9 DEF TtyInv

LEMMA DrainGetInv == ASSUME TtyInv, NEW p \in Procs, drain_get(p) PROVE TtyInv'
<1>1. /\ pc[p] = "drain_get" /\ ~HeldUp(p) /\ Get("out") /\ pc' = [pc EXCEPT ![p] = "drain_notify"]
      /\ UNCHANGED <<tokens, waiting, owner, line, reading, todo, c>>
  BY DEF drain_get, At, Goto, semVars
<1>2. /\ "in" \in Queues /\ "out" \in Queues /\ "in" \in Queues \ {"out"} /\ Size["out"] = ObufSize
      /\ ObufSize \in Nat
  BY Sizes, TtyAssumption DEF Queues
<1>3. count["out"] > 0 /\ count["out"] \in Nat
  BY <1>1, <1>2 DEF TtyInv, OwnerDrains, FifosOK
<1>4. /\ FifosOK' /\ count'["out"] = count["out"] - 1
      /\ buf'["in"] = buf["in"] /\ read'["in"] = read["in"] /\ count'["in"] = count["in"]
  BY <1>1, <1>2, <1>3, GetCell DEF TtyInv
<1>5. HoldsKeys'
  BY <1>4 DEF TtyInv, HoldsKeys
<1>6. pc \in [Procs -> Steps] /\ owner \in Procs \cup {NoProc} /\ "drain_notify" \in Steps
  BY DEF TtyInv, TasksOK, Steps
<1>7. /\ TasksOK' /\ pc'[p] = "drain_notify"
      /\ \A r \in Procs \ {p} : pc'[r] = pc[r] /\ c'[r] = c[r]
  BY <1>1, <1>6, TaskMoves DEF TtyInv
<1>8. SemsOK' /\ \A r \in Procs : HeldUp(r)' <=> HeldUp(r)
  BY <1>1, <1>7, SemsStay DEF TtyInv
<1>9. /\ Fetchers' = Fetchers /\ Fillers' = Fillers
      /\ p \notin Emptiers /\ Emptiers' = Emptiers \cup {p}
  <2>1. /\ Fetchers' = Fetchers \ {p} /\ Fillers' = Fillers \ {p}
        /\ Emptiers' = Emptiers \cup {p}
    <3>1. PICK s : s = "drain_notify"
      OBVIOUS
    <3>2. /\ Fetchers' = IF s \in {"read_test", "read_get"} THEN Fetchers \cup {p} ELSE Fetchers \ {p}
          /\ Fillers' = IF s \in {"put_test", "put"} THEN Fillers \cup {p} ELSE Fillers \ {p}
          /\ Emptiers' = IF s \in {"drain_notify"} THEN Emptiers \cup {p} ELSE Emptiers \ {p}
      BY <1>1, <1>6, <1>8, <3>1, StepCounts
    <3> QED BY <3>1, <3>2
  <2>2. p \notin Fetchers /\ p \notin Fillers /\ p \notin Emptiers
    BY <1>1 DEF Fetchers, Fillers, Emptiers, Doing
  <2> QED BY <2>1, <2>2
<1>10. CharsCounted'
  BY <1>1, <1>4, <1>9 DEF TtyInv, CharsCounted
<1>11. PlacesCounted'
  <2>1. /\ Cardinality(Emptiers') = Cardinality(Emptiers) + 1
        /\ Cardinality(Fillers) \in Nat /\ Cardinality(Emptiers) \in Nat
    BY <1>9, DoingFinite, OneMoreOrLess
  <2>2. /\ tokens["out"] \in Nat
        /\ ObufSize - count["out"] = tokens["out"] + Cardinality(Fillers) + Cardinality(Emptiers)
    BY <1>2 DEF TtyInv, SemsOK, PlacesCounted
  <2>3. count'["out"] = count["out"] - 1 /\ ObufSize \in Nat
    BY <1>2, <1>4
  <2>4. ObufSize - count'["out"] = tokens["out"] + Cardinality(Fillers) + Cardinality(Emptiers')
    BY <1>3, <2>1, <2>2, <2>3
  <2> QED BY <1>1, <1>9, <2>4 DEF PlacesCounted
<1>12. OwnerDrains'
  <2>1. pc[p] \in Draining /\ "drain_notify" \in Draining
    BY <1>1 DEF Draining
  <2>2. owner = p /\ \A r \in Procs \ {p} : pc[r] # "drain_get"
    BY <2>1 DEF TtyInv, OwnerDrains, Draining
  <2> QED BY <1>1, <1>7, <2>1, <2>2 DEF TtyInv, OwnerDrains
<1>13. OutputWatched'
  BY <1>7 DEF OutputWatched, WillLook
<1> QED BY <1>4, <1>5, <1>7, <1>8, <1>10, <1>11, <1>12, <1>13 DEF TtyInv

LEMMA DrainNotifyInv == ASSUME TtyInv, NEW p \in Procs, drain_notify(p) PROVE TtyInv'
<1>1. /\ pc[p] = "drain_notify" /\ ~HeldUp(p) /\ pc' = [pc EXCEPT ![p] = "drain_test"]
      /\ sem_notify("out")
      /\ UNCHANGED <<buf, read, write, count, owner, line, reading, todo, c>>
  BY DEF drain_notify, At, Goto, fifoVars
<1>2. /\ "in" \in Queues /\ "out" \in Queues /\ "in" \in Queues \ {"out"} /\ "drain_test" \in Steps
      /\ WaitStep["out"] = "put_test"
  BY DEF Queues, Steps, WaitStep
<1>3. FifosOK' /\ HoldsKeys'
  BY <1>1 DEF TtyInv, FifosOK, HoldsKeys
<1>4. pc \in [Procs -> Steps] /\ owner \in Procs \cup {NoProc}
  BY DEF TtyInv, TasksOK
<1>5. /\ TasksOK' /\ pc'[p] = "drain_test"
      /\ \A r \in Procs \ {p} : pc'[r] = pc[r] /\ c'[r] = c[r]
  BY <1>1, <1>2, <1>4, TaskMoves DEF TtyInv
<1>6. \A q \in Queues : \A r \in Range(waiting[q]) : r \in Procs \ {p}
  BY <1>1 DEF TtyInv, SemsOK, Range, HeldUp, Queues
<1>7. /\ SemsOK' /\ tokens'["in"] = tokens["in"]
      /\ \/ waiting' = waiting /\ tokens'["out"] = tokens["out"] + 1
         \/ /\ tokens'["out"] = tokens["out"]
            /\ \E h \in Procs : /\ HeldUp(h) /\ ~HeldUp(h)' /\ pc[h] = WaitStep["out"]
                               /\ \A r \in Procs \ {h} : HeldUp(r)' <=> HeldUp(r)
  <2>1. \A q \in Queues : \A r \in Range(waiting[q]) : pc'[r] = pc[r]
    BY <1>5, <1>6
  <2>2. /\ SemsOK' /\ \A o \in Queues \ {"out"} : tokens'[o] = tokens[o]
        /\ \/ waiting' = waiting /\ tokens'["out"] = tokens["out"] + 1
           \/ /\ tokens'["out"] = tokens["out"]
              /\ \E h \in Procs : /\ HeldUp(h) /\ ~HeldUp(h)' /\ pc[h] = WaitStep["out"]
                                 /\ \A r \in Procs \ {h} : HeldUp(r)' <=> HeldUp(r)
    BY <1>1, <1>2, <2>1, SemNotify DEF TtyInv
  <2> QED BY <1>2, <2>2
<1>8. /\ ObufSize - count["out"] = tokens["out"] + Cardinality(Fillers) + Cardinality(Emptiers)
      /\ tokens["out"] \in Nat /\ count["out"] \in Nat /\ ObufSize \in Nat
  BY <1>2, TtyAssumption DEF TtyInv, PlacesCounted, SemsOK, FifosOK
<1>9. p \in Emptiers
  BY <1>1 DEF Emptiers, Doing
<1>10. CharsCounted' /\ PlacesCounted'
  <2>1. CASE waiting' = waiting /\ tokens'["out"] = tokens["out"] + 1
    <3>1. Fetchers' = Fetchers /\ Fillers' = Fillers /\ Emptiers' = Emptiers \ {p}
      BY <1>1, <1>5, <2>1 DEF Fetchers, Fillers, Emptiers, Doing, HeldUp
    <3>2. Cardinality(Emptiers') = Cardinality(Emptiers) - 1
      BY <1>9, <3>1, DoingFinite, OneMoreOrLess
    <3>3. CharsCounted'
      BY <1>1, <1>7, <3>1 DEF TtyInv, CharsCounted
    <3>4. tokens'["out"] = tokens["out"] + 1
      BY <2>1
    <3>5. ObufSize - count["out"] = tokens'["out"] + Cardinality(Fillers) + Cardinality(Emptiers')
      BY <1>8, <3>2, <3>4, CountsAreNat
    <3>6. PlacesCounted'
      BY <1>1, <3>1, <3>5 DEF PlacesCounted
    <3> QED BY <3>3, <3>6
  <2>2. CASE /\ tokens'["out"] = tokens["out"]
             /\ \E h \in Procs : /\ HeldUp(h) /\ ~HeldUp(h)' /\ pc[h] = WaitStep["out"]
                                /\ \A r \in Procs \ {h} : HeldUp(r)' <=> HeldUp(r)
    <3>1. PICK h \in Procs : /\ HeldUp(h) /\ ~HeldUp(h)' /\ pc[h] = WaitStep["out"]
                             /\ \A r \in Procs \ {h} : HeldUp(r)' <=> HeldUp(r)
      BY <2>2
    <3>2. pc[h] = "put_test" /\ h # p /\ pc'[h] = pc[h]
      BY <1>1, <1>2, <1>5, <3>1
    <3>3. /\ h \notin Fillers /\ Fetchers' = Fetchers /\ Fillers' = Fillers \cup {h}
          /\ Emptiers' = Emptiers \ {p}
      BY <1>1, <1>5, <3>1, <3>2 DEF Fetchers, Fillers, Emptiers, Doing
    <3>4. /\ Cardinality(Emptiers') = Cardinality(Emptiers) - 1
          /\ Cardinality(Fillers') = Cardinality(Fillers) + 1
      BY <1>9, <3>3, DoingFinite, OneMoreOrLess
    <3>5. CharsCounted'
      BY <1>1, <1>7, <3>3 DEF TtyInv, CharsCounted
    <3>6. ObufSize - count["out"] = tokens["out"] + Cardinality(Fillers') + Cardinality(Emptiers')
      BY <1>8, <3>4, CountsAreNat
    <3>7. PlacesCounted'
      BY <1>1, <2>2, <3>6 DEF PlacesCounted
    <3> QED BY <3>5, <3>7
  <2> QED BY <1>7, <2>1, <2>2
<1>11. OwnerDrains'
  <2>1. pc[p] \in Draining /\ "drain_test" \in Draining
    BY <1>1 DEF Draining
  <2> QED BY <1>1, <1>5, <2>1 DEF TtyInv, OwnerDrains
<1>12. OutputWatched'
  BY <1>5 DEF OutputWatched, WillLook
<1> QED BY <1>3, <1>5, <1>7, <1>10, <1>11, <1>12 DEF TtyInv

LEMMA UnlockInv == ASSUME TtyInv, NEW p \in Procs, unlock(p) PROVE TtyInv'
<1>1. pc[p] = "unlock" /\ ~HeldUp(p) /\ owner' = NoProc /\ UNCHANGED <<fifoVars, semVars>>
  BY DEF unlock, At
<1>2. pc \in [Procs -> Steps] /\ todo \in [Procs -> Seq(Keys)] /\ c \in [Procs -> Char]
  BY DEF TtyInv, TasksOK
<1>3. /\ TasksOK' /\ \A r \in Procs \ {p} : c'[r] = c[r]
      /\ \E s \in {"user", "read_wait", "put_wait"} : pc' = [pc EXCEPT ![p] = s]
  <2>1. CASE todo[p] = <<>>
    <3>1. Return(p)
      BY <2>1 DEF unlock
    <3> QED BY <1>1, <3>1, ReturnTasks DEF TtyInv
  <2>2. CASE todo[p] # <<>>
    <3>1. PICK ch \in Char : c' = [c EXCEPT ![p] = ch]
      <4>1. todo[p][1] \in Keys
        BY <1>2, <2>2
      <4>2. (IF todo[p][1] = "nl" THEN "cr" ELSE todo[p][1]) \in Char
        BY <4>1 DEF Char
      <4> QED BY <2>2, <4>2 DEF unlock
    <3>2. pc' = [pc EXCEPT ![p] = "put_wait"] /\ UNCHANGED <<line, reading, todo>>
      BY <2>2 DEF unlock, Goto
    <3>3. /\ pc' \in [Procs -> Steps] /\ c' \in [Procs -> Char]
          /\ \A r \in Procs \ {p} : pc'[r] = pc[r] /\ c'[r] = c[r]
      BY <1>2, <3>1, <3>2 DEF Steps
    <3>4. TasksOK'
      BY <1>1, <2>2, <3>2, <3>3 DEF TtyInv, TasksOK
    <3> QED BY <3>2, <3>3, <3>4
  <2> QED BY <2>1, <2>2
<1>4. PICK s \in {"user", "read_wait", "put_wait"} : pc' = [pc EXCEPT ![p] = s]
  BY <1>3
<1>5. FifosOK' /\ HoldsKeys' /\ SemsOK' /\ CharsCounted' /\ PlacesCounted'
  BY <1>1, <1>4, QuietStep
<1>6. pc'[p] = s /\ \A r \in Procs \ {p} : pc'[r] = pc[r]
  BY <1>2, <1>4
<1>7. OwnerDrains'
  <2>1. owner = p /\ s \notin Draining
    BY <1>1 DEF TtyInv, OwnerDrains, Draining
  <2>2. \A r \in Procs : pc'[r] \notin Draining /\ owner' # r
    BY <1>1, <1>6, <2>1, TtyAssumption DEF TtyInv, OwnerDrains
  <2> QED BY <2>2 DEF OwnerDrains, Draining
<1>8. OutputWatched'
  BY <1>1, <1>3, <1>6, WatchStep DEF TtyInv, WillLook, fifoVars
<1> QED BY <1>3, <1>5, <1>7, <1>8 DEF TtyInv
-----------------------------------------------------------------------------
LEMMA TtyNextInv == ASSUME Overrun = FALSE, TtyInv, [Next]_vars PROVE TtyInv'
<1>1. CASE \E key \in Keys : tty_in(key)
  BY <1>1, TtyInInv
<1>2. CASE \E p \in Procs : Begin(p)
  BY <1>2, ReadBeginInv, WriteBeginInv DEF Begin
<1>3. ASSUME NEW p \in Procs, Continue(p) PROVE TtyInv'
  <2>1. CASE read_wait(p) \/ read_test(p) \/ read_get(p)
    BY <2>1, ReadWaitInv, ReadTestInv, ReadGetInv
  <2>2. CASE put_wait(p) \/ put_test(p) \/ put(p)
    BY <2>2, PutWaitInv, PutTestInv, PutInv
  <2>3. CASE drain_test(p) \/ drain_get(p) \/ drain_notify(p) \/ unlock(p)
    BY <2>3, DrainTestInv, DrainGetInv, DrainNotifyInv, UnlockInv
  <2> QED BY <1>3, <2>1, <2>2, <2>3 DEF Continue
<1>4. CASE \E p \in Procs : lock(p)
  BY <1>4, LockInv
<1>5. CASE UNCHANGED vars
  <2>1. UNCHANGED <<buf, read, write, count, tokens, waiting, owner, pc, line, reading, todo, c>>
    BY <1>5 DEF vars, fifoVars, semVars, taskVars
  <2> QED BY <2>1 DEF TtyInv, FifosOK, HoldsKeys, TasksOK, SemsOK, CharsCounted, PlacesCounted,
                      Fetchers, Fillers, Emptiers, Doing, HeldUp, OwnerDrains, OutputWatched, WillLook
<1> QED BY <1>1, <1>2, <1>3, <1>4, <1>5 DEF Next

LEMMA TtyInvariant == ASSUME Overrun = FALSE PROVE Spec => []TtyInv
BY TtyInitInv, TtyNextInv, PTL DEF Spec
-----------------------------------------------------------------------------
\* Every field of the terminal and of its tasks keeps its type; above all, neither count
\* leaves its queue's size and no index leaves the ring.
THEOREM TtyTypeCorrect == ASSUME Overrun = FALSE PROVE Spec => []TtyTypeOK
<1>1. ASSUME TtyInv PROVE TtyTypeOK
  <2>1. /\ \A q \in Queues : /\ buf[q] \in [0 .. Size[q] - 1 -> Char \cup {Junk}]
                             /\ read[q] \in Nat /\ read[q] < Size[q] /\ Size[q] \in Nat
                             /\ count[q] \in Nat /\ count[q] <= Size[q]
                             /\ tokens[q] \in Nat /\ waiting[q] \in Seq(Procs)
        /\ tokens["in"] \in Nat /\ tokens["out"] \in Nat /\ count["in"] \in Nat
        /\ count["out"] \in Nat
    BY <1>1, Sizes DEF TtyInv, FifosOK, SemsOK, Queues
  <2>2. ASSUME NEW q \in Queues PROVE write[q] \in Nat /\ write[q] < Size[q]
    <3>1. PICK S \in Nat, r \in Nat, n \in Nat :
            S = Size[q] /\ r = read[q] /\ n = count[q] /\ r < S /\ n <= S
      BY <2>1
    <3>2. r < S /\ n <= S
      BY <3>1
    <3>3. PICK a \in Nat : /\ a = Cell(S, r, n) /\ a < S
                           /\ r + n < S => a = r + n
                           /\ ~(r + n < S) => a = r + n - S
      BY <3>2, CellAt
    <3>4. write[q] = Cell(S, r, n)
      BY <1>1, <3>1 DEF TtyInv, FifosOK
    <3> QED BY <3>1, <3>3, <3>4
  <2>3. tokens["in"] <= IbufSize
    <3>1. count["in"] = tokens["in"] + Cardinality(Fetchers) /\ Cardinality(Fetchers) \in Nat
      BY <1>1, CountsAreNat DEF TtyInv, CharsCounted
    <3>2. count["in"] <= IbufSize /\ IbufSize \in Nat
      BY <1>1, Sizes, TtyAssumption DEF TtyInv, FifosOK, Queues
    <3>3. tokens["in"] <= count["in"]
      BY <2>1, <3>1
    <3> QED BY <2>1, <3>2, <3>3
  <2>4. tokens["out"] <= ObufSize
    <3>1. /\ ObufSize - count["out"] = tokens["out"] + Cardinality(Fillers) + Cardinality(Emptiers)
          /\ Cardinality(Fillers) \in Nat /\ Cardinality(Emptiers) \in Nat /\ ObufSize \in Nat
      BY <1>1, CountsAreNat, TtyAssumption DEF TtyInv, PlacesCounted
    <3> QED BY <2>1, <3>1
  <2>5. \A q \in Queues : tokens[q] <= Size[q]
    BY <2>3, <2>4, Sizes DEF Queues
  <2>6. ASSUME NEW q \in Queues
        PROVE  /\ read[q] \in 0 .. Size[q] - 1 /\ write[q] \in 0 .. Size[q] - 1
               /\ count[q] \in 0 .. Size[q] /\ tokens[q] \in 0 .. Size[q]
    BY <2>1, <2>2, <2>5
  <2>7. \A q \in Queues : {read[q], write[q]} \subseteq 0 .. Size[q] - 1
    BY <2>6
  <2>8. /\ owner \in Procs \cup {NoProc} /\ pc \in [Procs -> Steps] /\ line \in [Procs -> Seq(Char)]
        /\ reading \in [Procs -> BOOLEAN] /\ todo \in [Procs -> Seq({"a", "nl", "del"})]
        /\ c \in [Procs -> Char]
    BY <1>1 DEF TtyInv, TasksOK, Keys
  <2> QED BY <2>1, <2>6, <2>7, <2>8 DEF TtyTypeOK, Queues
<1> QED BY <1>1, TtyInvariant, PTL

\* The tokens of the two semaphores match the ring buffers: one for every character of the
\* input and one for every place of the output, in the semaphore or with the task that is
\* about to use it, and nobody waits while there is one.
THEOREM TokensCountPlaces == ASSUME Overrun = FALSE PROVE Spec => []TokensMatchQueues
<1>1. TtyInv => TokensMatchQueues
  BY DEF TtyInv, CharsCounted, PlacesCounted, SemsOK, Fetchers, Fillers, Emptiers, Queues,
         TokensMatchQueues
<1> QED BY <1>1, TtyInvariant, PTL

\* Whatever is in the output queue is shown: some task that will look at the queue again
\* is on its way, and is not one that has just found it empty.
THEOREM OutputNotStranded == ASSUME Overrun = FALSE PROVE Spec => []NothingStranded
<1>1. ASSUME TtyInv, count["out"] > 0
      PROVE  \/ Doing({"lock", "drain_test", "drain_get", "drain_notify"}) # {}
             \/ \E p \in Procs : pc[p] \in {"put_wait", "put_test", "put"} /\ c[p] = "nl"
  <2>1. PICK p \in Procs : WillLook(p)
    BY <1>1 DEF TtyInv, OutputWatched
  <2>2. CASE pc[p] \in {"lock", "drain_test", "drain_get", "drain_notify"}
    <3>1. ~HeldUp(p)
      BY <1>1, <2>2 DEF TtyInv, SemsOK, HeldUp, WaitStep, Queues
    <3> QED BY <2>2, <3>1 DEF Doing
  <2> QED BY <2>1, <2>2 DEF WillLook
<1> QED BY <1>1, TtyInvariant, PTL DEF NothingStranded
-----------------------------------------------------------------------------
\* What a ring of S cells holds that has n characters from cell r on.
Ring(S, b, r, n) == [i \in 1 .. n |-> b[(r + i - 1) % S]]
Rings(S, V) == [0 .. S - 1 -> V]
Shows(s, V, S, b, r, n) ==
    s \in Seq(V) /\ Len(s) = n /\ \A i \in Nat : i < n => s[i + 1] = b[Cell(S, r, i)]

LEMMA RingAt ==
  ASSUME NEW S \in Nat, NEW V, NEW b \in Rings(S, V), NEW r \in Nat, NEW n \in Nat,
         r < S, n <= S
  PROVE  Shows(Ring(S, b, r, n), V, S, b, r, n)
<1>1. ASSUME NEW i \in Nat, i < n PROVE Cell(S, r, i) \in 0 .. S - 1
  <2>1. i <= S
    BY <1>1
  <2>2. PICK a \in Nat : /\ a = Cell(S, r, i) /\ a < S
                         /\ r + i < S => a = r + i
                         /\ ~(r + i < S) => a = r + i - S
    BY <2>1, CellAt
  <2>3. a \in 0 .. S - 1
    BY <2>2
  <2> QED BY <2>2, <2>3
<1>2. ASSUME NEW j \in 1 .. n PROVE b[(r + j - 1) % S] \in V
  <2>1. PICK i \in Nat : i + 1 = j /\ i < n /\ r + j - 1 = r + i
    <3>1. j - 1 \in Nat /\ (j - 1) + 1 = j /\ j - 1 < n /\ r + j - 1 = r + (j - 1)
      OBVIOUS
    <3> QED BY <3>1
  <2>2. b[Cell(S, r, i)] \in V
    BY <1>1, <2>1 DEF Rings
  <2> QED BY <2>1, <2>2 DEF Cell
<1>3. Ring(S, b, r, n) \in [1 .. n -> V]
  BY <1>2 DEF Ring
<1>4. Ring(S, b, r, n) \in Seq(V) /\ Len(Ring(S, b, r, n)) = n
  BY <1>3
<1>5. ASSUME NEW i \in Nat, i < n PROVE Ring(S, b, r, n)[i + 1] = b[Cell(S, r, i)]
  <2>1. i + 1 \in 1 .. n /\ r + (i + 1) - 1 = r + i
    BY <1>5
  <2> QED BY <2>1 DEF Ring, Cell
<1> QED BY <1>4, <1>5 DEF Shows

\* A sequence with one element more at its end, and with one less at its front.
LEMMA LongerSeq ==
  ASSUME NEW V, NEW n \in Nat, NEW s \in Seq(V), NEW t \in Seq(V), NEW e \in V,
         Len(s) = n, Len(t) = n + 1, \A i \in Nat : i < n => t[i + 1] = s[i + 1], t[n + 1] = e
  PROVE  t = Append(s, e)
<1>1. /\ Append(s, e) \in Seq(V) /\ Len(Append(s, e)) = n + 1
      /\ \A j \in 1 .. n : Append(s, e)[j] = s[j]
      /\ Append(s, e)[n + 1] = e
  OBVIOUS
<1>2. ASSUME NEW j \in 1 .. n + 1 PROVE t[j] = Append(s, e)[j]
  <2>1. CASE j = n + 1
    BY <1>1, <2>1
  <2>2. CASE j # n + 1
    <3>1. PICK i \in Nat : j = i + 1 /\ i < n /\ j \in 1 .. n
      <4>1. j - 1 \in Nat /\ j = (j - 1) + 1 /\ j - 1 < n /\ j \in 1 .. n
        BY <2>2
      <4> QED BY <4>1
    <3>2. t[j] = s[j]
      BY <3>1
    <3> QED BY <1>1, <3>1, <3>2
  <2> QED BY <2>1, <2>2
<1> QED BY <1>1, <1>2, SeqEqual

LEMMA ShorterSeq ==
  ASSUME NEW V, NEW n \in Nat, NEW s \in Seq(V), NEW t \in Seq(V), Len(s) = n + 1, Len(t) = n,
         \A i \in Nat : i < n => t[i + 1] = s[(i + 1) + 1]
  PROVE  t = Tail(s) /\ s # <<>>
<1>1. s # <<>>
  OBVIOUS
<1>2. /\ Tail(s) \in Seq(V) /\ Len(Tail(s)) = n
      /\ \A j \in 1 .. n : Tail(s)[j] = s[j + 1]
  BY <1>1, HeadTailProperties
<1>3. ASSUME NEW j \in 1 .. n PROVE t[j] = Tail(s)[j]
  <2>1. PICK i \in Nat : j = i + 1 /\ i < n
    <3>1. j - 1 \in Nat /\ j = (j - 1) + 1 /\ j - 1 < n
      OBVIOUS
    <3> QED BY <3>1
  <2>2. t[j] = s[j + 1]
    BY <2>1
  <2> QED BY <1>2, <2>2
<1> QED BY <1>1, <1>2, <1>3, SeqEqual

\* The buffer d is b with char put behind the n characters from cell r on.
PutAt(S, b, d, r, n, char) ==
    /\ r < S /\ n < S
    /\ \A i \in Nat : i < n => d[Cell(S, r, i)] = b[Cell(S, r, i)]
    /\ d[Cell(S, r, n)] = char

LEMMA RingPut ==
  ASSUME NEW S \in Nat, NEW V, NEW b \in Rings(S, V), NEW d \in Rings(S, V),
         NEW r \in Nat, NEW n \in Nat, NEW char \in V, PutAt(S, b, d, r, n, char)
  PROVE  Ring(S, d, r, n + 1) = Append(Ring(S, b, r, n), char) /\ Len(Ring(S, b, r, n)) = n
<1>0. /\ r < S /\ n < S
      /\ \A i \in Nat : i < n => d[Cell(S, r, i)] = b[Cell(S, r, i)]
      /\ d[Cell(S, r, n)] = char
  BY DEF PutAt
<1>1. PICK m \in Nat : m = n + 1 /\ m <= S /\ n <= S /\ n < m
  BY <1>0
<1>2. PICK old : old = Ring(S, b, r, n) /\ Shows(old, V, S, b, r, n)
  BY <1>0, <1>1, RingAt
<1>3. PICK new : new = Ring(S, d, r, m) /\ Shows(new, V, S, d, r, m)
  BY <1>0, <1>1, RingAt
<1>4. old \in Seq(V) /\ Len(old) = n /\ \A i \in Nat : i < n => old[i + 1] = b[Cell(S, r, i)]
  BY <1>2 DEF Shows
<1>5. new \in Seq(V) /\ Len(new) = m /\ \A i \in Nat : i < m => new[i + 1] = d[Cell(S, r, i)]
  BY <1>3 DEF Shows
<1>6. ASSUME NEW i \in Nat, i < n PROVE new[i + 1] = old[i + 1]
  <2>1. i < m
    BY <1>1, <1>6
  <2> QED BY <1>0, <1>4, <1>5, <1>6, <2>1
<1>7. new[n + 1] = char
  BY <1>0, <1>1, <1>5
<1>8. new = Append(old, char)
  <2>1. old \in Seq(V) /\ Len(old) = n /\ new \in Seq(V) /\ Len(new) = n + 1
    BY <1>1, <1>4, <1>5
  <2> QED BY <1>6, <1>7, <2>1, LongerSeq
<1> QED BY <1>1, <1>2, <1>3, <1>4, <1>8

LEMMA RingGet ==
  ASSUME NEW S \in Nat, NEW V, NEW b \in Rings(S, V), NEW d \in Rings(S, V),
         NEW r \in Nat, NEW s \in Nat, NEW n \in Nat, r < S, s < S, n <= S, n > 0,
         \A i \in Nat : i + 1 < n => d[Cell(S, s, i)] = b[Cell(S, r, i + 1)]
  PROVE  Ring(S, d, s, n - 1) = Tail(Ring(S, b, r, n)) /\ Ring(S, b, r, n) # <<>>
<1>1. PICK m \in Nat : m = n - 1 /\ m + 1 = n /\ m <= S
  <2>1. n - 1 \in Nat /\ (n - 1) + 1 = n /\ n - 1 <= S
    OBVIOUS
  <2> QED BY <2>1
<1>2. PICK old : old = Ring(S, b, r, n) /\ Shows(old, V, S, b, r, n)
  BY RingAt
<1>3. PICK new : new = Ring(S, d, s, m) /\ Shows(new, V, S, d, s, m)
  BY <1>1, RingAt
<1>4. old \in Seq(V) /\ Len(old) = n /\ \A i \in Nat : i < n => old[i + 1] = b[Cell(S, r, i)]
  BY <1>2 DEF Shows
<1>5. new \in Seq(V) /\ Len(new) = m /\ \A i \in Nat : i < m => new[i + 1] = d[Cell(S, s, i)]
  BY <1>3 DEF Shows
<1>6. ASSUME NEW i \in Nat, i < m PROVE new[i + 1] = old[(i + 1) + 1]
  <2>1. PICK j \in Nat : j = i + 1 /\ j < n
    BY <1>1, <1>6
  <2>2. new[i + 1] = b[Cell(S, r, j)]
    BY <1>5, <1>6, <2>1
  <2>3. old[j + 1] = b[Cell(S, r, j)]
    BY <1>4, <2>1
  <2> QED BY <2>1, <2>2, <2>3
<1>7. new = Tail(old) /\ old # <<>>
  BY <1>1, <1>4, <1>5, <1>6, ShorterSeq
<1> QED BY <1>1, <1>2, <1>3, <1>7
-----------------------------------------------------------------------------
\* The steps of the two rings are steps of the queue that module Pipe describes.
LEMMA ContentsOfRing ==
  /\ \A q \in Queues : Contents(q) = Ring(Size[q], buf[q], read[q], count[q])
  /\ \A q \in Queues : Contents(q)' = Ring(Size[q], buf'[q], read'[q], count'[q])
BY DEF Contents, Ring

LEMMA PutContents ==
  ASSUME FifosOK, NEW q \in Queues, NEW char \in Char, Put(q, char), count[q] < Size[q]
  PROVE  /\ Contents(q)' = Append(Contents(q), char) /\ Len(Contents(q)) < Size[q]
         /\ \A o \in Queues \ {q} : Contents(o)' = Contents(o)
<1>1. /\ FifosOK' /\ count'[q] = count[q] + 1 /\ read'[q] = read[q]
      /\ \A o \in Queues \ {q} : buf'[o] = buf[o] /\ read'[o] = read[o] /\ count'[o] = count[o]
      /\ \A i \in Nat : i < count[q] =>
           buf'[q][Cell(Size[q], read[q], i)] = buf[q][Cell(Size[q], read[q], i)]
      /\ buf'[q][Cell(Size[q], read[q], count[q])] = char
  BY PutCell
<1>2. PICK S \in Nat, r \in Nat, n \in Nat :
        S = Size[q] /\ r = read[q] /\ n = count[q] /\ r < S /\ n < S
  BY Sizes DEF FifosOK
<1>3. PICK V : V = Char \cup {Junk}
  OBVIOUS
<1>4. PICK b \in Rings(S, V), d \in Rings(S, V) : b = buf[q] /\ d = buf'[q]
  BY <1>1, <1>2, <1>3 DEF FifosOK, Rings
<1>5. PutAt(S, b, d, r, n, char) /\ char \in V
  BY <1>1, <1>2, <1>3, <1>4 DEF PutAt
<1>6. n < S
  BY <1>2
<1>7. Ring(S, d, r, n + 1) = Append(Ring(S, b, r, n), char) /\ Len(Ring(S, b, r, n)) = n
  BY <1>5, RingPut
<1>8. Contents(q) = Ring(S, b, r, n) /\ Contents(q)' = Ring(S, d, r, n + 1)
  BY <1>1, <1>2, <1>4, ContentsOfRing
<1>9. \A o \in Queues \ {q} : Contents(o)' = Contents(o)
  BY <1>1, ContentsOfRing
<1> QED BY <1>2, <1>6, <1>7, <1>8, <1>9

LEMMA GetContents ==
  ASSUME FifosOK, NEW q \in Queues, Get(q), count[q] > 0
  PROVE  /\ Contents(q)' = Tail(Contents(q)) /\ Contents(q) # <<>>
         /\ \A o \in Queues \ {q} : Contents(o)' = Contents(o)
<1>1. /\ FifosOK' /\ count'[q] = count[q] - 1
      /\ \A o \in Queues \ {q} : buf'[o] = buf[o] /\ read'[o] = read[o] /\ count'[o] = count[o]
      /\ \A i \in Nat : i + 1 < count[q] =>
           buf'[q][Cell(Size[q], read'[q], i)] = buf[q][Cell(Size[q], read[q], i + 1)]
  BY GetCell
<1>2. PICK S \in Nat, r \in Nat, s \in Nat, n \in Nat :
        /\ S = Size[q] /\ r = read[q] /\ s = read'[q] /\ n = count[q]
        /\ r < S /\ s < S /\ n <= S /\ n > 0
  BY <1>1, Sizes DEF FifosOK
<1>3. PICK V : V = Char \cup {Junk}
  OBVIOUS
<1>4. PICK b \in Rings(S, V), d \in Rings(S, V) : b = buf[q] /\ d = buf'[q]
  BY <1>1, <1>2, <1>3 DEF FifosOK, Rings
<1>5. \A i \in Nat : i + 1 < n => d[Cell(S, s, i)] = b[Cell(S, r, i + 1)]
  BY <1>1, <1>2, <1>4
<1>6. r < S /\ s < S /\ n <= S /\ n > 0
  BY <1>2
<1>7. Ring(S, d, s, n - 1) = Tail(Ring(S, b, r, n)) /\ Ring(S, b, r, n) # <<>>
  BY <1>5, <1>6, RingGet
<1>8. Contents(q) = Ring(S, b, r, n) /\ Contents(q)' = Ring(S, d, s, n - 1)
  BY <1>1, <1>2, <1>4, ContentsOfRing
<1>9. \A o \in Queues \ {q} : Contents(o)' = Contents(o)
  BY <1>1, ContentsOfRing
<1> QED BY <1>7, <1>8, <1>9

LEMMA SameContents ==
  ASSUME UNCHANGED fifoVars PROVE \A q \in Queues : Contents(q)' = Contents(q)
BY DEF Contents, fifoVars

\* Both queues keep their promise: each is a queue in the sense of module Pipe, which gives
\* every character once and in the order they came, and is never over its size.
THEOREM QueuesKeepOrder == ASSUME Overrun = FALSE PROVE Spec => QueuesInOrder
<1>1. Init => InPipe!Init /\ OutPipe!Init
  BY DEF Init, InPipe!Init, OutPipe!Init, Contents
<1>2. ASSUME TtyInv, [Next]_vars
      PROVE  /\ [InPipe!Put \/ InPipe!Take]_(Contents("in"))
             /\ [OutPipe!Put \/ OutPipe!Take]_(Contents("out"))
  <2>1. /\ "in" \in Queues /\ "out" \in Queues
        /\ Size["in"] = IbufSize /\ Size["out"] = ObufSize /\ FifosOK
    BY <1>2, Sizes DEF Queues, TtyInv
  <2>2. CASE UNCHANGED fifoVars
    BY <2>1, <2>2, SameContents
  <2>3. ASSUME NEW key \in Keys, tty_in(key)
        PROVE InPipe!Put /\ UNCHANGED Contents("out")
    <3>1. Put("in", key) /\ count["in"] < Size["in"] /\ key \in Char
      BY <1>2, <2>1, <2>3, KeyFits DEF tty_in, Char
    <3>2. /\ Contents("in")' = Append(Contents("in"), key) /\ Len(Contents("in")) < Size["in"]
          /\ \A o \in Queues \ {"in"} : Contents(o)' = Contents(o)
      BY <2>1, <3>1, PutContents
    <3> QED BY <2>1, <3>1, <3>2 DEF InPipe!Put, Queues
  <2>4. ASSUME NEW p \in Procs, read_get(p) PROVE InPipe!Take /\ UNCHANGED Contents("out")
    <3>1. Get("in") /\ count["in"] > 0
      <4>1. p \in Fetchers
        BY <2>4 DEF read_get, At, Fetchers, Doing
      <4> QED BY <1>2, <2>4, <4>1, ReaderFinds DEF read_get
    <3>2. /\ Contents("in")' = Tail(Contents("in")) /\ Contents("in") # <<>>
          /\ \A o \in Queues \ {"in"} : Contents(o)' = Contents(o)
      BY <2>1, <3>1, GetContents
    <3> QED BY <2>1, <3>2 DEF InPipe!Take, Queues
  <2>5. ASSUME NEW p \in Procs, put(p) PROVE OutPipe!Put /\ UNCHANGED Contents("in")
    <3>1. Put("out", c[p]) /\ count["out"] < Size["out"] /\ c[p] \in Char
      <4>1. p \in Fillers
        BY <2>5 DEF put, At, Fillers, Doing
      <4> QED BY <1>2, <2>1, <2>5, <4>1, WriterFits DEF put, TtyInv, TasksOK
    <3>2. /\ Contents("out")' = Append(Contents("out"), c[p]) /\ Len(Contents("out")) < Size["out"]
          /\ \A o \in Queues \ {"out"} : Contents(o)' = Contents(o)
      BY <2>1, <3>1, PutContents
    <3> QED BY <2>1, <3>1, <3>2 DEF OutPipe!Put, Queues
  <2>6. ASSUME NEW p \in Procs, drain_get(p) PROVE OutPipe!Take /\ UNCHANGED Contents("in")
    <3>1. Get("out") /\ count["out"] > 0
      BY <1>2, <2>6 DEF drain_get, At, TtyInv, OwnerDrains
    <3>2. /\ Contents("out")' = Tail(Contents("out")) /\ Contents("out") # <<>>
          /\ \A o \in Queues \ {"out"} : Contents(o)' = Contents(o)
      BY <2>1, <3>1, GetContents
    <3> QED BY <2>1, <3>2 DEF OutPipe!Take, Queues
  <2>7. ASSUME NEW p \in Procs, Begin(p) \/ Continue(p) \/ lock(p),
               ~read_get(p), ~put(p), ~drain_get(p)
        PROVE  UNCHANGED fifoVars
    BY <2>7 DEF Begin, Continue, read_begin, write_begin, read_wait, read_test, put_wait, put_test,
                drain_test, drain_notify, unlock, lock
  <2>8. CASE UNCHANGED vars
    BY <2>2, <2>8 DEF vars
  <2> QED BY <1>2, <2>2, <2>3, <2>4, <2>5, <2>6, <2>7, <2>8 DEF Next
<1> QED BY <1>1, <1>2, TtyInvariant, PTL DEF Spec, QueuesInOrder, InPipe!Spec, OutPipe!Spec

-----------------------------------------------------------------------------
(* The keyboard: what the handler will have made of the scan codes that      *)
(* still wait.                                                                *)

Codes == {"E0", "E1", "lshift", "rshift", "ctrl", "alt", "caps", "f1", "f2", "a", "1", "esc",
          "up", "numlock", "ack"}
ScanCodes == Codes \X BOOLEAN
Plain == ScanCodes \ {<<"caps", TRUE>>}
Ttys == {0, 1}
Chars == {"a", "A", "1", "!", "nul"}

\* The handler's state with what is due.
Handlers == [kbd : [Flags -> BOOLEAN], recv : {"NORMAL", "BEGIN_E0", "BEGIN_E1"},
             tty : Ttys, due : Seq(Ttys \X Chars)]

\* The terminals are followed only if function keys and Ctrl are not let go across one
\* another.
Followed == "chord" \notin Mishaps
Now == [kbd |-> kbd_state, recv |-> recv_state,
        tty |-> IF Followed THEN curr_tty ELSE 0, due |-> IF Followed THEN due ELSE <<>>]

IsPrefixCode(b) == b[1] \in {"E0", "E1"}
IsTyped(s, b) == /\ ~IsPrefixCode(b) /\ s.recv = "NORMAL" /\ b[2]
                 /\ b[1] \notin DOMAIN NormalFlag \cup Fx \cup {"caps"}
CharIn(kbd, code) ==
    LET shift == kbd["lshift_press"] \/ kbd["rshift_press"] IN
    CASE code = "a" -> IF shift # kbd["caps_lock"] THEN "A" ELSE "a"
      [] code = "1" -> IF shift THEN "!" ELSE "1"
      [] OTHER      -> "nul"

RecvAfter(b) == IF b[1] = "E0" THEN "BEGIN_E0" ELSE IF b[1] = "E1" THEN "BEGIN_E1" ELSE "NORMAL"

FlagsAfter(s, b) ==
    IF IsPrefixCode(b) THEN s.kbd
    ELSE IF s.recv = "NORMAL" /\ b[1] \in DOMAIN NormalFlag
         THEN [s.kbd EXCEPT ![NormalFlag[b[1]]] = b[2]]
    ELSE IF s.recv = "NORMAL" /\ b = <<"caps", TRUE>>
         THEN [s.kbd EXCEPT !["caps_lock"] = ~s.kbd["caps_lock"]]
    ELSE IF s.recv = "BEGIN_E0" /\ b[1] \in {"ctrl", "alt"}
         THEN [s.kbd EXCEPT ![E0Flag[b[1]]] = b[2]]
    ELSE s.kbd

TtyAfter(s, b) ==
    IF s.recv = "NORMAL" /\ b[1] \in Fx /\ (s.kbd["lctrl_press"] \/ s.kbd["rctrl_press"])
    THEN FxIndex[b[1]] ELSE s.tty

\* The handler in state s takes a scan code and is then in state u: a key that types is due.
Takes(s, b, u) ==
    /\ s \in Handlers /\ u \in Handlers
    /\ u.kbd = FlagsAfter(s, b) /\ u.recv = RecvAfter(b)
    /\ u.tty = IF Followed THEN TtyAfter(s, b) ELSE s.tty
    /\ IF Followed /\ IsTyped(s, b)
       THEN s.due # <<>> /\ Head(s.due) = <<s.tty, CharIn(s.kbd, b[1])>> /\ u.due = Tail(s.due)
       ELSE u.due = s.due

\* The scan codes lead it from s to u.
Leads(s, codes, u) ==
    \E run \in [0 .. Len(codes) -> Handlers] :
        /\ run[0] = s /\ run[Len(codes)] = u
        /\ \A i \in 1 .. Len(codes) : Takes(run[i - 1], codes[i], run[i])

LEMMA LeadsNowhere ==
    ASSUME NEW s \in Handlers
    PROVE  Leads(s, <<>>, s)
  <1>. DEFINE run == [i \in 0 .. 0 |-> s]
  <1>1. run \in [0 .. 0 -> Handlers] /\ run[0] = s
    OBVIOUS
  <1>2. Len(<<>>) = 0 /\ 1 .. 0 = {}
    OBVIOUS
  <1>. HIDE DEF run
  <1>. QED BY <1>1, <1>2 DEF Leads

LEMMA LeadsByOne ==
    ASSUME NEW s, NEW b, NEW u, Takes(s, b, u)
    PROVE  Leads(s, <<b>>, u)
  <1>. DEFINE run == [i \in 0 .. 1 |-> IF i = 0 THEN s ELSE u]
  <1>1. run \in [0 .. 1 -> Handlers] /\ run[0] = s /\ run[1] = u
    BY DEF Takes
  <1>2. Len(<<b>>) = 1 /\ <<b>>[1] = b /\ 1 - 1 = 0 /\ \A i \in 1 .. 1 : i = 1
    OBVIOUS
  <1>. HIDE DEF run
  <1>. QED BY <1>1, <1>2 DEF Leads

LEMMA LeadsToItsEnds ==
    ASSUME NEW codes \in Seq(ScanCodes), NEW s, NEW u, Leads(s, codes, u)
    PROVE  s \in Handlers /\ u \in Handlers /\ (codes = <<>> => s = u)
  <1>1. Len(codes) \in Nat
    OBVIOUS
  <1>2. 0 \in 0 .. Len(codes) /\ Len(codes) \in 0 .. Len(codes) /\ (codes = <<>> => Len(codes) = 0)
    BY <1>1
  <1>. QED BY <1>2 DEF Leads

LEMMA LeadsOn ==
    ASSUME NEW v \in Seq(ScanCodes), NEW w \in Seq(ScanCodes), NEW s, NEW t, NEW u,
           Leads(s, v, t), Leads(t, w, u)
    PROVE  Leads(s, v \o w, u)
  <1>. DEFINE n == Len(v)
              m == Len(w)
              all == v \o w
  <1>0. n \in Nat /\ m \in Nat /\ Len(all) = n + m
        /\ \A i \in 1 .. n : all[i] = v[i]
    OBVIOUS
  <1>a. \A i \in 1 .. m : all[n + i] = w[i]
    OBVIOUS
  <1>1. PICK run \in [0 .. n -> Handlers] :
           /\ run[0] = s /\ run[n] = t
           /\ \A i \in 1 .. n : Takes(run[i - 1], v[i], run[i])
    BY DEF Leads
  <1>3. PICK then \in [0 .. m -> Handlers] :
           /\ then[0] = t /\ then[m] = u
           /\ \A i \in 1 .. m : Takes(then[i - 1], w[i], then[i])
    BY DEF Leads
  <1>. DEFINE whole == [i \in 0 .. n + m |-> IF i <= n THEN run[i] ELSE then[i - n]]
  <1>. HIDE DEF n, m, all
  <1>4. /\ whole \in [0 .. n + m -> Handlers]
        /\ \A i \in 0 .. n : whole[i] = run[i]
        /\ \A i \in 0 .. m : whole[n + i] = then[i]
    <2>1. ASSUME NEW i \in 0 .. n + m
          PROVE  (IF i <= n THEN run[i] ELSE then[i - n]) \in Handlers
      <3>1. ~(i <= n) => i - n \in 0 .. m
        BY <1>0
      <3>2. i <= n => i \in 0 .. n
        BY <1>0
      <3>. QED BY <1>1, <1>3, <3>1, <3>2
    <2>2. ASSUME NEW i \in 0 .. m PROVE whole[n + i] = then[i]
      <3>1. n + i \in 0 .. n + m
        BY <1>0
      <3>. SUFFICES ASSUME NEW e \in 0 .. n + m, e = n + i PROVE whole[e] = then[i]
        BY <3>1
      <3>2. e - n = i /\ (e <= n => i = 0 /\ e = n)
        BY <1>0
      <3>3. whole[e] = IF e <= n THEN run[e] ELSE then[e - n]
        OBVIOUS
      <3>. HIDE DEF whole
      <3>. QED BY <1>1, <1>3, <3>2, <3>3
    <2>3. ASSUME NEW i \in 0 .. n PROVE whole[i] = run[i]
      <3>1. i \in 0 .. n + m /\ i <= n
        BY <1>0
      <3>. QED BY <3>1
    <2>. QED BY <2>1, <2>2, <2>3
  <1>. HIDE DEF whole
  <1>5. ASSUME NEW i \in 1 .. n + m
        PROVE  Takes(whole[i - 1], all[i], whole[i])
    <2>1. CASE i <= n
      <3>1. i \in 1 .. n /\ i \in 0 .. n /\ i - 1 \in 0 .. n
        BY <1>0, <2>1
      <3>. QED BY <1>0, <1>1, <1>4, <3>1
    <2>2. CASE ~(i <= n)
      <3>. DEFINE j == i - n
      <3>1. j \in 1 .. m /\ j \in 0 .. m /\ j - 1 \in 0 .. m /\ n + j = i /\ n + (j - 1) = i - 1
        BY <1>0, <2>2
      <3>. HIDE DEF j
      <3>2. whole[i] = then[j] /\ whole[i - 1] = then[j - 1] /\ all[i] = w[j]
        <4>1. whole[n + j] = then[j] /\ whole[n + (j - 1)] = then[j - 1]
          BY <1>4, <3>1
        <4>2. all[n + j] = w[j]
          BY <1>a, <3>1
        <4>. QED BY <3>1, <4>1, <4>2
      <3>. QED BY <1>3, <3>1, <3>2
    <2>. QED BY <2>1, <2>2
  <1>6. whole[0] = s /\ whole[n + m] = u
    <2>1. 0 \in 0 .. n /\ m \in 0 .. m
      BY <1>0
    <2>. QED BY <1>1, <1>3, <1>4, <2>1
  <1>. QED BY <1>0, <1>4, <1>5, <1>6 DEF Leads, all

LEMMA LeadsFromHead ==
    ASSUME NEW codes \in Seq(ScanCodes), codes # <<>>, NEW s, NEW u, Leads(s, codes, u)
    PROVE  \E t \in Handlers : Takes(s, Head(codes), t) /\ Leads(t, Tail(codes), u)
  <1>. DEFINE n == Len(codes)
              left == Tail(codes)
  <1>0. n \in Nat /\ n >= 1 /\ Head(codes) = codes[1] /\ Len(left) = n - 1
        /\ \A i \in 1 .. n - 1 : left[i] = codes[i + 1]
    OBVIOUS
  <1>1. PICK run \in [0 .. n -> Handlers] :
           /\ run[0] = s /\ run[n] = u
           /\ \A i \in 1 .. n : Takes(run[i - 1], codes[i], run[i])
    BY DEF Leads
  <1>. HIDE DEF n, left
  <1>2. Takes(s, Head(codes), run[1]) /\ run[1] \in Handlers
    <2>1. 1 \in 1 .. n /\ 1 - 1 = 0 /\ 1 \in 0 .. n
      BY <1>0
    <2>. QED BY <1>0, <1>1, <2>1
  <1>. DEFINE later == [i \in 0 .. n - 1 |-> run[i + 1]]
  <1>3. later \in [0 .. n - 1 -> Handlers] /\ later[0] = run[1] /\ later[n - 1] = run[n]
    BY <1>0, <1>1
  <1>4. ASSUME NEW i \in 1 .. n - 1
        PROVE  Takes(later[i - 1], left[i], later[i])
    <2>1. i + 1 \in 1 .. n /\ i + 1 - 1 = i /\ i - 1 \in 0 .. n - 1 /\ i \in 0 .. n - 1 /\ i - 1 + 1 = i
      BY <1>0
    <2>2. later[i] = run[i + 1] /\ later[i - 1] = run[i] /\ left[i] = codes[i + 1]
      BY <1>0, <2>1
    <2>3. Takes(run[i + 1 - 1], codes[i + 1], run[i + 1])
      BY <1>1, <2>1
    <2>. HIDE DEF later
    <2>. QED BY <2>1, <2>2, <2>3
  <1>. HIDE DEF later
  <1>5. Leads(run[1], left, u)
    BY <1>0, <1>1, <1>3, <1>4 DEF Leads
  <1>. QED BY <1>2, <1>5 DEF left

\* What is due later does not change what is made of the codes.
More(s, x) == [s EXCEPT !.due = Append(@, x)]

LEMMA MoreIsHandler ==
    ASSUME NEW t \in Handlers, NEW x \in Ttys \X Chars
    PROVE  /\ More(t, x) \in Handlers
           /\ More(t, x) = [kbd |-> t.kbd, recv |-> t.recv, tty |-> t.tty, due |-> Append(t.due, x)]
  <1>. DEFINE S == Ttys \X Chars
  <1>1. t = [kbd |-> t.kbd, recv |-> t.recv, tty |-> t.tty, due |-> t.due]
        /\ t.kbd \in [Flags -> BOOLEAN] /\ t.recv \in {"NORMAL", "BEGIN_E0", "BEGIN_E1"}
        /\ t.tty \in Ttys /\ t.due \in Seq(S)
    BY DEF Handlers
  <1>. HIDE DEF S
  <1>2. Append(t.due, x) \in Seq(S)
    <2>1. x \in S
      BY DEF S
    <2>. QED BY <1>1, <2>1
  <1>. DEFINE d == Append(t.due, x)
  <1>3. d \in Seq(S)
    BY <1>2
  <1>4. More(t, x) = [t EXCEPT !.due = d]
    BY DEF More
  <1>. HIDE DEF d
  <1>5. More(t, x) = [kbd |-> t.kbd, recv |-> t.recv, tty |-> t.tty, due |-> d]
    BY <1>1, <1>4
  <1>6. More(t, x) \in Handlers
    BY <1>1, <1>3, <1>5 DEF Handlers, S
  <1>. QED BY <1>5, <1>6 DEF d

LEMMA HeadStays ==
    ASSUME NEW S, NEW q \in Seq(S), q # <<>>, NEW x \in S
    PROVE  /\ Append(q, x) # <<>>
           /\ Head(Append(q, x)) = Head(q)
           /\ Tail(Append(q, x)) = Append(Tail(q), x)
  <1>1. Len(q) \in Nat /\ Len(q) >= 1
    OBVIOUS
  <1>2. Append(q, x) \in Seq(S) /\ Len(Append(q, x)) = Len(q) + 1
    OBVIOUS
  <1>3. Append(q, x) # <<>>
    BY <1>1, <1>2
  <1>4. Head(Append(q, x)) = Head(q)
    <2>1. 1 \in 1 .. Len(q) /\ Append(q, x)[1] = q[1]
      BY <1>1
    <2>2. Head(Append(q, x)) = Append(q, x)[1]
      BY <1>2, <1>3
    <2>. QED BY <2>1, <2>2
  <1>5. Tail(Append(q, x)) = Append(Tail(q), x)
    <2>. DEFINE l == Tail(Append(q, x))
                r == Append(Tail(q), x)
    <2>1. l \in Seq(S) /\ Len(l) = Len(q)
      BY <1>1, <1>2, <1>3
    <2>2. Tail(q) \in Seq(S) /\ Len(Tail(q)) = Len(q) - 1
      BY <1>1
    <2>3. r \in Seq(S) /\ Len(r) = Len(q)
      BY <1>1, <2>2
    <2>4. ASSUME NEW i \in 1 .. Len(q) PROVE l[i] = r[i]
      <3>1. l[i] = Append(q, x)[i + 1]
        BY <1>1, <1>2, <1>3
      <3>2. CASE i = Len(q)
        <4>1. Append(q, x)[i + 1] = x
          BY <3>2
        <4>2. r[Len(Tail(q)) + 1] = x
          BY <2>2
        <4>. QED BY <3>1, <3>2, <4>1, <4>2, <2>2
      <3>3. CASE i # Len(q)
        <4>1. i + 1 \in 1 .. Len(q) /\ i \in 1 .. Len(Tail(q))
          <5>. DEFINE n == Len(q)
          <5>1. n \in Nat /\ i \in 1 .. n /\ i # n /\ Len(Tail(q)) = n - 1
            BY <1>1, <2>2, <3>3
          <5>. HIDE DEF l, r, n
          <5>2. i + 1 \in 1 .. n /\ i \in 1 .. n - 1
            BY <5>1
          <5>. QED BY <5>1, <5>2 DEF n
        <4>2. Append(q, x)[i + 1] = q[i + 1]
          BY <4>1
        <4>3. r[i] = Tail(q)[i]
          BY <2>2, <4>1
        <4>4. Tail(q)[i] = q[i + 1]
          BY <1>1, <4>1, <2>2
        <4>. QED BY <3>1, <4>2, <4>3, <4>4
      <3>. QED BY <3>2, <3>3
    <2>. HIDE DEF l, r
    <2>5. l = r
      BY <2>1, <2>3, <2>4
    <2>. QED BY <2>5 DEF l, r
  <1>. QED BY <1>3, <1>4, <1>5

LEMMA LeadsWithMore ==
    ASSUME NEW codes \in Seq(ScanCodes), NEW s, NEW u, Leads(s, codes, u), NEW x \in Ttys \X Chars
    PROVE  Leads(More(s, x), codes, More(u, x))
  <1>1. PICK run \in [0 .. Len(codes) -> Handlers] :
           /\ run[0] = s /\ run[Len(codes)] = u
           /\ \A i \in 1 .. Len(codes) : Takes(run[i - 1], codes[i], run[i])
    BY DEF Leads
  <1>2. ASSUME NEW t \in Handlers PROVE More(t, x) \in Handlers
    BY MoreIsHandler
  <1>3. ASSUME NEW t \in Handlers, NEW v \in Handlers, NEW b, Takes(t, b, v)
        PROVE  Takes(More(t, x), b, More(v, x))
    <2>1. /\ More(t, x).kbd = t.kbd /\ More(t, x).recv = t.recv /\ More(t, x).tty = t.tty
          /\ More(v, x).kbd = v.kbd /\ More(v, x).recv = v.recv /\ More(v, x).tty = v.tty
          /\ More(t, x).due = Append(t.due, x) /\ More(v, x).due = Append(v.due, x)
      BY DEF More, Handlers
    <2>2. t.due # <<>> => /\ Append(t.due, x) # <<>> /\ Head(Append(t.due, x)) = Head(t.due)
                          /\ Tail(Append(t.due, x)) = Append(Tail(t.due), x)
      <3>1. t.due \in Seq(Ttys \X Chars)
        BY DEF Handlers
      <3>. QED BY <3>1, HeadStays
    <2>3. IsTyped(More(t, x), b) = IsTyped(t, b) /\ FlagsAfter(More(t, x), b) = FlagsAfter(t, b)
          /\ TtyAfter(More(t, x), b) = TtyAfter(t, b)
      BY <2>1 DEF IsTyped, FlagsAfter, TtyAfter
    <2>. QED BY <1>2, <1>3, <2>1, <2>2, <2>3 DEF Takes
  <1>. DEFINE more == [i \in 0 .. Len(codes) |-> More(run[i], x)]
  <1>4. Len(codes) \in Nat
    OBVIOUS
  <1>5. more \in [0 .. Len(codes) -> Handlers] /\ more[0] = More(s, x)
        /\ more[Len(codes)] = More(u, x)
    BY <1>1, <1>2, <1>4
  <1>6. ASSUME NEW i \in 1 .. Len(codes) PROVE Takes(more[i - 1], codes[i], more[i])
    <2>1. i \in 0 .. Len(codes) /\ i - 1 \in 0 .. Len(codes)
      BY <1>4
    <2>2. more[i] = More(run[i], x) /\ more[i - 1] = More(run[i - 1], x)
      BY <2>1
    <2>. HIDE DEF more
    <2>. QED BY <1>1, <1>3, <2>1, <2>2
  <1>. HIDE DEF more
  <1>. QED BY <1>5, <1>6 DEF Leads

-----------------------------------------------------------------------------
(* One scan code.                                                            *)

After(s, b) == [kbd |-> FlagsAfter(s, b), recv |-> RecvAfter(b),
                tty |-> IF Followed THEN TtyAfter(s, b) ELSE s.tty,
                due |-> IF Followed /\ IsTyped(s, b) THEN Tail(s.due) ELSE s.due]

LEMMA FlagsAreFlags ==
    ASSUME NEW s \in Handlers, NEW b \in ScanCodes
    PROVE  FlagsAfter(s, b) \in [Flags -> BOOLEAN]
  <1>1. s.kbd \in [Flags -> BOOLEAN] /\ b[2] \in BOOLEAN
    BY DEF Handlers, ScanCodes
  <1>2. \A f \in Flags, v \in BOOLEAN : [s.kbd EXCEPT ![f] = v] \in [Flags -> BOOLEAN]
    BY <1>1
  <1>3. (~s.kbd["caps_lock"]) \in BOOLEAN /\ "caps_lock" \in Flags
    BY DEF Flags
  <1>4. b[1] \in DOMAIN NormalFlag => NormalFlag[b[1]] \in Flags
    BY DEF NormalFlag, Flags
  <1>5. b[1] \in {"ctrl", "alt"} => E0Flag[b[1]] \in Flags
    BY DEF E0Flag, Flags
  <1>. QED BY <1>1, <1>2, <1>3, <1>4, <1>5 DEF FlagsAfter

LEMMA Taken ==
    ASSUME NEW s \in Handlers, NEW b \in ScanCodes,
           Followed /\ IsTyped(s, b) => s.due # <<>> /\ Head(s.due) = <<s.tty, CharIn(s.kbd, b[1])>>
    PROVE  /\ Takes(s, b, After(s, b))
           /\ After(s, b) \in Handlers
           /\ After(s, b).kbd = FlagsAfter(s, b) /\ After(s, b).recv = RecvAfter(b)
           /\ After(s, b).tty = (IF Followed THEN TtyAfter(s, b) ELSE s.tty)
           /\ After(s, b).due = (IF Followed /\ IsTyped(s, b) THEN Tail(s.due) ELSE s.due)
  <1>. DEFINE u == After(s, b)
  <1>1. u.kbd = FlagsAfter(s, b) /\ u.recv = RecvAfter(b)
        /\ u.tty = (IF Followed THEN TtyAfter(s, b) ELSE s.tty)
        /\ u.due = (IF Followed /\ IsTyped(s, b) THEN Tail(s.due) ELSE s.due)
        /\ u = [kbd |-> u.kbd, recv |-> u.recv, tty |-> u.tty, due |-> u.due]
    BY DEF After
  <1>2. s.tty \in Ttys /\ s.due \in Seq(Ttys \X Chars)
    BY DEF Handlers
  <1>3. u.tty \in Ttys
    BY <1>1, <1>2 DEF TtyAfter, Fx, FxIndex, Ttys
  <1>4. u.due \in Seq(Ttys \X Chars)
    BY <1>1, <1>2
  <1>5. u.recv \in {"NORMAL", "BEGIN_E0", "BEGIN_E1"}
    BY <1>1 DEF RecvAfter
  <1>6. u.kbd \in [Flags -> BOOLEAN]
    BY <1>1, FlagsAreFlags
  <1>. HIDE DEF u
  <1>7. u \in Handlers
    BY <1>1, <1>3, <1>4, <1>5, <1>6 DEF Handlers
  <1>8. Takes(s, b, u)
    BY <1>1, <1>7 DEF Takes
  <1>. QED BY <1>1, <1>7, <1>8 DEF u

-----------------------------------------------------------------------------
(* A key.                                                                    *)

Matches(kbd, keys) == \A f \in DOMAIN KeyOfFlag : kbd[f] <=> KeyOfFlag[f] \in keys

\* The handler is where the keys want it.
Agrees(u, keys, caps, asked) ==
    /\ u \in Handlers
    /\ Matches(u.kbd, keys)
    /\ u.kbd["caps_lock"] <=> caps
    /\ u.recv = "NORMAL"
    /\ Followed => u.tty = asked /\ u.due = <<>>

KeyCodes(k, make) == IF make THEN Scan(k) ELSE Broken(Scan(k))
KeysAfter(keys, k, make) == IF make THEN keys \cup {k} ELSE keys \ {k}
AllKeys == {"lshift", "rshift", "caps", "lalt", "ralt", "lctrl", "rctrl",
            "a", "1", "esc", "up", "pause"} \cup Fx

LEMMA OneIsOne ==
    ASSUME NEW f, f = [i \in 1 .. 1 |-> f[i]]
    PROVE  f = << f[1] >>
  <1>1. Len(<< f[1] >>) = 1 /\ << f[1] >>[1] = f[1]
    OBVIOUS
  <1>2. << f[1] >> = [i \in 1 .. 1 |-> << f[1] >>[i]]
    OBVIOUS
  <1>3. \A i \in 1 .. 1 : i = 1
    OBVIOUS
  <1>. QED BY <1>1, <1>2, <1>3
LEMMA TwoAreTwo ==
    ASSUME NEW f, f = [i \in 1 .. 2 |-> f[i]]
    PROVE  f = << f[1], f[2] >>
  <1>. DEFINE g == << f[1], f[2] >>
  <1>1. g[1] = f[1] /\ g[2] = f[2] 
    OBVIOUS
  <1>2. g = [i \in 1 .. 2 |-> g[i]]
    OBVIOUS
  <1>3. \A i \in 1 .. 2 : i = 1 \/ i = 2
    OBVIOUS
  <1>. HIDE DEF g
  <1>4. f = g BY <1>1, <1>2, <1>3
  <1>. QED BY <1>4 DEF g
\* The scan codes of letting go.
LEMMA BrokenCodes ==
    ASSUME NEW z, z \notin {"E0", "E1"}
    PROVE  /\ << <<"E0", TRUE>> >> \o << <<z, TRUE>> >> = << <<"E0", TRUE>>, <<z, TRUE>> >>
           /\ Broken(<< <<z, TRUE>> >>) = << <<z, FALSE>> >>
           /\ Broken(<< <<"E0", TRUE>>, <<z, TRUE>> >>) = << <<"E0", TRUE>>, <<z, FALSE>> >>
  <1>1. ASSUME NEW a, NEW b PROVE <<a>> \o <<b>> = <<a, b>>
    <2>. DEFINE f == <<a>> \o <<b>>
    <2>1. f \in Seq({a, b}) /\ Len(f) = 2 /\ f[1] = a /\ f[2] = b
       OBVIOUS
    <2>2. f = [i \in 1 .. 2 |-> f[i]]
       BY <2>1
    <2>. HIDE DEF f
    <2>3. f = <<a, b>>
       BY <2>1, <2>2, TwoAreTwo
    <2>. QED BY <2>3 DEF f
  <1>2. Broken(<< <<z, TRUE>> >>) = << <<z, FALSE>> >>
    <2>. DEFINE q == << <<z, TRUE>> >>
                f == Broken(q)
    <2>1. Len(q) = 1 /\ q[1] = <<z, TRUE>> /\ q[1][1] = z
      OBVIOUS
    <2>. HIDE DEF q
    <2>2. f = [i \in 1 .. 1 |-> f[i]] /\ f[1] = <<z, FALSE>>
      <3>1. f = [i \in 1 .. 1 |-> IF q[i][1] \in {"E0", "E1"} THEN q[i] ELSE <<q[i][1], FALSE>>]
        BY <2>1 DEF Broken
      <3>. HIDE DEF f
      <3>2. f[1] = IF q[1][1] \in {"E0", "E1"} THEN q[1] ELSE <<q[1][1], FALSE>>
        BY <3>1
      <3>4. f = [i \in 1 .. 1 |-> f[i]]
        BY <3>1
      <3>. QED BY <2>1, <3>2, <3>4
    <2>. HIDE DEF f
    <2>3. f = << f[1] >>
      BY <2>2, OneIsOne
    <2>. QED BY <2>2, <2>3 DEF f, q
  <1>3. Broken(<< <<"E0", TRUE>>, <<z, TRUE>> >>) = << <<"E0", TRUE>>, <<z, FALSE>> >>
    <2>. DEFINE q == << <<"E0", TRUE>>, <<z, TRUE>> >>
                f == Broken(q)
    <2>1. Len(q) = 2 /\ q[1] = <<"E0", TRUE>> /\ q[2] = <<z, TRUE>> /\ q[2][1] = z /\ q[1][1] = "E0"
      OBVIOUS
    <2>. HIDE DEF q
    <2>2. f = [i \in 1 .. 2 |-> f[i]] /\ f[1] = <<"E0", TRUE>> /\ f[2] = <<z, FALSE>>
      <3>1. f = [i \in 1 .. 2 |-> IF q[i][1] \in {"E0", "E1"} THEN q[i] ELSE <<q[i][1], FALSE>>]
        BY <2>1 DEF Broken
      <3>. HIDE DEF f
      <3>2. f[1] = IF q[1][1] \in {"E0", "E1"} THEN q[1] ELSE <<q[1][1], FALSE>>
        BY <3>1
      <3>3. f[2] = IF q[2][1] \in {"E0", "E1"} THEN q[2] ELSE <<q[2][1], FALSE>>
        BY <3>1
      <3>4. f = [i \in 1 .. 2 |-> f[i]]
        BY <3>1
      <3>. QED BY <2>1, <3>2, <3>3, <3>4
    <2>. HIDE DEF f
    <2>3. f = << f[1], f[2] >>
      BY <2>2, TwoAreTwo
    <2>. QED BY <2>2, <2>3 DEF f, q
  <1>. QED BY <1>1, <1>2, <1>3
\* What a key sends.
LEMMA CodesOfKeys ==
    ASSUME NEW k \in AllKeys \ {"pause"}, NEW make \in BOOLEAN
    PROVE  KeyCodes(k, make) =
               CASE k = "lctrl" -> << <<"ctrl", make>> >>
                 [] k = "lalt"  -> << <<"alt", make>> >>
                 [] k = "rctrl" -> << <<"E0", TRUE>>, <<"ctrl", make>> >>
                 [] k = "ralt"  -> << <<"E0", TRUE>>, <<"alt", make>> >>
                 [] k = "up"    -> << <<"E0", TRUE>>, <<"up", make>> >>
                 [] OTHER       -> << <<k, make>> >>
  <1>1. ASSUME NEW z \in Codes \ {"E0", "E1"}
        PROVE  Broken(Down(z)) = << <<z, FALSE>> >> /\ Broken(Down("E0") \o Down(z)) = << <<"E0", TRUE>>, <<z, FALSE>> >>
               /\ Down("E0") \o Down(z) = << <<"E0", TRUE>>, <<z, TRUE>> >>
    BY BrokenCodes DEF Down
  <1>2. {"ctrl", "alt", "up", "lshift", "rshift", "caps", "a", "1", "esc", "f1", "f2"} \subseteq Codes \ {"E0", "E1"}
    BY DEF Codes
  <1>3. CASE k \in {"rctrl", "ralt", "up"}
    BY <1>1, <1>2, <1>3 DEF KeyCodes, Scan
  <1>4. CASE k \in {"lctrl", "lalt"}
    <2>1. make => KeyCodes(k, make) = (IF k = "lctrl" THEN Down("ctrl") ELSE Down("alt"))
      BY <1>4 DEF KeyCodes, Scan
    <2>2. ~make => KeyCodes(k, make) = (IF k = "lctrl" THEN Broken(Down("ctrl")) ELSE Broken(Down("alt")))
      BY <1>4 DEF KeyCodes, Scan
    <2>3. Down("ctrl") = << <<"ctrl", TRUE>> >> /\ Down("alt") = << <<"alt", TRUE>> >>
      BY DEF Down
    <2>. QED BY <1>1, <1>2, <1>4, <2>1, <2>2, <2>3
  <1>5. CASE k \notin {"rctrl", "ralt", "up", "lctrl", "lalt"}
    <2>1. Scan(k) = Down(k) /\ k \in Codes \ {"E0", "E1"}
      BY <1>5 DEF Scan, AllKeys, Fx, Codes
    <2>2. Down(k) = << <<k, TRUE>> >>
      BY DEF Down
    <2>3. KeyCodes(k, make) = << <<k, make>> >>
      BY <1>1, <2>1, <2>2 DEF KeyCodes
    <2>. QED BY <1>5, <2>3
  <1>. QED BY <1>3, <1>4, <1>5

LEMMA KeysOfFlags ==
    /\ DOMAIN KeyOfFlag = Flags \ {"caps_lock"}
    /\ KeyOfFlag["lshift_press"] = "lshift" /\ KeyOfFlag["rshift_press"] = "rshift"
    /\ KeyOfFlag["lalt_press"] = "lalt" /\ KeyOfFlag["ralt_press"] = "ralt"
    /\ KeyOfFlag["lctrl_press"] = "lctrl" /\ KeyOfFlag["rctrl_press"] = "rctrl"
    /\ \A f, g \in DOMAIN KeyOfFlag : KeyOfFlag[f] = KeyOfFlag[g] => f = g
  <1>1. DOMAIN KeyOfFlag = Flags \ {"caps_lock"}
    BY DEF KeyOfFlag, Flags
  <1>2. /\ KeyOfFlag["lshift_press"] = "lshift" /\ KeyOfFlag["rshift_press"] = "rshift"
        /\ KeyOfFlag["lalt_press"] = "lalt" /\ KeyOfFlag["ralt_press"] = "ralt"
        /\ KeyOfFlag["lctrl_press"] = "lctrl" /\ KeyOfFlag["rctrl_press"] = "rctrl"
    BY DEF KeyOfFlag
  <1>3. \A f \in Flags \ {"caps_lock"} : f \in {"lshift_press", "rshift_press", "lalt_press", "ralt_press", "lctrl_press", "rctrl_press"}
    BY DEF Flags
  <1>. QED BY <1>1, <1>2, <1>3

LEMMA AFlagIsSet ==
    ASSUME NEW kbd \in [Flags -> BOOLEAN], NEW keys, Matches(kbd, keys),
           NEW flag \in DOMAIN KeyOfFlag, NEW make \in BOOLEAN
    PROVE  /\ Matches([kbd EXCEPT ![flag] = make], KeysAfter(keys, KeyOfFlag[flag], make))
           /\ [kbd EXCEPT ![flag] = make]["caps_lock"] = kbd["caps_lock"]
  <1>. DEFINE new == [kbd EXCEPT ![flag] = make]
  <1>1. DOMAIN KeyOfFlag \subseteq Flags /\ flag \in Flags /\ "caps_lock" \in Flags /\ flag # "caps_lock"
    BY KeysOfFlags DEF Flags
  <1>2. new[flag] = make /\ \A f \in Flags : f # flag => new[f] = kbd[f]
    BY <1>1
  <1>. HIDE DEF new
  <1>3. ASSUME NEW f \in DOMAIN KeyOfFlag
        PROVE  new[f] <=> KeyOfFlag[f] \in KeysAfter(keys, KeyOfFlag[flag], make)
    <2>1. CASE f = flag
      BY <1>2, <2>1 DEF KeysAfter
    <2>2. CASE f # flag
      <3>1. KeyOfFlag[f] # KeyOfFlag[flag]
        BY <2>2, KeysOfFlags
      <3>2. new[f] = kbd[f]
        BY <1>1, <1>2, <2>2
      <3>. QED BY <3>1, <3>2 DEF KeysAfter, Matches
    <2>. QED BY <2>1, <2>2
  <1>4. new["caps_lock"] = kbd["caps_lock"]
    BY <1>1, <1>2
  <1>5. Matches(new, KeysAfter(keys, KeyOfFlag[flag], make))
    BY <1>3 DEF Matches
  <1>. QED BY <1>4, <1>5 DEF new

LEMMA NoFlagIsSet ==
    ASSUME NEW kbd, NEW keys, Matches(kbd, keys), NEW make,
           NEW k \in {"caps", "a", "1", "esc", "up", "pause"} \cup Fx
    PROVE  Matches(kbd, KeysAfter(keys, k, make))
  <1>1. \A f \in DOMAIN KeyOfFlag : KeyOfFlag[f] # k
    BY KeysOfFlags DEF Fx, Flags
  <1>2. \A f \in DOMAIN KeyOfFlag : KeyOfFlag[f] \in KeysAfter(keys, k, make) <=> KeyOfFlag[f] \in keys
    BY <1>1 DEF KeysAfter
  <1>. QED BY <1>2 DEF Matches

\* Shift, and Ctrl and Alt on the left.
LEMMA LeftKey ==
    ASSUME NEW u, NEW keys, NEW caps, NEW asked, Agrees(u, keys, caps, asked),
           NEW k \in {"lshift", "rshift", "lalt", "lctrl"}, NEW make \in BOOLEAN
    PROVE  \E v : Leads(u, KeyCodes(k, make), v) /\ Agrees(v, KeysAfter(keys, k, make), caps, asked)
  <1>. DEFINE code == IF k = "lctrl" THEN "ctrl" ELSE IF k = "lalt" THEN "alt" ELSE k
              b == <<code, make>>
              flag == NormalFlag[code]
  <1>1. KeyCodes(k, make) = <<b>>
    BY CodesOfKeys DEF AllKeys
  <1>2. code \in DOMAIN NormalFlag /\ flag \in DOMAIN KeyOfFlag /\ KeyOfFlag[flag] = k
    BY KeysOfFlags DEF NormalFlag, Flags
  <1>3. b \in ScanCodes /\ b[1] = code /\ b[2] = make /\ code \notin {"E0", "E1"} /\ code \notin Fx
    BY DEF ScanCodes, Codes, Fx
  <1>. HIDE DEF code, b, flag
  <1>4. ~IsPrefixCode(b) /\ ~IsTyped(u, b)
    BY <1>2, <1>3 DEF IsPrefixCode, IsTyped
  <1>5. u \in Handlers /\ u.kbd \in [Flags -> BOOLEAN] /\ u.recv = "NORMAL" /\ Matches(u.kbd, keys)
    BY DEF Agrees, Handlers
  <1>. DEFINE v == After(u, b)
  <1>6. /\ Takes(u, b, v) /\ v \in Handlers
        /\ v.kbd = FlagsAfter(u, b) /\ v.recv = RecvAfter(b)
        /\ v.tty = (IF Followed THEN TtyAfter(u, b) ELSE u.tty) /\ v.due = u.due
    BY <1>3, <1>4, <1>5, Taken
  <1>. HIDE DEF v
  <1>7. v.kbd = [u.kbd EXCEPT ![flag] = make]
    BY <1>2, <1>3, <1>4, <1>5, <1>6 DEF FlagsAfter, flag
  <1>8. v.recv = "NORMAL" /\ v.tty = u.tty
    BY <1>3, <1>6 DEF RecvAfter, TtyAfter
  <1>9. Matches(v.kbd, KeysAfter(keys, k, make)) /\ v.kbd["caps_lock"] = u.kbd["caps_lock"]
    BY <1>2, <1>5, <1>7, AFlagIsSet
  <1>10. Agrees(v, KeysAfter(keys, k, make), caps, asked)
    BY <1>6, <1>8, <1>9 DEF Agrees
  <1>. QED BY <1>1, <1>6, <1>10, LeadsByOne

\* Caps Lock.
LEMMA CapsKey ==
    ASSUME NEW u, NEW keys, NEW caps \in BOOLEAN, NEW asked, Agrees(u, keys, caps, asked),
           NEW make \in BOOLEAN
    PROVE  \E v : /\ Leads(u, KeyCodes("caps", make), v)
                  /\ Agrees(v, KeysAfter(keys, "caps", make), caps # make, asked)
  <1>. DEFINE b == <<"caps", make>>
  <1>1. KeyCodes("caps", make) = <<b>>
    BY CodesOfKeys DEF AllKeys
  <1>2. b \in ScanCodes /\ b[1] = "caps" /\ b[2] = make /\ (b = <<"caps", TRUE>> <=> make)
    BY DEF ScanCodes, Codes
  <1>. HIDE DEF b
  <1>3. ~IsPrefixCode(b) /\ ~IsTyped(u, b) /\ b[1] \notin Fx \cup DOMAIN NormalFlag
    BY <1>2 DEF IsPrefixCode, IsTyped, Fx, NormalFlag
  <1>4. u \in Handlers /\ u.kbd \in [Flags -> BOOLEAN] /\ u.recv = "NORMAL" /\ Matches(u.kbd, keys)
    BY DEF Agrees, Handlers
  <1>. DEFINE v == After(u, b)
  <1>5. /\ Takes(u, b, v) /\ v \in Handlers
        /\ v.kbd = FlagsAfter(u, b) /\ v.recv = RecvAfter(b)
        /\ v.tty = (IF Followed THEN TtyAfter(u, b) ELSE u.tty) /\ v.due = u.due
    BY <1>2, <1>3, <1>4, Taken
  <1>. HIDE DEF v
  <1>6. v.kbd = IF make THEN [u.kbd EXCEPT !["caps_lock"] = ~u.kbd["caps_lock"]] ELSE u.kbd
    BY <1>2, <1>3, <1>4, <1>5 DEF FlagsAfter
  <1>7. v.recv = "NORMAL" /\ v.tty = u.tty
    BY <1>2, <1>3, <1>5 DEF RecvAfter, TtyAfter
  <1>8. Matches(v.kbd, keys)
    <2>1. \A f \in DOMAIN KeyOfFlag : f \in Flags /\ f # "caps_lock"
      BY KeysOfFlags
    <2>2. \A f \in DOMAIN KeyOfFlag : v.kbd[f] = u.kbd[f]
      BY <1>4, <1>6, <2>1
    <2>. QED BY <1>4, <2>2 DEF Matches
  <1>9. Matches(v.kbd, KeysAfter(keys, "caps", make))
    BY <1>8, NoFlagIsSet
  <1>10. v.kbd["caps_lock"] <=> (caps # make)
    <2>1. "caps_lock" \in Flags /\ (u.kbd["caps_lock"] <=> caps) /\ u.kbd["caps_lock"] \in BOOLEAN
      BY <1>4 DEF Flags, Agrees
    <2>2. v.kbd["caps_lock"] <=> IF make THEN ~u.kbd["caps_lock"] ELSE u.kbd["caps_lock"]
      BY <1>4, <1>6, <2>1
    <2>. QED BY <2>1, <2>2
  <1>11. Agrees(v, KeysAfter(keys, "caps", make), caps # make, asked)
    BY <1>5, <1>7, <1>9, <1>10 DEF Agrees
  <1>. QED BY <1>1, <1>5, <1>11, LeadsByOne

\* A function key selects when it is pressed and when it is let go, if Ctrl is down.
LEMMA FunctionKey ==
    ASSUME NEW u, NEW keys, NEW caps, NEW asked \in Ttys, Agrees(u, keys, caps, asked),
           NEW k \in Fx, NEW make \in BOOLEAN
    PROVE  \E v : /\ Leads(u, KeyCodes(k, make), v)
                  /\ Agrees(v, KeysAfter(keys, k, make), caps,
                            IF keys \cap {"lctrl", "rctrl"} # {} THEN FxIndex[k] ELSE asked)
  <1>. DEFINE b == <<k, make>>
  <1>1. KeyCodes(k, make) = <<b>>
    BY CodesOfKeys DEF AllKeys, Fx
  <1>2. b \in ScanCodes /\ b[1] = k /\ b[2] = make /\ b # <<"caps", TRUE>>
    BY DEF ScanCodes, Codes, Fx
  <1>. HIDE DEF b
  <1>3. ~IsPrefixCode(b) /\ ~IsTyped(u, b) /\ b[1] \notin DOMAIN NormalFlag
    BY <1>2 DEF IsPrefixCode, IsTyped, Fx, NormalFlag
  <1>4. u \in Handlers /\ u.kbd \in [Flags -> BOOLEAN] /\ u.recv = "NORMAL" /\ Matches(u.kbd, keys)
    BY DEF Agrees, Handlers
  <1>. DEFINE v == After(u, b)
  <1>5. /\ Takes(u, b, v) /\ v \in Handlers
        /\ v.kbd = FlagsAfter(u, b) /\ v.recv = RecvAfter(b)
        /\ v.tty = (IF Followed THEN TtyAfter(u, b) ELSE u.tty) /\ v.due = u.due
    BY <1>2, <1>3, <1>4, Taken
  <1>. HIDE DEF v
  <1>6. v.kbd = u.kbd /\ v.recv = "NORMAL"
    BY <1>2, <1>3, <1>4, <1>5 DEF FlagsAfter, RecvAfter, IsPrefixCode
  <1>7. Matches(v.kbd, KeysAfter(keys, k, make))
    BY <1>4, <1>6, NoFlagIsSet
  <1>8. (u.kbd["lctrl_press"] \/ u.kbd["rctrl_press"]) <=> keys \cap {"lctrl", "rctrl"} # {}
    BY <1>4, KeysOfFlags DEF Matches, Flags
  <1>9. Followed => v.tty = IF keys \cap {"lctrl", "rctrl"} # {} THEN FxIndex[k] ELSE asked
    BY <1>2, <1>4, <1>5, <1>8 DEF TtyAfter, Agrees
  <1>10. Agrees(v, KeysAfter(keys, k, make), caps,
                IF keys \cap {"lctrl", "rctrl"} # {} THEN FxIndex[k] ELSE asked)
    BY <1>5, <1>6, <1>7, <1>9 DEF Agrees
  <1>. QED BY <1>1, <1>5, <1>10, LeadsByOne

LEMMA LeadsByTwo ==
    ASSUME NEW b \in ScanCodes, NEW z \in ScanCodes, NEW s, NEW t, NEW u,
           Takes(s, b, t), Takes(t, z, u)
    PROVE  Leads(s, <<b, z>>, u)
  <1>1. Leads(s, <<b>>, t) /\ Leads(t, <<z>>, u)
    BY LeadsByOne
  <1>2. <<b>> \in Seq(ScanCodes) /\ <<z>> \in Seq(ScanCodes)
    OBVIOUS
  <1>3. <<b>> \o <<z>> = <<b, z>>
    <2>. DEFINE f == <<b>> \o <<z>>
    <2>1. f \in Seq({b, z}) /\ Len(f) = 2 /\ f[1] = b /\ f[2] = z
      OBVIOUS
    <2>2. f = [i \in 1 .. 2 |-> f[i]]
      BY <2>1
    <2>. HIDE DEF f
    <2>3. f = <<b, z>>
      BY <2>1, <2>2, TwoAreTwo
    <2>. QED BY <2>3 DEF f
  <1>. QED BY <1>1, <1>2, <1>3, LeadsOn

\* Ctrl and Alt on the right, and the arrow, behind the prefix E0.
LEMMA PrefixedKey ==
    ASSUME NEW u, NEW keys, NEW caps, NEW asked, Agrees(u, keys, caps, asked),
           NEW k \in {"rctrl", "ralt", "up"}, NEW make \in BOOLEAN
    PROVE  \E v : Leads(u, KeyCodes(k, make), v) /\ Agrees(v, KeysAfter(keys, k, make), caps, asked)
  <1>. DEFINE a == <<"E0", TRUE>>
              code == IF k = "rctrl" THEN "ctrl" ELSE IF k = "ralt" THEN "alt" ELSE "up"
              b == <<code, make>>
              flag == E0Flag[code]
  <1>1. KeyCodes(k, make) = <<a, b>>
    BY CodesOfKeys DEF AllKeys
  <1>2. /\ k # "up" => flag \in DOMAIN KeyOfFlag /\ KeyOfFlag[flag] = k
        /\ k = "up" <=> code \notin {"ctrl", "alt"}
    BY KeysOfFlags DEF E0Flag, Flags
  <1>3. b \in ScanCodes /\ b[1] = code /\ b[2] = make /\ code \notin {"E0", "E1"}
        /\ a \in ScanCodes /\ a[1] = "E0" /\ "E0" \notin Fx
    BY DEF ScanCodes, Codes, Fx
  <1>. HIDE DEF a, code, b, flag
  <1>4. u \in Handlers /\ u.kbd \in [Flags -> BOOLEAN] /\ u.recv = "NORMAL" /\ Matches(u.kbd, keys)
    BY DEF Agrees, Handlers
  <1>. DEFINE t == After(u, a)
  <1>5. IsPrefixCode(a) /\ ~IsTyped(u, a)
    BY <1>3 DEF IsPrefixCode, IsTyped
  <1>6. /\ Takes(u, a, t) /\ t \in Handlers
        /\ t.kbd = FlagsAfter(u, a) /\ t.recv = RecvAfter(a)
        /\ t.tty = (IF Followed THEN TtyAfter(u, a) ELSE u.tty) /\ t.due = u.due
    BY <1>3, <1>4, <1>5, Taken
  <1>. HIDE DEF t
  <1>7. t.kbd = u.kbd /\ t.recv = "BEGIN_E0" /\ t.tty = u.tty
    BY <1>3, <1>5, <1>6 DEF FlagsAfter, RecvAfter, TtyAfter
  <1>. DEFINE v == After(t, b)
  <1>8. ~IsPrefixCode(b) /\ ~IsTyped(t, b)
    BY <1>3, <1>7 DEF IsPrefixCode, IsTyped
  <1>9. /\ Takes(t, b, v) /\ v \in Handlers
        /\ v.kbd = FlagsAfter(t, b) /\ v.recv = RecvAfter(b)
        /\ v.tty = (IF Followed THEN TtyAfter(t, b) ELSE t.tty) /\ v.due = t.due
    BY <1>3, <1>6, <1>8, Taken
  <1>. HIDE DEF v
  <1>10. v.kbd = (IF k = "up" THEN u.kbd ELSE [u.kbd EXCEPT ![flag] = make])
    BY <1>2, <1>3, <1>7, <1>8, <1>9 DEF FlagsAfter, flag
  <1>11. v.recv = "NORMAL" /\ v.tty = u.tty /\ v.due = u.due
    BY <1>3, <1>6, <1>7, <1>9 DEF RecvAfter, TtyAfter
  <1>12. Matches(v.kbd, KeysAfter(keys, k, make)) /\ v.kbd["caps_lock"] = u.kbd["caps_lock"]
    <2>1. CASE k = "up"
      BY <1>4, <1>10, <2>1, NoFlagIsSet
    <2>2. CASE k # "up"
      BY <1>2, <1>4, <1>10, <2>2, AFlagIsSet
    <2>. QED BY <2>1, <2>2
  <1>13. Agrees(v, KeysAfter(keys, k, make), caps, asked)
    BY <1>9, <1>11, <1>12 DEF Agrees
  <1>14. Leads(u, <<a, b>>, v)
    BY <1>3, <1>6, <1>9, LeadsByTwo
  <1>. QED BY <1>1, <1>13, <1>14

\* The character that is due for a key.
CharFor(k, keys, caps) ==
    LET shift == keys \cap {"lshift", "rshift"} # {} IN
    CASE k = "a" -> IF shift # caps THEN "A" ELSE "a"
      [] k = "1" -> IF shift THEN "!" ELSE "1"
      [] OTHER   -> "nul"
Due(u, x) == IF Followed THEN More(u, x) ELSE u

LEMMA DueOne ==
    ASSUME NEW u, NEW keys, NEW caps, NEW asked, Agrees(u, keys, caps, asked), NEW x \in Ttys \X Chars
    PROVE  LET s == Due(u, x) IN
           /\ s \in Handlers /\ s.kbd = u.kbd /\ s.recv = "NORMAL" /\ s.tty = u.tty
           /\ Followed => s.due # <<>> /\ Head(s.due) = x /\ Tail(s.due) = <<>>
  <1>1. u \in Handlers /\ u.recv = "NORMAL" /\ (Followed => u.due = <<>>)
    BY DEF Agrees
  <1>2. CASE Followed
    <2>1. More(u, x) \in Handlers
          /\ More(u, x) = [kbd |-> u.kbd, recv |-> u.recv, tty |-> u.tty, due |-> Append(u.due, x)]
      BY <1>1, MoreIsHandler
    <2>2. Append(u.due, x) = <<x>>
      <3>. DEFINE f == Append(<<>>, x)
      <3>1. f = [i \in 1 .. 1 |-> f[i]] /\ f[1] = x
        OBVIOUS
      <3>. HIDE DEF f
      <3>2. f = <<x>>
        BY <3>1, OneIsOne
      <3>. QED BY <1>1, <1>2, <3>2 DEF f
    <2>3. <<x>> # <<>> /\ Head(<<x>>) = x /\ Tail(<<x>>) = <<>>
      OBVIOUS
    <2>. QED BY <1>1, <1>2, <2>1, <2>2, <2>3 DEF Due
  <1>3. CASE ~Followed
    BY <1>1, <1>3 DEF Due
  <1>. QED BY <1>2, <1>3

LEMMA TypingKey ==
    ASSUME NEW u, NEW keys, NEW caps \in BOOLEAN, NEW asked \in Ttys, Agrees(u, keys, caps, asked),
           NEW k \in {"a", "1", "esc"}, NEW make \in BOOLEAN
    PROVE  \E v : /\ Leads(IF make THEN Due(u, <<asked, CharFor(k, keys, caps)>>) ELSE u,
                           KeyCodes(k, make), v)
                  /\ Agrees(v, KeysAfter(keys, k, make), caps, asked)
  <1>. DEFINE b == <<k, make>>
              x == <<asked, CharFor(k, keys, caps)>>
              s == IF make THEN Due(u, x) ELSE u
  <1>1. KeyCodes(k, make) = <<b>>
    BY CodesOfKeys DEF AllKeys
  <1>2. b \in ScanCodes /\ b[1] = k /\ b[2] = make /\ b # <<"caps", TRUE>>
    BY DEF ScanCodes, Codes
  <1>3. x \in Ttys \X Chars
    BY DEF CharFor, Chars
  <1>4. x = <<asked, CharFor(k, keys, caps)>>
    OBVIOUS
  <1>5. u \in Handlers /\ u.kbd \in [Flags -> BOOLEAN] /\ u.recv = "NORMAL" /\ Matches(u.kbd, keys)
        /\ (u.kbd["caps_lock"] <=> caps) /\ (Followed => u.tty = asked /\ u.due = <<>>)
    BY DEF Agrees, Handlers
  <1>. HIDE DEF b, x
  <1>6. /\ s \in Handlers /\ s.kbd = u.kbd /\ s.recv = "NORMAL" /\ s.tty = u.tty
        /\ Followed /\ make => s.due # <<>> /\ Head(s.due) = x /\ Tail(s.due) = <<>>
        /\ Followed /\ ~make => s.due = <<>>
    BY <1>3, <1>5, DueOne
  <1>. HIDE DEF s
  <1>7. ~IsPrefixCode(b) /\ b[1] \notin Fx \cup DOMAIN NormalFlag \cup {"caps", "ctrl", "alt"}
    BY <1>2 DEF IsPrefixCode, Fx, NormalFlag
  <1>8. IsTyped(s, b) <=> make
    BY <1>2, <1>6, <1>7 DEF IsTyped
  <1>9. CharIn(s.kbd, b[1]) = CharFor(k, keys, caps)
    <2>1. (u.kbd["lshift_press"] \/ u.kbd["rshift_press"]) <=> keys \cap {"lshift", "rshift"} # {}
      BY <1>5, KeysOfFlags DEF Matches, Flags
    <2>2. "caps_lock" \in Flags /\ u.kbd["caps_lock"] \in BOOLEAN
      BY <1>5 DEF Flags
    <2>3. ((u.kbd["lshift_press"] \/ u.kbd["rshift_press"]) # u.kbd["caps_lock"])
            <=> ((keys \cap {"lshift", "rshift"} # {}) # caps)
      BY <1>5, <2>1, <2>2
    <2>. QED BY <1>2, <1>6, <2>1, <2>3 DEF CharIn, CharFor
  <1>10. Followed /\ IsTyped(s, b) => s.due # <<>> /\ Head(s.due) = <<s.tty, CharIn(s.kbd, b[1])>>
    BY <1>4, <1>5, <1>6, <1>8, <1>9
  <1>. DEFINE v == After(s, b)
  <1>11. /\ Takes(s, b, v) /\ v \in Handlers
         /\ v.kbd = FlagsAfter(s, b) /\ v.recv = RecvAfter(b)
         /\ v.tty = (IF Followed THEN TtyAfter(s, b) ELSE s.tty)
         /\ v.due = (IF Followed /\ IsTyped(s, b) THEN Tail(s.due) ELSE s.due)
    BY <1>2, <1>6, <1>10, Taken
  <1>. HIDE DEF v
  <1>12. v.kbd = u.kbd /\ v.recv = "NORMAL" /\ v.tty = u.tty
    BY <1>2, <1>6, <1>7, <1>11 DEF FlagsAfter, RecvAfter, TtyAfter, IsPrefixCode
  <1>13. Followed => v.due = <<>>
    BY <1>6, <1>8, <1>11
  <1>14. Matches(v.kbd, KeysAfter(keys, k, make))
    BY <1>5, <1>12, NoFlagIsSet
  <1>15. Agrees(v, KeysAfter(keys, k, make), caps, asked)
    BY <1>5, <1>11, <1>12, <1>13, <1>14 DEF Agrees
  <1>16. Leads(s, KeyCodes(k, make), v)
    BY <1>1, <1>11, LeadsByOne
  <1>. QED BY <1>4, <1>15, <1>16 DEF s

LEMMA ThreeAreThree ==
    ASSUME NEW f, f = [i \in 1 .. 3 |-> f[i]]
    PROVE  f = << f[1], f[2], f[3] >>
  <1>. DEFINE g == << f[1], f[2], f[3] >>
  <1>1. g[1] = f[1] /\ g[2] = f[2] /\ g[3] = f[3]
    OBVIOUS
  <1>2. g = [i \in 1 .. 3 |-> g[i]]
    OBVIOUS
  <1>3. \A i \in 1 .. 3 : i = 1 \/ i = 2 \/ i = 3
    OBVIOUS
  <1>. HIDE DEF g
  <1>4. f = g
    BY <1>1, <1>2, <1>3
  <1>. QED BY <1>4 DEF g

LEMMA TwoAndOne ==
    ASSUME NEW S, NEW a \in S, NEW b \in S, NEW z \in S
    PROVE  <<a, b>> \o <<z>> = <<a, b, z>>
  <1>. DEFINE f == <<a, b>> \o <<z>>
  <1>1. f \in Seq(S) /\ Len(f) = 3 /\ f[1] = a /\ f[2] = b /\ f[3] = z
    OBVIOUS
  <1>2. f = [i \in 1 .. 3 |-> f[i]]
    BY <1>1
  <1>. HIDE DEF f
  <1>3. f = <<a, b, z>>
    BY <1>1, <1>2, ThreeAreThree
  <1>. QED BY <1>3 DEF f

\* Pause sends three codes for pressing and three for letting go at once.
PauseCodes(make) == << <<"E1", TRUE>>, <<"ctrl", make>>, <<"numlock", make>> >>

LEMMA CodesOfPause ==
    Scan("pause") = PauseCodes(TRUE) /\ Broken(Scan("pause")) = PauseCodes(FALSE)
  <1>1. Scan("pause") = PauseCodes(TRUE)
    <2>. DEFINE a == <<"E1", TRUE>>
                b == <<"ctrl", TRUE>>
                z == <<"numlock", TRUE>>
    <2>1. Scan("pause") = <<a>> \o <<b>> \o <<z>>
      BY DEF Scan, Down
    <2>2. PauseCodes(TRUE) = <<a, b, z>>
      BY DEF PauseCodes
    <2>. HIDE DEF a, b, z
    <2>3. <<a>> \o <<b>> = <<a, b>>
      <3>. DEFINE f == <<a>> \o <<b>>
      <3>1. f \in Seq({a, b}) /\ Len(f) = 2 /\ f[1] = a /\ f[2] = b
        OBVIOUS
      <3>2. f = [i \in 1 .. 2 |-> f[i]]
        BY <3>1
      <3>. HIDE DEF f
      <3>3. f = <<a, b>>
        BY <3>1, <3>2, TwoAreTwo
      <3>. QED BY <3>3 DEF f
    <2>4. <<a, b>> \o <<z>> = <<a, b, z>>
      <3>. DEFINE S == {a, b, z}
      <3>1. a \in S /\ b \in S /\ z \in S
        OBVIOUS
      <3>. HIDE DEF S
      <3>. QED BY <3>1, TwoAndOne
    <2>. QED BY <2>1, <2>2, <2>3, <2>4
  <1>2. Broken(PauseCodes(TRUE)) = PauseCodes(FALSE)
    <2>. DEFINE q == PauseCodes(TRUE)
                f == Broken(q)
    <2>1. /\ Len(q) = 3
          /\ q[1] = <<"E1", TRUE>> /\ q[1][1] = "E1"
          /\ q[2] = <<"ctrl", TRUE>> /\ q[2][1] = "ctrl"
          /\ q[3] = <<"numlock", TRUE>> /\ q[3][1] = "numlock"
      BY DEF PauseCodes
    <2>. HIDE DEF q
    <2>2. f = [i \in 1 .. 3 |-> IF q[i][1] \in {"E0", "E1"} THEN q[i] ELSE <<q[i][1], FALSE>>]
      BY <2>1 DEF Broken
    <2>. HIDE DEF f
    <2>3. f[1] = (IF q[1][1] \in {"E0", "E1"} THEN q[1] ELSE <<q[1][1], FALSE>>)
      BY <2>2
    <2>4. f[2] = (IF q[2][1] \in {"E0", "E1"} THEN q[2] ELSE <<q[2][1], FALSE>>)
      BY <2>2
    <2>5. f[3] = (IF q[3][1] \in {"E0", "E1"} THEN q[3] ELSE <<q[3][1], FALSE>>)
      BY <2>2
    <2>6. f = [i \in 1 .. 3 |-> f[i]]
      BY <2>2
    <2>7. f = << f[1], f[2], f[3] >>
      BY <2>6, ThreeAreThree
    <2>8. f = << <<"E1", TRUE>>, <<"ctrl", FALSE>>, <<"numlock", FALSE>> >>
      BY <2>1, <2>3, <2>4, <2>5, <2>7
    <2>. QED BY <2>8 DEF f, q, PauseCodes
  <1>. QED BY <1>1, <1>2

LEMMA PlainCodes ==
    ASSUME NEW q \in Seq(Plain)
    PROVE  q \in Seq(ScanCodes)
  <1>1. Len(q) \in Nat /\ q = [i \in 1 .. Len(q) |-> q[i]] /\ \A i \in 1 .. Len(q) : q[i] \in Plain
    OBVIOUS
  <1>2. \A i \in 1 .. Len(q) : q[i] \in ScanCodes
    BY <1>1 DEF Plain
  <1>. QED BY <1>1, <1>2

LEMMA PauseIsCodes ==
    ASSUME NEW make \in BOOLEAN
    PROVE  PauseCodes(make) \in Seq(Plain)
  <1>1. <<"E1", TRUE>> \in Plain /\ <<"ctrl", make>> \in Plain /\ <<"numlock", make>> \in Plain
    BY DEF Plain, ScanCodes, Codes
  <1>. QED BY <1>1 DEF PauseCodes

LEMMA HalfOfPause ==
    ASSUME NEW u, NEW keys, NEW caps, NEW asked \in Ttys, Agrees(u, keys, caps, asked),
           NEW make \in BOOLEAN
    PROVE  \E v : /\ Leads(IF make THEN Due(u, <<asked, "nul">>) ELSE u, PauseCodes(make), v)
                  /\ Agrees(v, keys, caps, asked)
  <1>. DEFINE a == <<"E1", TRUE>>
              b == <<"ctrl", make>>
              z == <<"numlock", make>>
              x == <<asked, "nul">>
              s == IF make THEN Due(u, x) ELSE u
  <1>1. PauseCodes(make) = <<a, b, z>>
    BY DEF PauseCodes
  <1>2. /\ a \in ScanCodes /\ a[1] = "E1"
        /\ b \in ScanCodes /\ b[1] = "ctrl"
        /\ z \in ScanCodes /\ z[1] = "numlock" /\ z[2] = make /\ z # <<"caps", TRUE>>
    BY DEF ScanCodes, Codes
  <1>3. x \in Ttys \X Chars /\ x = <<asked, "nul">>
    BY DEF Chars
  <1>4. u \in Handlers /\ u.recv = "NORMAL" /\ (Followed => u.tty = asked /\ u.due = <<>>)
    BY DEF Agrees, Handlers
  <1>. HIDE DEF a, b, z, x
  <1>5. /\ s \in Handlers /\ s.kbd = u.kbd /\ s.recv = "NORMAL" /\ s.tty = u.tty
        /\ Followed /\ make => s.due # <<>> /\ Head(s.due) = x /\ Tail(s.due) = <<>>
        /\ Followed /\ ~make => s.due = <<>>
    BY <1>3, <1>4, DueOne
  <1>. HIDE DEF s
  <1>6. {"E1", "ctrl", "numlock"} \cap Fx = {}
    BY DEF Fx
  <1>. DEFINE t == After(s, a)
  <1>7. IsPrefixCode(a) /\ ~IsTyped(s, a)
    BY <1>2 DEF IsPrefixCode, IsTyped
  <1>8. /\ Takes(s, a, t) /\ t \in Handlers
        /\ t.kbd = FlagsAfter(s, a) /\ t.recv = RecvAfter(a)
        /\ t.tty = (IF Followed THEN TtyAfter(s, a) ELSE s.tty) /\ t.due = s.due
    BY <1>2, <1>5, <1>7, Taken
  <1>. HIDE DEF t
  <1>9. t.kbd = u.kbd /\ t.recv = "BEGIN_E1" /\ t.tty = u.tty
    BY <1>2, <1>5, <1>6, <1>7, <1>8 DEF FlagsAfter, RecvAfter, TtyAfter
  <1>. DEFINE w == After(t, b)
  <1>10. ~IsPrefixCode(b) /\ ~IsTyped(t, b)
    BY <1>2, <1>9 DEF IsPrefixCode, IsTyped
  <1>11. /\ Takes(t, b, w) /\ w \in Handlers
         /\ w.kbd = FlagsAfter(t, b) /\ w.recv = RecvAfter(b)
         /\ w.tty = (IF Followed THEN TtyAfter(t, b) ELSE t.tty) /\ w.due = t.due
    BY <1>2, <1>8, <1>10, Taken
  <1>. HIDE DEF w
  <1>12. w.kbd = u.kbd /\ w.recv = "NORMAL" /\ w.tty = u.tty /\ w.due = s.due
    BY <1>2, <1>6, <1>8, <1>9, <1>10, <1>11 DEF FlagsAfter, RecvAfter, TtyAfter
  <1>13. z[1] \notin DOMAIN NormalFlag \cup Fx \cup {"caps", "ctrl", "alt"} /\ ~IsPrefixCode(z)
    BY <1>2 DEF NormalFlag, Fx, IsPrefixCode
  <1>14. IsTyped(w, z) <=> make
    BY <1>2, <1>12, <1>13 DEF IsTyped
  <1>15. Followed /\ IsTyped(w, z) => w.due # <<>> /\ Head(w.due) = <<w.tty, CharIn(w.kbd, z[1])>>
    <2>1. CharIn(w.kbd, z[1]) = "nul"
      BY <1>2 DEF CharIn
    <2>. QED BY <1>3, <1>4, <1>5, <1>12, <1>14, <2>1
  <1>. DEFINE v == After(w, z)
  <1>16. /\ Takes(w, z, v) /\ v \in Handlers
         /\ v.kbd = FlagsAfter(w, z) /\ v.recv = RecvAfter(z)
         /\ v.tty = (IF Followed THEN TtyAfter(w, z) ELSE w.tty)
         /\ v.due = (IF Followed /\ IsTyped(w, z) THEN Tail(w.due) ELSE w.due)
    BY <1>2, <1>11, <1>15, Taken
  <1>. HIDE DEF v
  <1>17. v.kbd = u.kbd /\ v.recv = "NORMAL" /\ v.tty = u.tty
    BY <1>2, <1>12, <1>13, <1>16 DEF FlagsAfter, RecvAfter, TtyAfter, IsPrefixCode
  <1>18. Followed => v.due = <<>>
    BY <1>5, <1>12, <1>14, <1>16
  <1>19. Agrees(v, keys, caps, asked)
    BY <1>4, <1>16, <1>17, <1>18 DEF Agrees
  <1>20. Leads(s, <<a, b, z>>, v)
    <2>1. Leads(s, <<a, b>>, w) /\ Leads(w, <<z>>, v)
      BY <1>2, <1>8, <1>11, <1>16, LeadsByTwo, LeadsByOne
    <2>2. <<a, b>> \in Seq(ScanCodes) /\ <<z>> \in Seq(ScanCodes)
      BY <1>2
    <2>3. <<a, b>> \o <<z>> = <<a, b, z>>
      BY <1>2, TwoAndOne
    <2>. QED BY <2>1, <2>2, <2>3, LeadsOn
  <1>. QED BY <1>1, <1>3, <1>19, <1>20 DEF s

LEMMA PauseKey ==
    ASSUME NEW u, NEW keys, NEW caps, NEW asked \in Ttys, Agrees(u, keys, caps, asked)
    PROVE  \E v : /\ Leads(Due(u, <<asked, "nul">>), Scan("pause") \o Broken(Scan("pause")), v)
                  /\ Agrees(v, KeysAfter(keys, "pause", TRUE), caps, asked)
  <1>1. PICK t : Leads(Due(u, <<asked, "nul">>), PauseCodes(TRUE), t) /\ Agrees(t, keys, caps, asked)
    BY HalfOfPause
  <1>2. PICK v : Leads(t, PauseCodes(FALSE), v) /\ Agrees(v, keys, caps, asked)
    BY <1>1, HalfOfPause
  <1>3. PauseCodes(TRUE) \in Seq(ScanCodes) /\ PauseCodes(FALSE) \in Seq(ScanCodes)
    BY PauseIsCodes, PlainCodes
  <1>4. Leads(Due(u, <<asked, "nul">>), PauseCodes(TRUE) \o PauseCodes(FALSE), v)
    BY <1>1, <1>2, <1>3, LeadsOn
  <1>5. Matches(v.kbd, KeysAfter(keys, "pause", TRUE))
    BY <1>2, NoFlagIsSet DEF Agrees
  <1>6. Agrees(v, KeysAfter(keys, "pause", TRUE), caps, asked)
    BY <1>2, <1>5 DEF Agrees
  <1>. QED BY <1>4, <1>6, CodesOfPause

-----------------------------------------------------------------------------
(* The keyboard.                                                             *)

KbdTypes ==
    /\ wire \in Seq(ScanCodes)
    /\ kbd_state \in [Flags -> BOOLEAN]
    /\ recv_state \in {"NORMAL", "BEGIN_E0", "BEGIN_E1"}
    /\ curr_tty \in Ttys
    /\ held \subseteq AllKeys
    /\ capital \in BOOLEAN
    /\ chosen \in Ttys
    /\ due \in Seq(Ttys \X Chars)
    /\ astray \in BOOLEAN

\* Nothing is sent behind a Caps Lock.
CapsIsLast == \A i \in 1 .. Len(wire) - 1 : wire[i] # <<"caps", TRUE>>

\* A function key that is down with Ctrl is the one that was asked for.
OneChord ==
    Followed => /\ \A j, k \in held \cap Fx : j = k
                /\ CtrlHeld => \A k \in held \cap Fx : chosen = FxIndex[k]

\* What waits leads the handler to the keys that are down and to what was asked for.
OnCourse == \E v : Leads(Now, wire, v) /\ Agrees(v, held, capital, chosen)

KbdInv ==
    /\ KbdTypes
    /\ CapsIsLast
    /\ OneChord
    /\ Followed => ~astray
    /\ OnCourse

LEMMA NowIsHandler ==
    ASSUME KbdTypes
    PROVE  Now \in Handlers /\ Now.kbd = kbd_state /\ Now.recv = recv_state
           /\ Now.tty = (IF Followed THEN curr_tty ELSE 0)
           /\ Now.due = (IF Followed THEN due ELSE <<>>)
  <1>1. Now.kbd = kbd_state /\ Now.recv = recv_state
        /\ Now.tty = (IF Followed THEN curr_tty ELSE 0)
        /\ Now.due = (IF Followed THEN due ELSE <<>>)
        /\ Now = [kbd |-> Now.kbd, recv |-> Now.recv, tty |-> Now.tty, due |-> Now.due]
    BY DEF Now
  <1>2. Now.tty \in Ttys /\ Now.due \in Seq(Ttys \X Chars)
    BY <1>1 DEF KbdTypes, Ttys
  <1>. HIDE DEF Now
  <1>. QED BY <1>1, <1>2 DEF KbdTypes, Handlers

LEMMA InitOnCourse ==
    ASSUME KbdInit
    PROVE  KbdInv
  <1>1. KbdTypes
    <2>1. wire \in Seq(ScanCodes) /\ due \in Seq(Ttys \X Chars)
      BY DEF KbdInit
    <2>2. kbd_state \in [Flags -> BOOLEAN]
      BY DEF KbdInit
    <2>. QED BY <2>1, <2>2 DEF KbdInit, KbdTypes, Ttys
  <1>2. Now \in Handlers /\ Now.kbd = kbd_state /\ Now.recv = recv_state
        /\ Now.tty = (IF Followed THEN curr_tty ELSE 0)
        /\ Now.due = (IF Followed THEN due ELSE <<>>)
    BY <1>1, NowIsHandler
  <1>3. kbd_state = [f \in Flags |-> FALSE] /\ held = {} /\ DOMAIN KeyOfFlag \subseteq Flags
        /\ "caps_lock" \in Flags
    BY KeysOfFlags DEF KbdInit, Flags
  <1>4. Matches(kbd_state, held) /\ ~kbd_state["caps_lock"]
    BY <1>3 DEF Matches
  <1>5. Agrees(Now, held, capital, chosen)
    BY <1>2, <1>4 DEF Agrees, KbdInit
  <1>6. Leads(Now, wire, Now)
    BY <1>2, LeadsNowhere DEF KbdInit
  <1>7. CapsIsLast
    <2>1. Len(wire) = 0
      BY DEF KbdInit
    <2>. QED BY <2>1 DEF CapsIsLast
  <1>8. OneChord /\ ~astray
    BY <1>3 DEF OneChord, KbdInit
  <1>. QED BY <1>1, <1>5, <1>6, <1>7, <1>8 DEF KbdInv, OnCourse

\* What a key sends, of codes and with Caps Lock alone.
Sent(k, make) == IF k = "pause" /\ make THEN Scan(k) \o Broken(Scan(k)) ELSE KeyCodes(k, make)

LEMMA SentIsCodes ==
    ASSUME NEW k \in AllKeys, NEW make \in BOOLEAN, k = "pause" => make
    PROVE  /\ Sent(k, make) \in Seq(ScanCodes)
           /\ \A i \in 1 .. Len(Sent(k, make)) - 1 : Sent(k, make)[i] # <<"caps", TRUE>>
  <1>. DEFINE q == Sent(k, make)
  <1>1. CASE k = "caps"
    <2>1. q = << <<"caps", make>> >>
      BY <1>1, CodesOfKeys DEF Sent
    <2>2. <<"caps", make>> \in ScanCodes
      BY DEF ScanCodes, Codes
    <2>. HIDE DEF q
    <2>3. q \in Seq(ScanCodes) /\ Len(q) = 1
      BY <2>1, <2>2
    <2>. QED BY <2>3 DEF q
  <1>2. CASE k # "caps"
    <2>1. q \in Seq(Plain)
      <3>1. CASE k = "pause"
        <4>1. q = PauseCodes(TRUE) \o PauseCodes(FALSE)
          BY <3>1, CodesOfPause DEF Sent
        <4>2. PauseCodes(TRUE) \in Seq(Plain) /\ PauseCodes(FALSE) \in Seq(Plain)
          BY PauseIsCodes
        <4>. DEFINE a == PauseCodes(TRUE)
                    b == PauseCodes(FALSE)
        <4>3. q = a \o b /\ a \in Seq(Plain) /\ b \in Seq(Plain)
          BY <4>1, <4>2
        <4>. HIDE DEF q, a, b
        <4>. QED BY <4>3
      <3>2. CASE k # "pause"
        <4>1. q = KeyCodes(k, make)
          BY <3>2 DEF Sent
        <4>2. /\ <<"E0", TRUE>> \in Plain /\ <<"ctrl", make>> \in Plain /\ <<"alt", make>> \in Plain
              /\ <<"up", make>> \in Plain
          BY DEF Plain, ScanCodes, Codes
        <4>3. k \notin {"lctrl", "rctrl", "lalt", "ralt", "up"} => <<k, make>> \in Plain
          BY <1>2, <3>2 DEF Plain, ScanCodes, Codes, AllKeys, Fx
        <4>4. ASSUME NEW a \in Plain, NEW b \in Plain
              PROVE  <<a>> \in Seq(Plain) /\ <<a, b>> \in Seq(Plain)
          OBVIOUS
        <4>. HIDE DEF q
        <4>5. CASE k \in {"lctrl", "rctrl", "lalt", "ralt", "up"}
          <5>1. q = CASE k = "lctrl" -> << <<"ctrl", make>> >>
                      [] k = "lalt"  -> << <<"alt", make>> >>
                      [] k = "rctrl" -> << <<"E0", TRUE>>, <<"ctrl", make>> >>
                      [] k = "ralt"  -> << <<"E0", TRUE>>, <<"alt", make>> >>
                      [] k = "up"    -> << <<"E0", TRUE>>, <<"up", make>> >>
                      [] OTHER       -> << <<k, make>> >>
            BY <3>2, <4>1, CodesOfKeys
          <5>2. q \in { << <<"ctrl", make>> >>, << <<"alt", make>> >>, << <<"E0", TRUE>>, <<"ctrl", make>> >>,
                        << <<"E0", TRUE>>, <<"alt", make>> >>, << <<"E0", TRUE>>, <<"up", make>> >> }
            BY <4>5, <5>1
          <5>. QED BY <4>2, <4>4, <5>2
        <4>6. CASE k \notin {"lctrl", "rctrl", "lalt", "ralt", "up"}
          <5>1. q = << <<k, make>> >>
            BY <3>2, <4>1, <4>6, CodesOfKeys
          <5>. QED BY <4>3, <4>4, <4>6, <5>1
        <4>. QED BY <4>5, <4>6
      <3>. QED BY <3>1, <3>2
    <2>. HIDE DEF q
    <2>2. q \in Seq(ScanCodes)
      BY <2>1, PlainCodes
    <2>3. \A i \in 1 .. Len(q) - 1 : q[i] \in Plain
      BY <2>1
    <2>. QED BY <2>2, <2>3 DEF q, Plain
  <1>. QED BY <1>1, <1>2

\* Sending keeps Caps Lock last.
LEMMA CapsStaysLast ==
    ASSUME NEW old \in Seq(ScanCodes), NEW codes \in Seq(ScanCodes),
           \A i \in 1 .. Len(old) : old[i] # <<"caps", TRUE>>,
           \A i \in 1 .. Len(codes) - 1 : codes[i] # <<"caps", TRUE>>
    PROVE  \A i \in 1 .. Len(old \o codes) - 1 : (old \o codes)[i] # <<"caps", TRUE>>
  <1>. DEFINE n == Len(old)
              m == Len(codes)
              all == old \o codes
  <1>1. n \in Nat /\ m \in Nat /\ Len(all) = n + m /\ \A i \in 1 .. n : all[i] = old[i]
    OBVIOUS
  <1>2. \A i \in 1 .. m : all[n + i] = codes[i]
    OBVIOUS
  <1>. HIDE DEF n, m, all
  <1>3. ASSUME NEW i \in 1 .. n + m - 1 PROVE all[i] # <<"caps", TRUE>>
    <2>1. CASE i <= n
      <3>1. i \in 1 .. n
        BY <1>1, <2>1
      <3>. QED BY <1>1, <3>1 DEF n
    <2>2. CASE ~(i <= n)
      <3>. DEFINE j == i - n
      <3>1. j \in 1 .. m /\ j \in 1 .. m - 1 /\ n + j = i
        BY <1>1, <2>2
      <3>. HIDE DEF j
      <3>2. all[n + j] = codes[j]
        BY <1>2, <3>1
      <3>. QED BY <3>1, <3>2 DEF m
    <2>. QED BY <2>1, <2>2
  <1>4. \A i \in 1 .. Len(all) - 1 : all[i] # <<"caps", TRUE>>
    <2>. SUFFICES ASSUME NEW i \in 1 .. Len(all) - 1 PROVE all[i] # <<"caps", TRUE>>
      OBVIOUS
    <2>1. i \in 1 .. n + m - 1
      BY <1>1
    <2>. QED BY <1>3, <2>1
  <1>. QED BY <1>4 DEF all

\* What a key does to the handler's state at once, to Caps Lock and to what is asked for.
Begun(u, keys, caps, asked, k, make) ==
    IF make /\ k \in {"a", "1", "esc", "pause"} THEN Due(u, <<asked, CharFor(k, keys, caps)>>) ELSE u
CapsAfter(caps, k, make) == caps # (k = "caps" /\ make)
AskedAfter(asked, keys, k) ==
    IF k \in Fx /\ keys \cap {"lctrl", "rctrl"} # {} THEN FxIndex[k] ELSE asked

\* Any key, pressed or let go.
LEMMA AKey ==
    ASSUME NEW u, NEW keys, NEW caps \in BOOLEAN, NEW asked \in Ttys, Agrees(u, keys, caps, asked),
           NEW k \in AllKeys, NEW make \in BOOLEAN, k = "pause" => make
    PROVE  \E v : /\ Leads(Begun(u, keys, caps, asked, k, make), Sent(k, make), v)
                  /\ Agrees(v, KeysAfter(keys, k, make), CapsAfter(caps, k, make), AskedAfter(asked, keys, k))
  <1>0. k # "pause" => Sent(k, make) = KeyCodes(k, make)
    BY DEF Sent
  <1>1. CASE k \in {"lshift", "rshift", "lalt", "lctrl"}
    <2>1. PICK v : Leads(u, KeyCodes(k, make), v) /\ Agrees(v, KeysAfter(keys, k, make), caps, asked)
      BY <1>1, LeftKey
    <2>2. k \notin Fx /\ (caps # (k = "caps" /\ make)) = caps
      BY <1>1 DEF Fx
    <2>. QED BY <1>0, <1>1, <2>1, <2>2 DEF Begun, CapsAfter, AskedAfter
  <1>2. CASE k = "caps"
    <2>1. PICK v : /\ Leads(u, KeyCodes("caps", make), v)
                   /\ Agrees(v, KeysAfter(keys, "caps", make), caps # make, asked)
      BY CapsKey
    <2>2. k \notin Fx /\ (caps # (k = "caps" /\ make)) = (caps # make)
      BY <1>2 DEF Fx
    <2>. QED BY <1>0, <1>2, <2>1, <2>2 DEF Begun, CapsAfter, AskedAfter
  <1>3. CASE k \in Fx
    <2>1. PICK v : /\ Leads(u, KeyCodes(k, make), v)
                   /\ Agrees(v, KeysAfter(keys, k, make), caps,
                             IF keys \cap {"lctrl", "rctrl"} # {} THEN FxIndex[k] ELSE asked)
      BY <1>3, FunctionKey
    <2>2. k \notin {"caps", "a", "1", "esc", "pause"} /\ (caps # (k = "caps" /\ make)) = caps
      BY <1>3 DEF Fx
    <2>. QED BY <1>0, <1>3, <2>1, <2>2 DEF Begun, CapsAfter, AskedAfter
  <1>4. CASE k \in {"rctrl", "ralt", "up"}
    <2>1. PICK v : Leads(u, KeyCodes(k, make), v) /\ Agrees(v, KeysAfter(keys, k, make), caps, asked)
      BY <1>4, PrefixedKey
    <2>2. k \notin Fx /\ (caps # (k = "caps" /\ make)) = caps
      BY <1>4 DEF Fx
    <2>. QED BY <1>0, <1>4, <2>1, <2>2 DEF Begun, CapsAfter, AskedAfter
  <1>5. CASE k \in {"a", "1", "esc"}
    <2>1. PICK v : /\ Leads(IF make THEN Due(u, <<asked, CharFor(k, keys, caps)>>) ELSE u,
                            KeyCodes(k, make), v)
                   /\ Agrees(v, KeysAfter(keys, k, make), caps, asked)
      BY <1>5, TypingKey
    <2>2. k \notin Fx /\ (caps # (k = "caps" /\ make)) = caps
      BY <1>5 DEF Fx
    <2>. QED BY <1>0, <1>5, <2>1, <2>2 DEF Begun, CapsAfter, AskedAfter
  <1>6. CASE k = "pause"
    <2>1. PICK v : /\ Leads(Due(u, <<asked, "nul">>), Scan("pause") \o Broken(Scan("pause")), v)
                   /\ Agrees(v, KeysAfter(keys, "pause", TRUE), caps, asked)
      BY PauseKey
    <2>2. k \notin Fx /\ (caps # (k = "caps" /\ make)) = caps /\ make
          /\ CharFor(k, keys, caps) = "nul" /\ Sent(k, make) = Scan("pause") \o Broken(Scan("pause"))
      BY <1>6 DEF Fx, CharFor, Sent
    <2>. QED BY <1>6, <2>1, <2>2 DEF Begun, CapsAfter, AskedAfter
  <1>. QED BY <1>1, <1>2, <1>3, <1>4, <1>5, <1>6 DEF AllKeys

LEMMA PressOnCourse ==
    ASSUME "hasty" \notin Mishaps, KbdInv, NEW k \in Keyboard, press(k)
    PROVE  KbdInv'
  <1>. DEFINE x == <<chosen, CharOf(k)>>
              codes == Sent(k, TRUE)
              typed == k \in {"a", "1", "esc", "pause"}
  <1>1. KbdTypes /\ CapsIsLast /\ OneChord /\ (Followed => ~astray) /\ k \in AllKeys
    BY KbdAssumption DEF KbdInv, AllKeys
  <1>2. PICK u : Leads(Now, wire, u) /\ Agrees(u, held, capital, chosen)
    BY DEF KbdInv, OnCourse
  <1>3. /\ Ready(k) /\ wire' = wire \o codes
        /\ held' = KeysAfter(held, k, TRUE) /\ capital' = (capital # (k = "caps"))
        /\ chosen' = (IF k \in Fx /\ CtrlHeld THEN FxIndex[k] ELSE chosen)
        /\ due' = (IF typed THEN Append(due, x) ELSE due)
        /\ UNCHANGED <<codeVars, astray>>
    BY DEF press, Sends, Sent, KeyCodes, KeysAfter
  <1>4. CharOf(k) = CharFor(k, held, capital) /\ x \in Ttys \X Chars
    <2>1. CharOf(k) = CharFor(k, held, capital)
      BY DEF CharOf, CharFor, ShiftHeld
    <2>2. CharFor(k, held, capital) \in Chars
      BY DEF CharFor, Chars
    <2>. QED BY <1>1, <2>1, <2>2 DEF KbdTypes
  <1>5. codes \in Seq(ScanCodes) /\ \A i \in 1 .. Len(codes) - 1 : codes[i] # <<"caps", TRUE>>
    BY <1>1, SentIsCodes
  <1>6. wire \in Seq(ScanCodes) /\ \A i \in 1 .. Len(wire) : wire[i] # <<"caps", TRUE>>
    <2>1. <<"caps", TRUE>> \notin {wire[i] : i \in DOMAIN wire}
      BY <1>3 DEF Ready, Range
    <2>2. wire \in Seq(ScanCodes) /\ DOMAIN wire = 1 .. Len(wire)
      BY <1>1 DEF KbdTypes
    <2>. QED BY <2>1, <2>2
  <1>. HIDE DEF x, codes, typed
  <1>7. KbdTypes'
    <2>1. wire' \in Seq(ScanCodes)
      BY <1>3, <1>5, <1>6
    <2>2. due' \in Seq(Ttys \X Chars)
      <3>. DEFINE S == Ttys \X Chars
      <3>1. due \in Seq(S) /\ x \in S
        BY <1>1, <1>4 DEF KbdTypes
      <3>. HIDE DEF S
      <3>2. Append(due, x) \in Seq(S)
        BY <3>1
      <3>. QED BY <1>3, <3>1, <3>2 DEF S
    <2>3. chosen' \in Ttys
      BY <1>1, <1>3 DEF KbdTypes, Fx, FxIndex, Ttys
    <2>4. held' \subseteq AllKeys /\ capital' \in BOOLEAN
      BY <1>1, <1>3 DEF KbdTypes, KeysAfter
    <2>. QED BY <1>1, <1>3, <2>1, <2>2, <2>3, <2>4 DEF KbdTypes, codeVars
  <1>8. CapsIsLast'
    <2>1. \A i \in 1 .. Len(wire \o codes) - 1 : (wire \o codes)[i] # <<"caps", TRUE>>
      BY <1>5, <1>6, CapsStaysLast
    <2>. QED BY <1>3, <2>1 DEF CapsIsLast
  <1>9. OneChord'
    <2>. SUFFICES ASSUME Followed PROVE OneChord'
      BY DEF OneChord, Followed
    <2>1. /\ k \in Fx => held \cap Fx \subseteq {k}
          /\ k \in {"lctrl", "rctrl"} => held \cap Fx = {}
      BY <1>3 DEF Ready, Followed
    <2>2. held' = held \cup {k}
      BY <1>3 DEF KeysAfter
    <2>3. CASE k \in Fx
      <3>1. \A j \in held' \cap Fx : j = k
        BY <2>1, <2>2, <2>3
      <3>2. k \notin {"lctrl", "rctrl"}
        BY <2>3 DEF Fx
      <3>3. CtrlHeld' => CtrlHeld
        BY <2>2, <3>2 DEF CtrlHeld
      <3>. QED BY <1>3, <2>3, <3>1, <3>3 DEF OneChord
    <2>4. CASE k \in {"lctrl", "rctrl"}
      <3>1. held' \cap Fx = {}
        BY <2>1, <2>2, <2>4 DEF Fx
      <3>. QED BY <3>1 DEF OneChord
    <2>5. CASE k \notin Fx \cup {"lctrl", "rctrl"}
      <3>1. held' \cap Fx = held \cap Fx /\ (CtrlHeld' <=> CtrlHeld) /\ chosen' = chosen
        BY <1>3, <2>2, <2>5 DEF CtrlHeld
      <3>. QED BY <1>1, <3>1 DEF OneChord
    <2>. QED BY <2>3, <2>4, <2>5
  <1>10. OnCourse'
    <2>. DEFINE s == IF typed THEN Due(Now, x) ELSE Now
                t == IF typed THEN Due(u, x) ELSE u
    <2>1. Now' = s
      <3>1. Now \in Handlers /\ Now.kbd = kbd_state /\ Now.recv = recv_state
            /\ Now.tty = (IF Followed THEN curr_tty ELSE 0)
            /\ Now.due = (IF Followed THEN due ELSE <<>>)
        BY <1>1, NowIsHandler
      <3>2. Now' = [kbd |-> kbd_state, recv |-> recv_state,
                    tty |-> IF Followed THEN curr_tty ELSE 0, due |-> IF Followed THEN due' ELSE <<>>]
        BY <1>3 DEF Now, Followed, codeVars
      <3>3. CASE typed /\ Followed
        <4>1. More(Now, x) = [kbd |-> Now.kbd, recv |-> Now.recv, tty |-> Now.tty, due |-> Append(Now.due, x)]
          BY <1>4, <3>1, MoreIsHandler
        <4>2. Now.due = due /\ due' = Append(due, x)
          BY <1>3, <3>1, <3>3
        <4>. QED BY <3>1, <3>2, <3>3, <4>1, <4>2 DEF Due
      <3>4. CASE ~(typed /\ Followed)
        <4>1. s = Now
          BY <3>4 DEF Due
        <4>2. (IF Followed THEN due' ELSE <<>>) = (IF Followed THEN due ELSE <<>>)
          BY <1>3, <3>4
        <4>. QED BY <3>2, <4>1, <4>2 DEF Now
      <3>. QED BY <3>3, <3>4
    <2>2. Leads(s, wire, t)
      BY <1>2, <1>4, <1>6, LeadsWithMore DEF Due
    <2>3. PICK v : /\ Leads(t, codes, v)
                   /\ Agrees(v, held', capital', chosen')
      <3>1. capital \in BOOLEAN /\ chosen \in Ttys /\ TRUE \in BOOLEAN
        BY <1>1 DEF KbdTypes
      <3>2. PICK v : /\ Leads(Begun(u, held, capital, chosen, k, TRUE), Sent(k, TRUE), v)
                     /\ Agrees(v, KeysAfter(held, k, TRUE), CapsAfter(capital, k, TRUE),
                               AskedAfter(chosen, held, k))
        BY <1>1, <1>2, <3>1, AKey
      <3>3. CapsAfter(capital, k, TRUE) = capital' /\ AskedAfter(chosen, held, k) = chosen'
        BY <1>3 DEF CtrlHeld, CapsAfter, AskedAfter
      <3>4. t = Begun(u, held, capital, chosen, k, TRUE)
        BY <1>4 DEF x, typed, Begun
      <3>. HIDE DEF t
      <3>. QED BY <1>3, <3>2, <3>3, <3>4 DEF codes
    <2>4. Leads(s, wire \o codes, v)
      BY <1>5, <1>6, <2>2, <2>3, LeadsOn
    <2>5. Leads(Now', wire', v)
      BY <1>3, <2>1, <2>4
    <2>. QED BY <2>3, <2>5 DEF OnCourse
  <1>. QED BY <1>1, <1>3, <1>7, <1>8, <1>9, <1>10 DEF KbdInv, Followed

LEMMA ReleaseOnCourse ==
    ASSUME "hasty" \notin Mishaps, KbdInv, NEW k \in Keyboard, release(k)
    PROVE  KbdInv'
  <1>1. KbdTypes /\ CapsIsLast /\ OneChord /\ (Followed => ~astray) /\ k \in AllKeys
    BY KbdAssumption DEF KbdInv, AllKeys
  <1>2. PICK u : Leads(Now, wire, u) /\ Agrees(u, held, capital, chosen)
    BY DEF KbdInv, OnCourse
  <1>3. /\ k \in held /\ Ready(k) /\ held' = KeysAfter(held, k, FALSE)
        /\ UNCHANGED <<codeVars, capital, chosen, due, astray>>
    BY DEF release, KeysAfter
  <1>4. Now' = Now
    BY <1>3 DEF Now, Followed, codeVars
  <1>5. OneChord'
    <2>1. held' \cap Fx \subseteq held \cap Fx /\ (CtrlHeld' => CtrlHeld) /\ chosen' = chosen
      BY <1>3 DEF KeysAfter, CtrlHeld
    <2>. QED BY <1>1, <2>1 DEF OneChord, Followed
  <1>6. CASE k = "pause"
    <2>1. wire' = wire
      BY <1>6 DEF release
    <2>2. Agrees(u, held', capital', chosen')
      <3>1. Matches(u.kbd, held')
        BY <1>2, <1>3, <1>6, NoFlagIsSet DEF Agrees
      <3>. QED BY <1>2, <1>3, <3>1 DEF Agrees
    <2>3. OnCourse'
      BY <1>2, <1>4, <2>1, <2>2 DEF OnCourse
    <2>4. KbdTypes' /\ CapsIsLast'
      BY <1>1, <1>3, <2>1 DEF KbdTypes, CapsIsLast, KeysAfter, codeVars
    <2>. QED BY <1>1, <1>3, <1>5, <2>3, <2>4 DEF KbdInv, Followed
  <1>7. CASE k # "pause"
    <2>. DEFINE codes == Sent(k, FALSE)
    <2>1. wire' = wire \o codes
      BY <1>7 DEF release, Sends, Sent, KeyCodes
    <2>2. codes \in Seq(ScanCodes) /\ \A i \in 1 .. Len(codes) - 1 : codes[i] # <<"caps", TRUE>>
      BY <1>1, <1>7, SentIsCodes
    <2>3. wire \in Seq(ScanCodes) /\ \A i \in 1 .. Len(wire) : wire[i] # <<"caps", TRUE>>
      <3>1. <<"caps", TRUE>> \notin {wire[i] : i \in DOMAIN wire}
        BY <1>3 DEF Ready, Range
      <3>2. wire \in Seq(ScanCodes) /\ DOMAIN wire = 1 .. Len(wire)
        BY <1>1 DEF KbdTypes
      <3>. QED BY <3>1, <3>2
    <2>. HIDE DEF codes
    <2>4. KbdTypes'
      <3>1. wire' \in Seq(ScanCodes)
        BY <2>1, <2>2, <2>3
      <3>. QED BY <1>1, <1>3, <3>1 DEF KbdTypes, KeysAfter, codeVars
    <2>5. CapsIsLast'
      <3>1. \A i \in 1 .. Len(wire \o codes) - 1 : (wire \o codes)[i] # <<"caps", TRUE>>
        BY <2>2, <2>3, CapsStaysLast
      <3>. QED BY <2>1, <3>1 DEF CapsIsLast
    <2>6. capital \in BOOLEAN /\ chosen \in Ttys /\ FALSE \in BOOLEAN
      BY <1>1 DEF KbdTypes
    <2>7. PICK v : /\ Leads(Begun(u, held, capital, chosen, k, FALSE), Sent(k, FALSE), v)
                   /\ Agrees(v, KeysAfter(held, k, FALSE), CapsAfter(capital, k, FALSE),
                             AskedAfter(chosen, held, k))
      BY <1>1, <1>2, <1>7, <2>6, AKey
    <2>8. Leads(u, codes, v) /\ Agrees(v, held', capital', chosen')
      <3>1. Begun(u, held, capital, chosen, k, FALSE) = u /\ CapsAfter(capital, k, FALSE) = capital'
        BY <1>3, <2>6 DEF Begun, CapsAfter
      <3>2. Followed => AskedAfter(chosen, held, k) = chosen'
        BY <1>1, <1>3 DEF OneChord, CtrlHeld, AskedAfter
      <3>. QED BY <1>3, <2>7, <3>1, <3>2 DEF Agrees, codes
    <2>9. Leads(Now, wire \o codes, v)
      BY <1>2, <2>2, <2>3, <2>8, LeadsOn
    <2>10. OnCourse'
      BY <1>4, <2>1, <2>8, <2>9 DEF OnCourse
    <2>. QED BY <1>1, <1>3, <1>5, <2>4, <2>5, <2>10 DEF KbdInv, Followed
  <1>. QED BY <1>6, <1>7

\* What the handler does with the first scan code.
LEMMA HandlerTakes ==
    ASSUME KbdTypes, do_handler_kbd
    PROVE  LET b == Head(wire) IN
           /\ kbd_state' = FlagsAfter(Now, b) /\ recv_state' = RecvAfter(b)
           /\ curr_tty' = (IF recv_state = "NORMAL" /\ b[1] \in Fx /\ CtrlDown THEN FxIndex[b[1]] ELSE curr_tty)
           /\ IF IsTyped(Now, b)
              THEN IF due # <<>> /\ Head(due) = <<curr_tty, CharIn(kbd_state, b[1])>>
                   THEN due' = Tail(due) /\ UNCHANGED astray ELSE astray' = TRUE /\ UNCHANGED due
              ELSE UNCHANGED <<due, astray>>
           /\ wire' = (IF recv_state = "NORMAL" /\ b = <<"caps", TRUE>>
                       THEN update_led_status(Tail(wire)) ELSE Tail(wire))
  <1>. DEFINE b == Head(wire)
              code == b[1]
              make == b[2]
  <1>1. wire \in Seq(ScanCodes) /\ wire # <<>>
    BY DEF KbdTypes, do_handler_kbd
  <1>2. b \in ScanCodes
    BY <1>1
  <1>3. code \in Codes /\ make \in BOOLEAN /\ b = <<code, make>>
        /\ (b = <<"caps", TRUE>> <=> code = "caps" /\ make)
    <2>1. PICK z \in Codes, m \in BOOLEAN : b = <<z, m>>
      BY <1>2 DEF ScanCodes
    <2>. HIDE DEF b
    <2>2. code = z /\ make = m
      BY <2>1
    <2>. QED BY <2>1, <2>2
  <1>4. Now.kbd = kbd_state /\ Now.recv = recv_state
    BY NowIsHandler
  <1>5. IsPrefixCode(b) <=> code \in {"E0", "E1"}
    BY DEF IsPrefixCode
  <1>6. Fx \cap {"E0", "E1"} = {} /\ DOMAIN NormalFlag \cap (Fx \cup {"caps", "E0", "E1"}) = {} /\ "caps" \notin Fx
        /\ DOMAIN NormalFlag = {"lshift", "rshift", "alt", "ctrl"}
    BY DEF Fx, NormalFlag
  <1>7. \/ /\ code \in {"E0", "E1"}
           /\ recv_state' = IF code = "E0" THEN "BEGIN_E0" ELSE "BEGIN_E1"
           /\ wire' = Tail(wire)
           /\ UNCHANGED <<kbd_state, curr_tty, due, astray>>
        \/ /\ code \notin {"E0", "E1"} /\ recv_state = "NORMAL"
           /\ do_normal_key(code, make)
           /\ UNCHANGED recv_state
        \/ /\ code \notin {"E0", "E1"} /\ recv_state = "BEGIN_E0"
           /\ do_e0_key(code, make)
           /\ recv_state' = "NORMAL"
        \/ /\ code \notin {"E0", "E1"} /\ recv_state = "BEGIN_E1"
           /\ recv_state' = "NORMAL"
           /\ wire' = Tail(wire)
           /\ UNCHANGED <<kbd_state, curr_tty, due, astray>>
    BY DEF do_handler_kbd
  <1>8. IsTyped(Now, b) <=> /\ code \notin {"E0", "E1"} /\ recv_state = "NORMAL" /\ make
                            /\ code \notin DOMAIN NormalFlag \cup Fx \cup {"caps"}
    BY <1>4, <1>5 DEF IsTyped
  <1>. DEFINE Goal == /\ kbd_state' = FlagsAfter(Now, b) /\ recv_state' = RecvAfter(b)
                      /\ curr_tty' = (IF recv_state = "NORMAL" /\ code \in Fx /\ CtrlDown THEN FxIndex[code] ELSE curr_tty)
                      /\ IF IsTyped(Now, b)
                         THEN IF due # <<>> /\ Head(due) = <<curr_tty, CharIn(kbd_state, code)>>
                              THEN due' = Tail(due) /\ UNCHANGED astray ELSE astray' = TRUE /\ UNCHANGED due
                         ELSE UNCHANGED <<due, astray>>
                      /\ wire' = (IF recv_state = "NORMAL" /\ b = <<"caps", TRUE>>
                                  THEN update_led_status(Tail(wire)) ELSE Tail(wire))
  <1>. SUFFICES Goal
    OBVIOUS
  <1>9. RecvAfter(b) = IF code = "E0" THEN "BEGIN_E0" ELSE IF code = "E1" THEN "BEGIN_E1" ELSE "NORMAL"
    BY DEF RecvAfter
  <1>10. FlagsAfter(Now, b) =
            IF code \in {"E0", "E1"} THEN kbd_state
            ELSE IF recv_state = "NORMAL" /\ code \in DOMAIN NormalFlag
                 THEN [kbd_state EXCEPT ![NormalFlag[code]] = make]
            ELSE IF recv_state = "NORMAL" /\ code = "caps" /\ make
                 THEN [kbd_state EXCEPT !["caps_lock"] = ~kbd_state["caps_lock"]]
            ELSE IF recv_state = "BEGIN_E0" /\ code \in {"ctrl", "alt"}
                 THEN [kbd_state EXCEPT ![E0Flag[code]] = make]
            ELSE kbd_state
    BY <1>3, <1>4, <1>5 DEF FlagsAfter
  <1>. HIDE DEF b, code, make
  <1>11. CASE code \in {"E0", "E1"}
    <2>1. /\ recv_state' = (IF code = "E0" THEN "BEGIN_E0" ELSE "BEGIN_E1")
          /\ wire' = Tail(wire)
          /\ UNCHANGED <<kbd_state, curr_tty, due, astray>>
      BY <1>7, <1>11
    <2>. QED BY <1>3, <1>6, <1>8, <1>9, <1>10, <1>11, <2>1
  <1>12. CASE code \notin {"E0", "E1"} /\ recv_state = "BEGIN_E1"
    <2>1. /\ recv_state' = "NORMAL" /\ wire' = Tail(wire)
          /\ UNCHANGED <<kbd_state, curr_tty, due, astray>>
      BY <1>7, <1>12
    <2>. QED BY <1>3, <1>6, <1>8, <1>9, <1>10, <1>12, <2>1
  <1>13. CASE code \notin {"E0", "E1"} /\ recv_state = "BEGIN_E0"
    <2>1. recv_state' = "NORMAL" /\ do_e0_key(code, make)
      BY <1>7, <1>13
    <2>2. /\ kbd_state' = (IF code \in {"ctrl", "alt"} THEN [kbd_state EXCEPT ![E0Flag[code]] = make] ELSE kbd_state)
          /\ wire' = Tail(wire)
          /\ UNCHANGED <<curr_tty, due, astray>>
      BY <2>1 DEF do_e0_key, SetFlag
    <2>. QED BY <1>3, <1>6, <1>8, <1>9, <1>10, <1>13, <2>1, <2>2
  <1>14. CASE code \notin {"E0", "E1"} /\ recv_state = "NORMAL"
    <2>1. recv_state' = "NORMAL" /\ do_normal_key(code, make)
      BY <1>7, <1>14
    <2>2. CASE code \in DOMAIN NormalFlag
      <3>1. /\ kbd_state' = [kbd_state EXCEPT ![NormalFlag[code]] = make]
            /\ wire' = Tail(wire)
            /\ UNCHANGED <<curr_tty, due, astray>>
        BY <1>6, <2>1, <2>2 DEF do_normal_key, SetFlag
      <3>. QED BY <1>3, <1>6, <1>8, <1>9, <1>10, <1>14, <2>1, <2>2, <3>1
    <2>3. CASE code = "caps"
      <3>1. /\ kbd_state' = (IF make THEN [kbd_state EXCEPT !["caps_lock"] = ~kbd_state["caps_lock"]] ELSE kbd_state)
            /\ wire' = (IF make THEN update_led_status(Tail(wire)) ELSE Tail(wire))
            /\ UNCHANGED <<curr_tty, due, astray>>
        BY <1>6, <2>1, <2>3 DEF do_normal_key, SetFlag
      <3>. QED BY <1>3, <1>6, <1>8, <1>9, <1>10, <1>14, <2>1, <2>3, <3>1
    <2>4. CASE code \in Fx
      <3>1. /\ curr_tty' = (IF CtrlDown THEN FxIndex[code] ELSE curr_tty)
            /\ wire' = Tail(wire)
            /\ UNCHANGED <<kbd_state, due, astray>>
        BY <1>6, <2>1, <2>4 DEF do_normal_key, do_fx_key
      <3>. QED BY <1>3, <1>6, <1>8, <1>9, <1>10, <1>14, <2>1, <2>4, <3>1
    <2>5. CASE code \notin DOMAIN NormalFlag \cup Fx \cup {"caps"}
      <3>1. /\ IF make THEN tty_in_selected(Mapped(code)) ELSE UNCHANGED <<due, astray>>
            /\ wire' = Tail(wire)
            /\ UNCHANGED <<kbd_state, curr_tty>>
        BY <2>1, <2>5 DEF do_normal_key
      <3>2. Mapped(code) = CharIn(kbd_state, code)
        <4>1. (ShiftDown <=> kbd_state["lshift_press"] \/ kbd_state["rshift_press"])
          BY DEF ShiftDown
        <4>2. "caps_lock" \in Flags /\ kbd_state["caps_lock"] \in BOOLEAN
          BY DEF KbdTypes, Flags
        <4>. QED BY <4>1, <4>2 DEF Mapped, CharIn
      <3>3. IF make
            THEN IF due # <<>> /\ Head(due) = <<curr_tty, CharIn(kbd_state, code)>>
                 THEN due' = Tail(due) /\ UNCHANGED astray ELSE astray' = TRUE /\ UNCHANGED due
            ELSE UNCHANGED <<due, astray>>
        BY <3>1, <3>2 DEF tty_in_selected
      <3>4. IsTyped(Now, b) <=> make
        BY <1>8, <1>14, <2>5
      <3>5. b # <<"caps", TRUE>> /\ code \notin Fx /\ kbd_state' = FlagsAfter(Now, b)
        BY <1>3, <1>10, <1>14, <2>5, <3>1
      <3>. QED BY <1>9, <1>14, <2>1, <3>1, <3>3, <3>4, <3>5
    <2>. QED BY <2>2, <2>3, <2>4, <2>5
  <1>. QED BY <1>7, <1>11, <1>12, <1>13, <1>14

\* An acknowledgement changes nothing.
LEMMA AckIsNothing ==
    ASSUME NEW v \in Handlers, v.recv = "NORMAL"
    PROVE  Leads(v, << <<"ack", FALSE>> >>, v)
  <1>. DEFINE b == <<"ack", FALSE>>
  <1>1. b \in ScanCodes /\ b[1] = "ack" /\ ~b[2] /\ b # <<"caps", TRUE>>
    BY DEF ScanCodes, Codes
  <1>2. b[1] \notin DOMAIN NormalFlag \cup Fx \cup {"caps"}
    BY DEF NormalFlag, Fx
  <1>. HIDE DEF b
  <1>3. ~IsPrefixCode(b) /\ ~IsTyped(v, b)
    BY <1>1 DEF IsPrefixCode, IsTyped
  <1>4. FlagsAfter(v, b) = v.kbd /\ RecvAfter(b) = "NORMAL" /\ TtyAfter(v, b) = v.tty
    BY <1>1, <1>2, <1>3 DEF FlagsAfter, RecvAfter, TtyAfter
  <1>5. Takes(v, b, v)
    BY <1>3, <1>4 DEF Takes
  <1>. QED BY <1>5, LeadsByOne DEF b

LEMMA TailOfTwo ==
    ASSUME NEW a
    PROVE  Tail(<<a, a>>) = <<a>>
  <1>. DEFINE f == Tail(<<a, a>>)
  <1>1. f = [i \in 1 .. 1 |-> f[i]] /\ f[1] = a
    OBVIOUS
  <1>. HIDE DEF f
  <1>2. f = <<a>>
    BY <1>1, OneIsOne
  <1>. QED BY <1>2 DEF f

LEMMA HandlerOnCourse ==
    ASSUME KbdInv, do_handler_kbd
    PROVE  KbdInv'
  <1>. DEFINE b == Head(wire)
              reset == recv_state = "NORMAL" /\ b = <<"caps", TRUE>>
  <1>1. KbdTypes /\ CapsIsLast /\ OneChord /\ (Followed => ~astray)
    BY DEF KbdInv
  <1>2. wire \in Seq(ScanCodes) /\ wire # <<>> /\ b \in ScanCodes
    BY <1>1 DEF KbdTypes, do_handler_kbd
  <1>3. PICK v : Leads(Now, wire, v) /\ Agrees(v, held, capital, chosen)
    BY DEF KbdInv, OnCourse
  <1>4. PICK t \in Handlers : Takes(Now, b, t) /\ Leads(t, Tail(wire), v)
    BY <1>2, <1>3, LeadsFromHead
  <1>5. /\ Now \in Handlers /\ Now.kbd = kbd_state /\ Now.recv = recv_state
        /\ Now.tty = (IF Followed THEN curr_tty ELSE 0)
        /\ Now.due = (IF Followed THEN due ELSE <<>>)
    BY <1>1, NowIsHandler
  <1>6. /\ kbd_state' = FlagsAfter(Now, b) /\ recv_state' = RecvAfter(b)
        /\ curr_tty' = (IF recv_state = "NORMAL" /\ b[1] \in Fx /\ CtrlDown THEN FxIndex[b[1]] ELSE curr_tty)
        /\ IF IsTyped(Now, b)
           THEN IF due # <<>> /\ Head(due) = <<curr_tty, CharIn(kbd_state, b[1])>>
                THEN due' = Tail(due) /\ UNCHANGED astray ELSE astray' = TRUE /\ UNCHANGED due
           ELSE UNCHANGED <<due, astray>>
        /\ wire' = (IF reset THEN update_led_status(Tail(wire)) ELSE Tail(wire))
    BY <1>1, HandlerTakes
  <1>7. UNCHANGED <<held, capital, chosen>>
    BY DEF do_handler_kbd
  <1>. HIDE DEF b, reset
  <1>8. /\ t.kbd = FlagsAfter(Now, b) /\ t.recv = RecvAfter(b)
        /\ t.tty = (IF Followed THEN TtyAfter(Now, b) ELSE Now.tty)
        /\ IF Followed /\ IsTyped(Now, b)
           THEN Now.due # <<>> /\ Head(Now.due) = <<Now.tty, CharIn(Now.kbd, b[1])>> /\ t.due = Tail(Now.due)
           ELSE t.due = Now.due
    BY <1>4 DEF Takes
  <1>9. Followed => curr_tty' = t.tty /\ due' = t.due /\ ~astray'
    <2>1. Followed => curr_tty' = t.tty
      BY <1>5, <1>6, <1>8 DEF TtyAfter, CtrlDown
    <2>2. Followed => due' = t.due /\ ~astray'
      BY <1>1, <1>5, <1>6, <1>8
    <2>. QED BY <2>1, <2>2
  <1>10. Now' = t
    <2>1. Now' = [kbd |-> kbd_state', recv |-> recv_state',
                  tty |-> IF Followed THEN curr_tty' ELSE 0, due |-> IF Followed THEN due' ELSE <<>>]
      BY DEF Now, Followed
    <2>2. t = [kbd |-> t.kbd, recv |-> t.recv, tty |-> t.tty, due |-> t.due]
      BY DEF Handlers
    <2>. QED BY <1>5, <1>6, <1>8, <1>9, <2>1, <2>2
  <1>11. Tail(wire) \in Seq(ScanCodes) /\ (reset => Tail(wire) = <<>>)
    <2>1. Len(wire) \in Nat /\ Len(wire) >= 1 /\ wire[1] = Head(wire) /\ Len(Tail(wire)) = Len(wire) - 1
          /\ Tail(wire) \in Seq(ScanCodes)
      BY <1>2
    <2>2. reset => Len(wire) = 1
      <3>1. reset => wire[1] = <<"caps", TRUE>>
        BY <2>1 DEF reset, b
      <3>2. Len(wire) # 1 => 1 \in 1 .. Len(wire) - 1
        BY <2>1
      <3>. QED BY <1>1, <3>1, <3>2 DEF CapsIsLast
    <2>3. Len(wire) = 1 => Tail(wire) = <<>>
      <3>1. Len(wire) = 1 => Len(Tail(wire)) = 0
        BY <2>1
      <3>. DEFINE q == Tail(wire)
      <3>2. q \in Seq(ScanCodes)
        BY <2>1
      <3>. HIDE DEF q
      <3>3. Len(q) = 0 => q = <<>>
        BY <3>2
      <3>. QED BY <3>1, <3>3 DEF q
    <2>. QED BY <2>1, <2>2, <2>3
  <1>12. reset => wire' = << <<"ack", FALSE>> >>
    <2>1. << >> \o << <<"ack", FALSE>>, <<"ack", FALSE>> >> = << <<"ack", FALSE>>, <<"ack", FALSE>> >>
      OBVIOUS
    <2>2. Tail(<< <<"ack", FALSE>>, <<"ack", FALSE>> >>) = << <<"ack", FALSE>> >>
      BY TailOfTwo
    <2>. QED BY <1>6, <1>11, <2>1, <2>2 DEF update_led_status
  <1>13. KbdTypes'
    <2>1. wire' \in Seq(ScanCodes)
      <3>1. <<"ack", FALSE>> \in ScanCodes
        BY DEF ScanCodes, Codes
      <3>2. << <<"ack", FALSE>> >> \in Seq(ScanCodes)
        BY <3>1
      <3>. QED BY <1>6, <1>11, <1>12, <3>2
    <2>2. kbd_state' \in [Flags -> BOOLEAN] /\ recv_state' \in {"NORMAL", "BEGIN_E0", "BEGIN_E1"}
      BY <1>2, <1>5, <1>6, FlagsAreFlags DEF RecvAfter
    <2>3. curr_tty' \in Ttys
      BY <1>1, <1>6 DEF KbdTypes, Fx, FxIndex, Ttys
    <2>4. due' \in Seq(Ttys \X Chars) /\ astray' \in BOOLEAN
      <3>1. due \in Seq(Ttys \X Chars) /\ (due # <<>> => Tail(due) \in Seq(Ttys \X Chars)) /\ astray \in BOOLEAN
        BY <1>1 DEF KbdTypes
      <3>. QED BY <1>6, <3>1
    <2>. QED BY <1>1, <1>7, <2>1, <2>2, <2>3, <2>4 DEF KbdTypes
  <1>14. CapsIsLast'
    <2>1. CASE reset
      <3>1. Len(wire') = 1
        BY <1>12, <2>1
      <3>. QED BY <3>1 DEF CapsIsLast
    <2>2. CASE ~reset
      <3>1. Len(wire) \in Nat /\ Len(Tail(wire)) = Len(wire) - 1
        BY <1>2
      <3>2. ASSUME NEW i \in 1 .. Len(Tail(wire)) - 1 PROVE Tail(wire)[i] # <<"caps", TRUE>>
        <4>1. Tail(wire)[i] = wire[i + 1] /\ i + 1 \in 1 .. Len(wire) - 1
          BY <1>2, <3>1
        <4>. QED BY <1>1, <4>1 DEF CapsIsLast
      <3>. QED BY <1>6, <2>2, <3>2 DEF CapsIsLast
    <2>. QED BY <2>1, <2>2
  <1>15. Leads(t, wire', v)
    <2>1. CASE reset
      <3>1. t = v
        <4>. DEFINE q == Tail(wire)
        <4>1. Leads(t, q, v) /\ q \in Seq(ScanCodes) /\ q = <<>>
          BY <1>4, <1>11, <2>1
        <4>. HIDE DEF q
        <4>2. q = <<>> => t = v
          BY <4>1, LeadsToItsEnds
        <4>. QED BY <4>1, <4>2
      <3>2. v \in Handlers /\ v.recv = "NORMAL"
        BY <1>3 DEF Agrees
      <3>. QED BY <1>12, <2>1, <3>1, <3>2, AckIsNothing
    <2>2. CASE ~reset
      BY <1>4, <1>6, <2>2
    <2>. QED BY <2>1, <2>2
  <1>16. OnCourse'
    <2>1. Agrees(v, held', capital', chosen')
      BY <1>3, <1>7
    <2>. QED BY <1>10, <1>15, <2>1 DEF OnCourse
  <1>17. OneChord'
    BY <1>1, <1>7 DEF OneChord, CtrlHeld, Followed
  <1>. QED BY <1>9, <1>13, <1>14, <1>16, <1>17 DEF KbdInv, Followed

\* As long as nobody uses a key before the Caps Lock in front of it has been dealt with,
\* what waits in the controller leads the handler's flags to the keys that are down, and,
\* function keys and Ctrl not being let go across one another, the terminals to what was
\* typed and asked for.
THEOREM KeyboardOnCourse == "hasty" \notin Mishaps => (KbdSpec => []KbdInv)
  <1>. SUFFICES ASSUME "hasty" \notin Mishaps PROVE KbdSpec => []KbdInv
    OBVIOUS
  <1>1. KbdInit => KbdInv
    BY InitOnCourse
  <1>2. KbdInv /\ [KbdNext]_kbdVars => KbdInv'
    <2>. SUFFICES ASSUME KbdInv, [KbdNext]_kbdVars PROVE KbdInv'
      OBVIOUS
    <2>1. ASSUME NEW k \in Keyboard, press(k) PROVE KbdInv'
      BY <2>1, PressOnCourse
    <2>2. ASSUME NEW k \in Keyboard, release(k) PROVE KbdInv'
      BY <2>2, ReleaseOnCourse
    <2>3. CASE do_handler_kbd
      BY <2>3, HandlerOnCourse
    <2>4. CASE UNCHANGED kbdVars
      <3>1. UNCHANGED <<wire, kbd_state, recv_state, curr_tty, held, capital, chosen, due, astray>>
        BY <2>4 DEF kbdVars, codeVars
      <3>2. Now' = Now
        BY <3>1 DEF Now, Followed
      <3>3. KbdTypes' /\ CapsIsLast' /\ OneChord'
        BY <3>1 DEF KbdInv, KbdTypes, CapsIsLast, OneChord, CtrlHeld, Followed
      <3>4. OnCourse'
        BY <3>1, <3>2 DEF KbdInv, OnCourse
      <3>. QED BY <3>1, <3>3, <3>4 DEF KbdInv, Followed
    <2>. QED BY <2>1, <2>2, <2>3, <2>4 DEF KbdNext
  <1>. QED BY <1>1, <1>2, PTL DEF KbdSpec

\* When every scan code has been read, the handler is where the keys want it.
LEMMA ThereAtLast ==
    ASSUME KbdInv, wire = <<>>
    PROVE  Agrees(Now, held, capital, chosen)
  <1>1. PICK v : Leads(Now, wire, v) /\ Agrees(v, held, capital, chosen)
    BY DEF KbdInv, OnCourse
  <1>2. wire \in Seq(ScanCodes)
    BY DEF KbdInv, KbdTypes
  <1>3. wire = <<>> => Now = v
    BY <1>1, <1>2, LeadsToItsEnds
  <1>. QED BY <1>1, <1>3

\* No modifier sticks, even if function keys and Ctrl are let go across one another: when
\* every scan code has been read the flags of kbd_state are the keys that are down.
THEOREM NoModifierSticks == "hasty" \notin Mishaps => (KbdSpec => []ModifiersMatch)
  <1>. SUFFICES ASSUME "hasty" \notin Mishaps PROVE KbdSpec => []ModifiersMatch
    OBVIOUS
  <1>1. KbdInv => ModifiersMatch
    <2>. SUFFICES ASSUME KbdInv, wire = <<>>
                  PROVE  /\ \A f \in DOMAIN KeyOfFlag : kbd_state[f] <=> KeyOfFlag[f] \in held
                         /\ kbd_state["caps_lock"] = capital
                         /\ recv_state = "NORMAL"
      BY DEF ModifiersMatch
    <2>1. Agrees(Now, held, capital, chosen)
      BY ThereAtLast
    <2>2. Now.kbd = kbd_state /\ Now.recv = recv_state
      BY NowIsHandler DEF KbdInv
    <2>3. kbd_state["caps_lock"] \in BOOLEAN /\ capital \in BOOLEAN
      BY DEF KbdInv, KbdTypes, Flags
    <2>. QED BY <2>1, <2>2, <2>3 DEF Agrees, Matches
  <1>. QED BY <1>1, KeyboardOnCourse, PTL

\* Every character reaches, once and in order, the terminal that was selected when its key
\* was pressed, with the Shift and Caps Lock of that moment (tty_in behind do_normal_key).
THEOREM EveryKeyAsPressed ==
    Mishaps \cap {"hasty", "chord"} = {} => (KbdSpec => []TypedAsPressed)
  <1>. SUFFICES ASSUME Mishaps \cap {"hasty", "chord"} = {} PROVE KbdSpec => []TypedAsPressed
    OBVIOUS
  <1>0. "hasty" \notin Mishaps /\ Followed
    BY DEF Followed
  <1>1. KbdInv => TypedAsPressed
    <2>. SUFFICES ASSUME KbdInv PROVE TypedAsPressed
      OBVIOUS
    <2>1. wire = <<>> => due = <<>>
      <3>. SUFFICES ASSUME wire = <<>> PROVE due = <<>>
        OBVIOUS
      <3>1. Agrees(Now, held, capital, chosen)
        BY ThereAtLast
      <3>2. Now.due = due
        BY <1>0, NowIsHandler DEF KbdInv
      <3>. QED BY <1>0, <3>1, <3>2 DEF Agrees
    <2>. QED BY <1>0, <2>1 DEF TypedAsPressed, KbdInv
  <1>. QED BY <1>0, <1>1, KeyboardOnCourse, PTL

\* The selected terminal is the one that was asked for last with Ctrl and a function key.
THEOREM SelectedIsAsked ==
    Mishaps \cap {"hasty", "chord"} = {} => (KbdSpec => []SelectedAsAsked)
  <1>. SUFFICES ASSUME Mishaps \cap {"hasty", "chord"} = {} PROVE KbdSpec => []SelectedAsAsked
    OBVIOUS
  <1>0. "hasty" \notin Mishaps /\ Followed
    BY DEF Followed
  <1>1. KbdInv => SelectedAsAsked
    <2>. SUFFICES ASSUME KbdInv, wire = <<>> PROVE curr_tty = chosen
      BY DEF SelectedAsAsked
    <2>1. Agrees(Now, held, capital, chosen)
      BY ThereAtLast
    <2>2. Now.tty = curr_tty
      BY <1>0, NowIsHandler DEF KbdInv
    <2>. QED BY <1>0, <2>1, <2>2 DEF Agrees
  <1>. QED BY <1>0, <1>1, KeyboardOnCourse, PTL
=============================================================================
