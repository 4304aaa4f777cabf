-------------------------------- MODULE Tty --------------------------------
(***************************************************************************)
(* A terminal, dev/tty.c: an input and an output ring buffer, each with a  *)
(* semaphore; the keyboard interrupt puts into the input queue (tty_in),   *)
(* tasks read lines with editing and echo (tty_read) and write characters  *)
(* (tty_write), and whoever has written drains the output queue to the     *)
(* screen under the console's mutex (console_write of dev/console.c).      *)
(*                                                                         *)
(* The tasks run with interrupts on.  The fifo operations test `count'     *)
(* before they turn interrupts off, so the test and the access are two     *)
(* steps.  Semaphores are used as module Sem shows them to work: a notify  *)
(* with waiters passes the token to the oldest.  The mutex is one holder   *)
(* at a time (module Mutex).                                               *)
(***************************************************************************)
EXTENDS Integers, Sequences, FiniteSets, Functions

CONSTANTS Procs,      (* the tasks that use the terminal                   *)
          Readers,    (* those of them that read                           *)
          NoProc,     (* nobody holds the console's mutex                  *)
          Junk,       (* what a cell holds that no code looks at           *)
          IbufSize,   (* TTY_IBUF_SIZE                                     *)
          ObufSize,   (* TTY_OBUF_SIZE                                     *)
          ReadSize,   (* the size argument of tty_read                     *)
          Messages,   (* what tasks write                                  *)
          Overrun     (* FALSE: no key arrives while the input queue is    *)
                      (* full and a reader that has its token has not yet  *)
                      (* taken its character out                           *)

Keys == {"a", "nl", "del"}   (* an ordinary key, Enter, backspace          *)
Char == Keys \cup {"cr"}

(* Every task may hold one place of the output queue with the CR of a newline *)
(* while it waits for a second one: 512 places, TASK_NR = 128 tasks.          *)
ASSUME TtyAssumption ==
       /\ Readers \subseteq Procs
       /\ NoProc \notin Procs /\ Junk \notin Char
       /\ IsFiniteSet(Procs) /\ Cardinality(Procs) < ObufSize
       /\ ObufSize \in Nat /\ IbufSize \in Nat \ {0} /\ ReadSize \in Nat \ {0}
       /\ Messages \subseteq Seq({"a", "nl"}) \ {<<>>}
       /\ Overrun \in BOOLEAN

VARIABLES buf, read, write, count,   (* tty_fifo_t of "in" and "out"       *)
          tokens, waiting,           (* sem_t of isem and osem             *)
          owner,                     (* who holds the console's mutex      *)
          pc,                        (* the step each task takes next      *)
          line,                      (* what tty_read has read so far      *)
          reading,                   (* the task is in tty_read            *)
          todo,                      (* what tty_write has yet to write    *)
          c                          (* the character in hand              *)

fifoVars == <<buf, read, write, count>>
semVars == <<tokens, waiting>>
taskVars == <<pc, line, reading, todo, c>>
vars == <<fifoVars, semVars, owner, taskVars>>

Size == [q \in {"in", "out"} |-> IF q = "in" THEN IbufSize ELSE ObufSize]
Steps == {"user", "read_wait", "read_test", "read_get",
          "put_wait", "put_test", "put", "lock", "drain_test", "drain_get",
          "drain_notify", "unlock"}
-----------------------------------------------------------------------------
\* tty_open; osem starts with a token for every place of the output queue.
OsemCount == ObufSize

Init ==
    /\ buf = [q \in {"in", "out"} |-> [i \in 0 .. Size[q] - 1 |-> Junk]]
    /\ read = [q \in {"in", "out"} |-> 0]
    /\ write = read
    /\ count = read
    /\ tokens = [q \in {"in", "out"} |-> IF q = "in" THEN 0 ELSE OsemCount]
    /\ waiting = [q \in {"in", "out"} |-> <<>>]
    /\ owner = NoProc
    /\ pc = [p \in Procs |-> "user"]
    /\ line = [p \in Procs |-> <<>>]
    /\ reading = [p \in Procs |-> FALSE]
    /\ todo = [p \in Procs |-> <<>>]
    /\ c = [p \in Procs |-> "a"]

HeldUp(p) == \E q \in {"in", "out"} : p \in Range(waiting[q])
At(p, step) == pc[p] = step /\ ~HeldUp(p)
Goto(p, step) == pc' = [pc EXCEPT ![p] = step]

\* The index after i in a ring.
NextIndex_Stays(q, i) == IF i + 1 >= Size[q] THEN i ELSE i + 1
NextIndex(q, i) == IF i + 1 >= Size[q] THEN 0 ELSE i + 1

\* The protected half of tty_fifo_get, which takes buf[q][read[q]], and of tty_fifo_put.
\* A cell that has been taken out keeps its character, but counts as junk.
Get(q) ==
    /\ buf' = [buf EXCEPT ![q][read[q]] = Junk]
    /\ read' = [read EXCEPT ![q] = NextIndex(q, @)]
    /\ count' = [count EXCEPT ![q] = @ - 1]
    /\ UNCHANGED write

Put(q, char) ==
    /\ buf' = [buf EXCEPT ![q][write[q]] = char]
    /\ write' = [write EXCEPT ![q] = NextIndex(q, @)]
    /\ count' = [count EXCEPT ![q] = @ + 1]
    /\ UNCHANGED read

\* sem_wait: whoever finds no token waits for one before its next step.
sem_wait(q, p) ==
    IF tokens[q] > 0
    THEN tokens' = [tokens EXCEPT ![q] = @ - 1] /\ UNCHANGED waiting
    ELSE waiting' = [waiting EXCEPT ![q] = Append(@, p)] /\ UNCHANGED tokens

\* sem_notify
sem_notify_CountOnly(q) == tokens' = [tokens EXCEPT ![q] = @ + 1] /\ UNCHANGED waiting
sem_notify(q) ==
    IF waiting[q] # <<>>
    THEN waiting' = [waiting EXCEPT ![q] = Tail(@)] /\ UNCHANGED tokens
    ELSE tokens' = [tokens EXCEPT ![q] = @ + 1] /\ UNCHANGED waiting
-----------------------------------------------------------------------------
(* The keyboard interrupt: tty_in.  A key that finds as many tokens as the  *)
(* queue has places is dropped.                                             *)
Fetching(p) == pc[p] \in {"read_test", "read_get"} /\ ~HeldUp(p)

Admits_Always == TRUE
Admits == tokens["in"] < IbufSize

tty_in(key) ==
    /\ Overrun \/ count["in"] < IbufSize \/ \A p \in Procs : ~Fetching(p)
    /\ Admits
    /\ IF count["in"] < IbufSize THEN Put("in", key) ELSE UNCHANGED fifoVars
    /\ sem_notify("in")
    /\ UNCHANGED <<owner, taskVars>>
-----------------------------------------------------------------------------
\* tty_read is called, and waits for a character at the top of its loop.
read_begin(p) ==
    /\ p \in Readers
    /\ At(p, "user")
    /\ Goto(p, "read_wait")
    /\ reading' = [reading EXCEPT ![p] = TRUE]
    /\ UNCHANGED <<fifoVars, semVars, owner, line, todo, c>>

read_wait(p) ==
    /\ At(p, "read_wait")
    /\ sem_wait("in", p)
    /\ Goto(p, "read_test")
    /\ UNCHANGED <<fifoVars, owner, line, reading, todo, c>>

\* The line with the key edited in; a newline becomes CR LF if both fit.
WithNewline(l) == IF Len(l) < ReadSize - 1 THEN l \o <<"cr", "nl">> ELSE Append(l, "nl")

Edited(l, key) ==
    CASE key = "del" -> SubSeq(l, 1, Len(l) - 1)
      [] key = "nl"  -> WithNewline(l)
      [] OTHER       -> Append(l, key)

\* The rest of the loop's body: edit the line and echo the key, unless there was
\* nothing to erase.
Accept(p, key) ==
    IF key = "del" /\ line[p] = <<>>
    THEN Goto(p, "read_wait") /\ UNCHANGED <<line, todo, c>>
    ELSE /\ line' = [line EXCEPT ![p] = Edited(@, key)]
         /\ todo' = [todo EXCEPT ![p] = <<key>>]
         /\ c' = [c EXCEPT ![p] = IF key = "nl" THEN "cr" ELSE key]
         /\ Goto(p, "put_wait")

\* tty_fifo_get of the reader: with an empty queue `ch' keeps whatever was in it.
read_test(p) ==
    /\ At(p, "read_test")
    /\ \/ count["in"] > 0 /\ Goto(p, "read_get") /\ UNCHANGED <<line, todo, c>>
       \/ count["in"] <= 0 /\ \E key \in Keys : Accept(p, key)
    /\ UNCHANGED <<fifoVars, semVars, owner, reading>>

read_get(p) ==
    /\ At(p, "read_get")
    /\ Get("in")
    /\ Accept(p, buf["in"][read["in"]])
    /\ UNCHANGED <<semVars, owner, reading>>
-----------------------------------------------------------------------------
\* tty_write is called with a message.
write_begin(p, m) ==
    /\ At(p, "user")
    /\ todo' = [todo EXCEPT ![p] = m]
    /\ c' = [c EXCEPT ![p] = IF m[1] = "nl" THEN "cr" ELSE m[1]]
    /\ Goto(p, "put_wait")
    /\ UNCHANGED <<fifoVars, semVars, owner, line, reading>>

put_wait(p) ==
    /\ At(p, "put_wait")
    /\ sem_wait("out", p)
    /\ Goto(p, "put_test")
    /\ UNCHANGED <<fifoVars, owner, line, reading, todo, c>>

\* tty_write is over: back to the caller, or to the reader whose key was echoed; the
\* reader returns at the end of the line and when its buffer is full.
Return(p) ==
    LET done == \/ ~reading[p]
                \/ Len(line[p]) >= ReadSize
                \/ line[p] # <<>> /\ line[p][Len(line[p])] = "nl"
    IN
    /\ Goto(p, IF done THEN "user" ELSE "read_wait")
    /\ line' = [line EXCEPT ![p] = IF done THEN <<>> ELSE @]
    /\ reading' = [reading EXCEPT ![p] = ~done]
    /\ todo' = [todo EXCEPT ![p] = <<>>]
    /\ c' = [c EXCEPT ![p] = "a"]

\* tty_fifo_put of the writer: with a full queue tty_write gives up.
put_test(p) ==
    /\ At(p, "put_test")
    /\ \/ count["out"] < ObufSize /\ Goto(p, "put") /\ UNCHANGED <<line, reading, todo, c>>
       \/ count["out"] >= ObufSize /\ Return(p)
    /\ UNCHANGED <<fifoVars, semVars, owner>>

\* After the CR of a newline comes the newline itself; after a character the screen.
put(p) ==
    /\ At(p, "put")
    /\ Put("out", c[p])
    /\ \/ /\ c[p] = "cr"
          /\ c' = [c EXCEPT ![p] = "nl"]
          /\ Goto(p, "put_wait")
          /\ UNCHANGED todo
       \/ /\ c[p] # "cr"
          /\ todo' = [todo EXCEPT ![p] = Tail(@)]
          /\ c' = [c EXCEPT ![p] = "a"]
          /\ Goto(p, "lock")
    /\ UNCHANGED <<semVars, owner, line, reading>>

\* console_write: under the mutex, take out and show whatever is in the queue.
lock(p) ==
    /\ At(p, "lock")
    /\ owner = NoProc
    /\ owner' = p
    /\ Goto(p, "drain_test")
    /\ UNCHANGED <<fifoVars, semVars, line, reading, todo, c>>

Drained_AfterOne(p) == TRUE
Drained(p) == count["out"] <= 0

drain_test(p) ==
    /\ At(p, "drain_test")
    /\ Goto(p, IF Drained(p) THEN "unlock" ELSE "drain_get")
    /\ UNCHANGED <<fifoVars, semVars, owner, line, reading, todo, c>>

drain_get(p) ==
    /\ At(p, "drain_get")
    /\ Get("out")
    /\ Goto(p, "drain_notify")
    /\ UNCHANGED <<semVars, owner, line, reading, todo, c>>

drain_notify(p) ==
    /\ At(p, "drain_notify")
    /\ sem_notify("out")
    /\ Goto(p, "drain_test")
    /\ UNCHANGED <<fifoVars, owner, line, reading, todo, c>>

unlock(p) ==
    /\ At(p, "unlock")
    /\ owner' = NoProc
    /\ IF todo[p] = <<>>
       THEN Return(p)
       ELSE /\ c' = [c EXCEPT ![p] = IF todo[p][1] = "nl" THEN "cr" ELSE todo[p][1]]
            /\ Goto(p, "put_wait")
            /\ UNCHANGED <<line, reading, todo>>
    /\ UNCHANGED <<fifoVars, semVars>>

Begin(p) == read_begin(p) \/ \E m \in Messages : write_begin(p, m)

Continue(p) ==
    \/ read_wait(p) \/ read_test(p) \/ read_get(p)
    \/ put_wait(p) \/ put_test(p) \/ put(p)
    \/ drain_test(p) \/ drain_get(p) \/ drain_notify(p) \/ unlock(p)

Next ==
    \/ \E key \in Keys : tty_in(key)
    \/ \E p \in Procs : Begin(p) \/ Continue(p) \/ lock(p)

(* A task in a call gets the CPU again and again (EveryTaskRuns of Sched) and its *)
(* turn at the mutex (EveryWaiterEnters of Mutex).  Nobody has to type or write.  *)
Fairness == \A p \in Procs : WF_vars(Continue(p)) /\ SF_vars(lock(p))

Spec == Init /\ [][Next]_vars /\ Fairness
-----------------------------------------------------------------------------
TtyTypeOK ==
    /\ \A q \in {"in", "out"} :
        /\ buf[q] \in [0 .. Size[q] - 1 -> Char \cup {Junk}]
        /\ {read[q], write[q]} \subseteq 0 .. Size[q] - 1
        /\ count[q] \in 0 .. Size[q]
        /\ tokens[q] \in 0 .. Size[q]
        /\ waiting[q] \in Seq(Procs)
    /\ owner \in Procs \cup {NoProc}
    /\ pc \in [Procs -> Steps]
    /\ line \in [Procs -> Seq(Char)]
    /\ reading \in [Procs -> BOOLEAN]
    /\ todo \in [Procs -> Seq({"a", "nl", "del"})]
    /\ c \in [Procs -> Char]

\* The tasks that are at one of `steps' and not held up there.
Doing(steps) == {p \in Procs : pc[p] \in steps /\ ~HeldUp(p)}

\* Every character of the input queue has a token, in the semaphore or with a reader
\* that is about to take it; every place of the output queue has one, in the semaphore,
\* with a writer about to fill it or with the drainer that has just emptied it.
TokensMatchQueues ==
    /\ count["in"] = tokens["in"] + Cardinality(Doing({"read_test", "read_get"}))
    /\ ObufSize - count["out"] =
          tokens["out"] + Cardinality(Doing({"put_test", "put"}))
                        + Cardinality(Doing({"drain_notify"}))
    /\ \A q \in {"in", "out"} : tokens[q] > 0 => waiting[q] = <<>>

\* No output is left behind: while the queue holds something there is a task that will
\* still look at it, other than one that has just found it empty.
NothingStranded ==
    count["out"] > 0 =>
        \/ Doing({"lock", "drain_test", "drain_get", "drain_notify"}) # {}
        \/ \E p \in Procs : pc[p] \in {"put_wait", "put_test", "put"} /\ c[p] = "nl"

\* Both queues keep their promise: characters come out in the order they went in.
Contents(q) == [i \in 1 .. count[q] |-> buf[q][(read[q] + i - 1) % Size[q]]]
InPipe == INSTANCE Pipe WITH queue <- Contents("in"), Size <- IbufSize
OutPipe == INSTANCE Pipe WITH queue <- Contents("out"), Size <- ObufSize
QueuesInOrder == InPipe!Spec /\ OutPipe!Spec

\* Writers always finish: each may hold a place of the queue while it waits for another,
\* and each may show other tasks' characters for as long as there are some.
WritesReturn == \A p \in Procs : pc[p] = "put_wait" ~> pc[p] \in {"user", "read_wait"}

\* tty.c:266 "the queue must have free space for the write": tty_in lets a key in only
\* when there is room for it.
KeyHasRoom == Admits => count["in"] < IbufSize
=============================================================================
