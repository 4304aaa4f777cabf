-------------------------------- MODULE List --------------------------------
(***************************************************************************)
(* The intrusive lists of tools/list.c, pointer by pointer: m holds one    *)
(* list's first, last and count and the pre and next of all nodes, those   *)
(* of other lists included.  None of the functions looks whether a node is *)
(* on a list already; the callers have to know (Sched's RunNodeLinkedOnce, *)
(* AtOnePlace of Mutex and Sem).                                           *)
(*                                                                         *)
(* All other modules take a list for the sequence of its nodes;            *)
(* SchedProofs shows that they may.                                        *)
(***************************************************************************)
EXTENDS Integers, Sequences, Functions

CONSTANTS Nodes,   (* the list_node_t fields of all structures             *)
          Null     (* a null pointer                                       *)

ASSUME ListAssumption == Null \notin Nodes

Pointers == Nodes \cup {Null}

Memories == [first : Pointers, last : Pointers, count : Int,
             pre : [Nodes -> Pointers], next : [Nodes -> Pointers]]

list_init(m) == [m EXCEPT !.first = Null, !.last = Null, !.count = 0]

list_node_init(m, node) == [m EXCEPT !.pre[node] = Null, !.next[node] = Null]

list_is_empty(m) == m.count = 0

list_insert_first(m, node) ==
    [ first |-> node,
      last  |-> IF list_is_empty(m) THEN node ELSE m.last,
      count |-> m.count + 1,
      next  |-> [m.next EXCEPT ![node] = m.first],
      pre   |-> IF list_is_empty(m) THEN [m.pre EXCEPT ![node] = Null]
                ELSE [m.pre EXCEPT ![node] = Null, ![m.first] = node] ]

list_insert_last(m, node) ==
    [ first |-> IF list_is_empty(m) THEN node ELSE m.first,
      last  |-> node,
      count |-> m.count + 1,
      pre   |-> [m.pre EXCEPT ![node] = m.last],
      next  |-> IF list_is_empty(m) THEN [m.next EXCEPT ![node] = Null]
                ELSE [m.next EXCEPT ![node] = Null, ![m.last] = node] ]

\* The node it returns is m.first, or Null from an empty list.
list_remove_first(m) ==
    LET node == m.first
        rest == m.next[node]
    IN  IF list_is_empty(m) THEN m
        ELSE [ first |-> rest,
               last  |-> IF rest = Null THEN Null ELSE m.last,
               count |-> m.count - 1,
               next  |-> [m.next EXCEPT ![node] = Null],
               pre   |-> IF rest = Null THEN [m.pre EXCEPT ![node] = Null]
                         ELSE [m.pre EXCEPT ![rest] = Null, ![node] = Null] ]

list_remove(m, node) ==
    LET before == m.pre[node]
        behind == m.next[node]
    IN  [ first |-> IF node = m.first THEN behind ELSE m.first,
          last  |-> IF node = m.last THEN before ELSE m.last,
          count |-> m.count - 1,
          next  |-> IF before = Null THEN [m.next EXCEPT ![node] = Null]
                    ELSE [m.next EXCEPT ![before] = behind, ![node] = Null],
          pre   |-> IF behind = Null THEN [m.pre EXCEPT ![node] = Null]
                    ELSE [m.pre EXCEPT ![behind] = before, ![node] = Null] ]
-----------------------------------------------------------------------------
\* The list is the sequence s.
Represents(m, s) ==
    /\ m.count = Len(s)
    /\ m.first = IF s = <<>> THEN Null ELSE s[1]
    /\ m.last = IF s = <<>> THEN Null ELSE s[Len(s)]
    /\ \A i \in 1 .. Len(s) :
        /\ m.next[s[i]] = IF i = Len(s) THEN Null ELSE s[i + 1]
        /\ m.pre[s[i]] = IF i = 1 THEN Null ELSE s[i - 1]

\* Nothing but the nodes of s and those of S has been written.
LeavesOthers(m, new, s, S) ==
    \A n \in Nodes \ (Range(s) \cup S) : new.pre[n] = m.pre[n] /\ new.next[n] = m.next[n]
=============================================================================
