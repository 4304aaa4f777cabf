------------------------------ MODULE MCSched ------------------------------
(***************************************************************************)
(* The scheduler on a small instance for TLC, and the functions of List    *)
(* against the sequences the scheduler takes lists for, on every list of   *)
(* up to three nodes (SchedProofs proves it for all).                      *)
(***************************************************************************)
EXTENDS Sched, List

Lists == UNION {{s \in [1 .. n -> Nodes] : IsInjective(s)} : n \in 0 .. 3}

\* A memory in which s is a list and the other nodes are on none.
Layout(s) ==
    LET At(k) == IF k \in DOMAIN s THEN s[k] ELSE Null
        Neighbour(n, d) == IF n \in Range(s)
                           THEN At((CHOOSE k \in DOMAIN s : s[k] = n) + d) ELSE Null
    IN  [first |-> At(1), last |-> At(Len(s)), count |-> Len(s),
         pre |-> [n \in Nodes |-> Neighbour(n, -1)], next |-> [n \in Nodes |-> Neighbour(n, 1)]]

ASSUME ListsAreSequences ==
    \A s \in Lists :
        LET m == Layout(s) IN
        /\ m \in Memories /\ Represents(m, s)
        /\ Represents(list_init(m), <<>>)
        /\ \A n \in Nodes \ Range(s) :
            /\ Represents(list_insert_last(m, n), Append(s, n))
            /\ Represents(list_insert_first(m, n), <<n>> \o s)
        /\ Represents(list_remove_first(m), IF s = <<>> THEN s ELSE Tail(s))
        /\ \A n \in Range(s) : Represents(list_remove(m, n), ListRemove(s, n))

\* What happens to task_manager.task_list: a task_t is cleared with its all_node still linked
\* (task.c:907); linked again as the last one (task.c:116), the node is its own successor.
ASSUME RelinkedNodeLoops ==
    \A s \in Lists \ {<<>>} :
        LET n == s[Len(s)] IN
        list_insert_last(list_node_init(Layout(s), n), n).next[n] = n
=============================================================================
