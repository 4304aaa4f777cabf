------------------------------ MODULE MCMutex ------------------------------
(***************************************************************************)
(* Two mutexes, one locked inside the other, as task_table_mutex and the   *)
(* page allocator's mutex are by sys_wait.                                 *)
(***************************************************************************)
EXTENDS Mutex
CONSTANTS table, alloc

NestedPair == {<<table, alloc>>}
=============================================================================
