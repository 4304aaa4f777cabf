----------------------------- MODULE MCTaskLife -----------------------------
(***************************************************************************)
(* The first task and two slots of the task table: a parent with two       *)
(* children, or a child with a child of its own that it leaves behind.     *)
(***************************************************************************)
EXTENDS TaskLife
=============================================================================
