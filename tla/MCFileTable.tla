---------------------------- MODULE MCFileTable ----------------------------
(***************************************************************************)
(* Two processes with two descriptors each, two files, two devices: files  *)
(* shared by dup and by fork, tables full, both processes closing.         *)
(***************************************************************************)
EXTENDS FileTable
=============================================================================
