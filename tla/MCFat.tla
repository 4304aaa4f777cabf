------------------------------- MODULE MCFat -------------------------------
(***************************************************************************)
(* A disk of three clusters, two directory entries, two names and two      *)
(* files open at a time, opened as fopen does with "r", "r+" and "w".      *)
(***************************************************************************)
EXTENDS Fat, TLC

Interchangeable == Permutations(Files) \cup Permutations(Names)

\* Nobody opens a file that has contents: every write is an append.
AppendModes == {{"WRONLY", "CREAT", "TRUNC"}}

FopenModes == {{}, {"RDWR"}, {"WRONLY", "CREAT", "TRUNC"}}
=============================================================================
