---------------------------- MODULE MCDownloadStore ----------------------------
(***************************************************************************)
(* Small instances of DownloadStore: one installer with four faults        *)
(* (store.cfg), two installers without any (store_shared.cfg), which       *)
(* neither their names nor the inodes' tell apart.                         *)
(***************************************************************************)
EXTENDS DownloadStore, TLC

Symmetry == Permutations(Procs) \cup Permutations(Inodes)
================================================================================
