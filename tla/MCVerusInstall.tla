----------------------------- MODULE MCVerusInstall -----------------------------
(***************************************************************************)
(* Instances of VerusInstall: an archive that unpacks to verus-<target>    *)
(* and, in a shared install directory, two of other layouts, which only    *)
(* the fallback of locate_extracted_verus_dir finds.                       *)
(***************************************************************************)
EXTENDS VerusInstall

LayoutByName == [v \in Versions |-> CASE v = "v1" -> "verus-x86-linux"
                                      [] v = "v2" -> "verus-v2"
                                      [] OTHER -> "verus-v3"]

\* Every release of the pinned target unpacks to verus-<target>.
LayoutOfTarget == [v \in Versions |-> Exact]
================================================================================
