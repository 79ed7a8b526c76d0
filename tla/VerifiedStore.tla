----------------------------- MODULE VerifiedStore -----------------------------
(***************************************************************************)
(* What download_pinned (rust_prover_tools/downloads.py) promises about    *)
(* the file at an asset's final path, with no pending file, no transfer    *)
(* and no file system in sight: the path holds what it held before the     *)
(* call, or the pinned asset, and a call that returns leaves the asset     *)
(* there.  DownloadStore is shown to implement this module.                *)
(***************************************************************************)

CONSTANTS Procs,    \* processes that may call download_pinned
          Pinned,   \* the contents whose SHA-256 is the asset's pin
          Initial   \* what the path may hold before the first call

VARIABLES stored,   \* the contents at the final path
          call      \* the state of each process's call

storeVars == <<stored, call>>

StoreInit == /\ stored \in Initial
             /\ call = [p \in Procs |-> "idle"]

Move(p, from, to) == /\ call[p] \in from
                     /\ call' = [call EXCEPT ![p] = to]

Call(p) == Move(p, {"idle", "returned", "raised"}, "working") /\ UNCHANGED stored

\* The asset appears at the path whole, in one step.
Replace(p) == /\ call[p] = "working"
              /\ stored' = Pinned
              /\ UNCHANGED call

Return(p) == /\ stored = Pinned
             /\ Move(p, {"working"}, "returned")
             /\ UNCHANGED stored

Raise(p) == Move(p, {"working"}, "raised") /\ UNCHANGED stored

Die(p) == Move(p, {"working"}, "idle") /\ UNCHANGED stored

StoreNext == \E p \in Procs : Call(p) \/ Replace(p) \/ Return(p) \/ Raise(p) \/ Die(p)

StoreSpec == StoreInit /\ [][StoreNext]_storeVars
================================================================================
