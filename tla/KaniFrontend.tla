----------------------------- MODULE KaniFrontend -----------------------------
(***************************************************************************)
(* extract_frontend of rust_prover_tools/kani_archive.py: the members of   *)
(* the frontend archive (cargo-kani and kani) are copied to pending files  *)
(* and then published together.  Publishing a member moves the executable  *)
(* that is there aside and renames the pending file over its name; a       *)
(* failure rolls the members already published back.                       *)
(*                                                                         *)
(* The install directory is three files for each member: the executable    *)
(* itself, .<name>.download and .<name>.previous.  A file is None, the     *)
(* version it belongs to, or a partial copy.  Every file-system call may   *)
(* fail, KeyboardInterrupt (which no except OSError catches) and SIGKILL   *)
(* may come between any two of them, and the extraction may be run again.  *)
(* One process at a time installs into a directory.                        *)
(***************************************************************************)
EXTENDS Integers

CONSTANTS N,          \* number of members (KANI_FRONTEND_MEMBERS has two)
          Versions,   \* releases whose executables may be in the directory
          New,        \* the pinned release
          MaxFaults   \* bound on failures, interrupts and crashes

Member == 1..N
None == "none"
Partial == "partial"
File == Versions \cup {None, Partial}

ASSUME FrontendAssumption == /\ N \in Nat \ {0}
                             /\ MaxFaults \in Nat
                             /\ New \in Versions
                             /\ None \notin Versions
                             /\ Partial \notin Versions

VARIABLES target,      \* the executable under each member's name
          pending,     \* .<name>.download
          previous,    \* .<name>.previous
          pc,          \* where extract_frontend is
          k,           \* the member its loop is at
          registered,  \* members whose pending file is registered
          backup,      \* members whose executable this run moved aside
          failing,     \* an exception is on its way out
          start,       \* history: the executables when this run began
          cut,         \* history: publication was interrupted, or a rollback
                       \* step failed and was suppressed, in this run
          faults       \* failures so far

files == <<target, pending, previous>>
vars == <<target, pending, previous, pc, k, registered, backup, failing, start,
          cut, faults>>

Resting == {"idle", "installed", "raised"}
Extracting == {"extract", "copy"}
Publishing == {"aside", "replace", "restore", "rollback"}
Running == Extracting \cup Publishing \cup {"backups", "discard"}

Set(v) == [m \in Member |-> v]

\* A directory with any executables of one or several releases, or none.
Init == /\ target \in [Member -> Versions \cup {None}]
        /\ pending = Set(None)
        /\ previous = Set(None)
        /\ pc = "idle"
        /\ k = 1
        /\ registered = 0
        /\ backup = Set(FALSE)
        /\ failing = FALSE
        /\ start = target
        /\ cut = FALSE
        /\ faults = 0

Fault == faults < MaxFaults /\ faults' = faults + 1

At(stage, m) == pc' = stage /\ k' = m

Begin == /\ pc \in Resting
         /\ At("extract", 1)
         /\ registered' = 0
         /\ backup' = Set(FALSE)
         /\ failing' = FALSE
         /\ start' = target
         /\ cut' = FALSE
         /\ UNCHANGED <<files, faults>>

\* Mutant: a member is opened under its own name.
OpenMemberInPlace == /\ pc = "extract"
                     /\ At("copy", k)
                     /\ registered' = k
                     /\ target' = [target EXCEPT ![k] = Partial]
                     /\ UNCHANGED <<pending, previous, backup, failing, start, cut,
                                    faults>>

\* Mutant: the pending file must not exist, and is not registered if it does.
OpenMemberExclusive ==
    /\ pc = "extract"
    /\ IF pending[k] = None
       THEN At("copy", k) /\ registered' = k /\ UNCHANGED failing
       ELSE At("discard", 1) /\ failing' = TRUE /\ UNCHANGED registered
    /\ pending' = [pending EXCEPT ![k] = Partial]
    /\ UNCHANGED <<target, previous, backup, start, cut, faults>>

\* The member is found, its pending file registered and then opened.
OpenMember == /\ pc = "extract"
              /\ At("copy", k)
              /\ registered' = k
              /\ pending' = [pending EXCEPT ![k] = Partial]
              /\ UNCHANGED <<target, previous, backup, failing, start, cut, faults>>

\* _copy_member returns; after the last member publication begins.
CopyMember == /\ pc = "copy"
              /\ pending' = [pending EXCEPT ![k] = New]
              /\ IF k < N THEN At("extract", k + 1) ELSE At("aside", 1)
              /\ UNCHANGED <<target, previous, registered, backup, failing, start,
                             cut, faults>>

\* Mutant: the executable is unlinked, not moved aside.
MoveAsideUnlinks ==
    /\ pc = "aside"
    /\ At("replace", k)
    /\ backup' = [backup EXCEPT ![k] = FALSE]
    /\ target' = [target EXCEPT ![k] = None]
    /\ UNCHANGED <<previous, pending, registered, failing, start, cut, faults>>

\* _move_original_aside.
MoveAside ==
    /\ pc = "aside"
    /\ At("replace", k)
    /\ backup' = [backup EXCEPT ![k] = target[k] # None]
    /\ IF target[k] = None
       THEN UNCHANGED <<target, previous>>
       ELSE /\ previous' = [previous EXCEPT ![k] = target[k]]
            /\ target' = [target EXCEPT ![k] = None]
    /\ UNCHANGED <<pending, registered, failing, start, cut, faults>>

\* Mutant: an error while moving aside skips the rollback.
MoveAsideFailsForGood == /\ pc = "aside"
                         /\ Fault
                         /\ At("discard", 1)
                         /\ failing' = TRUE
                         /\ UNCHANGED <<files, registered, backup, start, cut>>

\* It raises OSError: the members published so far are rolled back.
MoveAsideFails == /\ pc = "aside"
                  /\ Fault
                  /\ At("rollback", k - 1)
                  /\ UNCHANGED <<files, registered, backup, failing, start, cut>>

\* temporary.replace(target).
Replace == /\ pc = "replace"
           /\ target' = [target EXCEPT ![k] = pending[k]]
           /\ pending' = [pending EXCEPT ![k] = None]
           /\ IF k < N THEN At("aside", k + 1) ELSE At("backups", 1)
           /\ UNCHANGED <<previous, registered, backup, failing, start, cut, faults>>

ReplaceFails == /\ pc = "replace"
                /\ Fault
                /\ At("restore", k)
                /\ UNCHANGED <<files, registered, backup, failing, start, cut>>

\* Undo the publication of member k: its backup moves back, or what was
\* published under a name that was free is removed.
PutBack == IF backup[k]
           THEN /\ target' = [target EXCEPT ![k] = previous[k]]
                /\ previous' = [previous EXCEPT ![k] = None]
           ELSE target' = [target EXCEPT ![k] = None] /\ UNCHANGED previous

\* _restore_backup of the member whose rename failed; without a backup its
\* name is free and stays free.
Restore == /\ pc = "restore"
           /\ PutBack
           /\ At("rollback", k - 1)
           /\ UNCHANGED <<pending, registered, backup, failing, start, cut, faults>>

\* _roll_back of the members published before it, last first.
RollBack == /\ pc = "rollback"
            /\ k > 0
            /\ PutBack
            /\ At("rollback", k - 1)
            /\ UNCHANGED <<pending, registered, backup, failing, start, cut, faults>>

\* An OSError of either is recorded and suppressed; the rollback goes on.
UndoFails == /\ pc \in {"restore", "rollback"}
             /\ k > 0
             /\ pc = "restore" => backup[k]
             /\ Fault
             /\ cut' = TRUE
             /\ At("rollback", k - 1)
             /\ UNCHANGED <<files, registered, backup, failing, start>>

\* The exception reaches extract_frontend, which discards what is pending.
Unwind == At("discard", 1) /\ failing' = TRUE

RolledBack == /\ pc = "rollback"
              /\ k = 0
              /\ Unwind
              /\ UNCHANGED <<files, registered, backup, start, cut, faults>>

\* _discard_backup, after every member was published.
DropBackup == /\ pc = "backups"
              /\ previous' = IF backup[k] THEN [previous EXCEPT ![k] = None] ELSE previous
              /\ IF k < N THEN At("backups", k + 1) ELSE At("discard", 1)
              /\ UNCHANGED <<target, pending, registered, backup, failing, start,
                             cut, faults>>

\* A backup that cannot be removed fails the extraction; nothing is undone.
DropBackupFails == /\ pc = "backups"
                   /\ backup[k]
                   /\ Fault
                   /\ Unwind
                   /\ UNCHANGED <<files, registered, backup, start, cut>>

\* An invalid archive or member, an OSError, or KeyboardInterrupt, before
\* anything is published.
ExtractFails == /\ pc \in Extracting
                /\ Fault
                /\ Unwind
                /\ UNCHANGED <<files, registered, backup, start, cut>>

\* KeyboardInterrupt while publishing: except OSError does not catch it, so
\* nothing is rolled back.
Interrupt == /\ pc \in Publishing \cup {"backups"}
             /\ Fault
             /\ Unwind
             /\ cut' = (cut \/ pc \in Publishing)
             /\ UNCHANGED <<files, registered, backup, start>>

\* Mutant: files that were never registered are discarded too.
DiscardUnregistered == /\ pc = "discard"
                       /\ pending' = [pending EXCEPT ![k] = None]
                       /\ At("discard", k + 1)
                       /\ UNCHANGED <<target, previous, registered, backup, failing,
                                      start, cut, faults>>

\* _discard_pending: one attempt for each registered file.
Discard == /\ pc = "discard"
           /\ k <= registered
           /\ pending' = [pending EXCEPT ![k] = None]
           /\ At("discard", k + 1)
           /\ UNCHANGED <<target, previous, registered, backup, failing, start, cut,
                          faults>>

\* A removal fails: an error of its own unless another is on its way.
DiscardFails == /\ pc = "discard"
                /\ k <= registered
                /\ Fault
                /\ failing' = TRUE
                /\ At("discard", k + 1)
                /\ UNCHANGED <<files, registered, backup, start, cut>>

Finish == /\ pc = "discard"
          /\ k > registered
          /\ At(IF failing THEN "raised" ELSE "installed", 1)
          /\ UNCHANGED <<files, registered, backup, failing, start, cut, faults>>

\* SIGKILL, or an interrupt of the clean-up: the files stay as they are.
Crash == /\ pc \in Running
         /\ Fault
         /\ At("idle", 1)
         /\ UNCHANGED <<files, registered, backup, failing, start, cut>>

Progress == \/ Begin \/ OpenMember \/ CopyMember \/ MoveAside \/ Replace \/ Restore
            \/ RollBack \/ RolledBack \/ DropBackup \/ Discard \/ Finish

Trouble == \/ ExtractFails \/ MoveAsideFails \/ ReplaceFails \/ UndoFails
           \/ DropBackupFails \/ DiscardFails \/ Interrupt \/ Crash

Next == Progress \/ Trouble

Spec == Init /\ [][Next]_vars

\* A running process keeps running and a failed installation is run again.
FairSpec == Spec /\ WF_vars(Progress)

--------------------------------------------------------------------------------

TypeOK == /\ target \in [Member -> File]
          /\ pending \in [Member -> {None, Partial, New}]
          /\ previous \in [Member -> File]
          /\ pc \in Resting \cup Running
          /\ k \in 0..(N + 1)
          /\ registered \in 0..N
          /\ backup \in [Member -> BOOLEAN]
          /\ failing \in BOOLEAN
          /\ start \in [Member -> File]
          /\ cut \in BOOLEAN
          /\ faults \in 0..MaxFaults

\* "a truncated copy is never runnable" (kani_archive.py:4): no crash, failure
\* or retry puts a partial file under an executable's name.
NeverRunnablePartial == \A m \in Member : Partial \notin {target[m], previous[m]}

\* "a failure in the second publication restores the first so the install
\* directory keeps one consistent set" (kani_archive.py:5-7): a run that raises
\* leaves the executables it found, whatever mixture earlier crashes made of
\* them, or all the new ones, unless the rollback itself was cut short.
AllOrNothing == pc = "raised" /\ ~cut => target \in {start, Set(New)}

\* A run that returns has published the whole new set and left nothing of its
\* own behind, whatever it started from.
InstalledIsWhole ==
    pc = "installed" => /\ target = Set(New)
                        /\ pending = Set(None)
                        /\ \A m \in Member : backup[m] => previous[m] = None

\* Even when the rollback is cut short, no executable found by the run is
\* gone before the whole new set is in place: it is under its name or aside.
NoMemberLost == pc # "idle" =>
    \/ target = Set(New)
    \/ \A m \in Member : start[m] \in {None, target[m], previous[m]}

\* A rollback that ran to its end leaves no backup of its own behind: what was
\* moved aside is back under its name, once.
RolledBackClean == pc = "raised" /\ ~cut /\ target # Set(New) =>
    \A m \in Member : backup[m] => previous[m] = None
================================================================================
