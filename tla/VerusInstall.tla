------------------------------ MODULE VerusInstall ------------------------------
(***************************************************************************)
(* install_verus of rust_prover_tools/verus/install.py: an installation    *)
(* whose executable is there is reused; otherwise the pinned archive is    *)
(* downloaded and unpacked by unzip into the install directory itself, the *)
(* directory it made is located, and the tree at <install_dir>/verus is    *)
(* removed and replaced by it.                                             *)
(*                                                                         *)
(* A tree is its directory, the verus executable and the rest of the       *)
(* release; unzip gives the executable its mode when it has written it     *)
(* whole.  The default install directory belongs to one version;           *)
(* --install-dir and VERUS_INSTALL_DIR let pins share one, so each run has *)
(* some pin of Versions.  One run at a time (install.py:100-103).  What    *)
(* download_pinned promises is VerifiedStore's.  unzip is external: it     *)
(* asks before it overwrites, is told to replace or to keep the file, or   *)
(* finds its input at an end, when it keeps every file and exits non-zero. *)
(***************************************************************************)
EXTENDS Integers, FiniteSets

CONSTANTS Versions,   \* pins of the runs that share the install directory
          Dirs,       \* names the release archives unpack to, all verus-*
          Exact,      \* verus-<target>
          Layout,     \* the name each version's archive unpacks to
          MaxFaults   \* bound on failures and crashes

None == "none"
Cut == "cut"
Files == {"bin", "rest"}

ASSUME VerusAssumption == /\ MaxFaults \in Nat
                          /\ Versions # {}
                          /\ Versions \cap {None, Cut} = {}
                          /\ Exact \in Dirs
                          /\ Layout \in [Versions -> Dirs]

VARIABLES final,      \* <install_dir>/verus
          extracted,  \* the verus-* directories beside it
          pc,         \* where install_verus is
          pin,        \* the version this run is pinned to
          left,       \* files unzip has yet to reach
          writing,    \* the file unzip has open, or None
          refused,    \* unzip found its input at an end
          located,    \* what locate_extracted_verus_dir returned
          leftover,   \* history: this run began beside a verus-* directory
          mixed,      \* history: final came from such a run
          faults

run == <<left, writing, refused, located>>
vars == <<final, extracted, pc, pin, run, leftover, mixed, faults>>

NoTree == [dir |-> FALSE, bin |-> None, rest |-> None]
Whole(v) == [dir |-> TRUE, bin |-> v, rest |-> v]
Tree == {t \in [dir : BOOLEAN, bin : Versions \cup {None, Cut},
                rest : Versions \cup {None, Cut}] : t.dir \/ t = NoTree}

Resting == {"idle", "reused", "installed", "raised"}
Running == {"inspect", "download", "unpack", "unzip", "locate", "clear", "move"}

\* Nothing, or a partial installation without a runnable executable.
Init == /\ final \in {t \in Tree : t.bin \notin Versions}
        /\ extracted = [d \in Dirs |-> NoTree]
        /\ pc = "idle"
        /\ pin \in Versions
        /\ left = {}
        /\ writing = None
        /\ refused = FALSE
        /\ located = Exact
        /\ leftover = FALSE
        /\ mixed = FALSE
        /\ faults = 0

Present == {d \in Dirs : extracted[d].dir}

Begin == /\ pc \in Resting
         /\ pin' \in Versions
         /\ leftover' = (Present # {})
         /\ pc' = "inspect"
         /\ UNCHANGED <<final, extracted, run, mixed, faults>>

\* Mutant: an installation without its executable is refused.
InspectStrictly == /\ pc = "inspect"
                   /\ pc' = IF final.bin \in Versions THEN "reused"
                            ELSE IF final.dir THEN "raised" ELSE "download"
                   /\ UNCHANGED <<final, extracted, pin, run, leftover, mixed, faults>>

\* _has_installed_binary: a regular file with an execute bit.  Its version is
\* not looked at.
Inspect == /\ pc = "inspect"
           /\ pc' = IF final.bin \in Versions THEN "reused" ELSE "download"
           /\ UNCHANGED <<final, extracted, pin, run, leftover, mixed, faults>>

\* verus_archive, mkdir, the temporary directory and download_archive.
Download == /\ pc = "download"
            /\ pc' = "unpack"
            /\ left' = Files
            /\ writing' = None
            /\ refused' = FALSE
            /\ UNCHANGED <<final, extracted, pin, located, leftover, mixed, faults>>

Unpacked == Layout[pin]

\* unzip makes the archive's directory.
Unpack == /\ pc = "unpack"
          /\ extracted' = [extracted EXCEPT ![Unpacked].dir = TRUE]
          /\ pc' = "unzip"
          /\ UNCHANGED <<final, pin, run, leftover, mixed, faults>>

SetFile(f, content) == extracted' = [extracted EXCEPT ![Unpacked] = [@ EXCEPT ![f] = content]]

\* unzip opens the next file, which was not there or is to be replaced.
OpenFile == /\ pc = "unzip"
            /\ writing = None
            /\ \E f \in left : SetFile(f, Cut) /\ writing' = f /\ left' = left \ {f}
            /\ UNCHANGED <<final, pc, pin, refused, located, leftover, mixed, faults>>

WriteFile == /\ pc = "unzip"
             /\ writing # None
             /\ SetFile(writing, pin)
             /\ writing' = None
             /\ UNCHANGED <<final, pc, pin, left, refused, located, leftover, mixed,
                            faults>>

\* The next file was there and is kept: an answer, or the end of the input.
KeepFile == /\ pc = "unzip"
            /\ writing = None
            /\ \E f \in left : extracted[Unpacked][f] # None /\ left' = left \ {f}
            /\ refused' \in {refused, TRUE}
            /\ UNCHANGED <<final, extracted, pc, pin, writing, located, leftover, mixed,
                           faults>>

\* run_checked: a non-zero exit raises CommandFailedError.
UnzipExits == /\ pc = "unzip"
              /\ left = {}
              /\ writing = None
              /\ pc' = IF refused THEN "raised" ELSE "locate"
              /\ UNCHANGED <<final, extracted, pin, run, leftover, mixed, faults>>

\* locate_extracted_verus_dir: the exact name, else the only other one.
Find == \/ Exact \in Present /\ located' = Exact
        \/ /\ Exact \notin Present
           /\ Cardinality(Present) = 1
           /\ located' \in Present

\* Mutant: what is at the final path is not removed.
LocateOnly == /\ pc = "locate"
              /\ Find
              /\ pc' = "move"
              /\ UNCHANGED <<final, extracted, pin, left, writing, refused, leftover,
                             mixed, faults>>

Locate == /\ pc = "locate"
          /\ Find
          /\ pc' = IF final.dir THEN "clear" ELSE "move"
          /\ UNCHANGED <<final, extracted, pin, left, writing, refused, leftover, mixed,
                         faults>>

Ambiguous == /\ pc = "locate"
             /\ Exact \notin Present
             /\ Cardinality(Present) # 1
             /\ pc' = "raised"
             /\ UNCHANGED <<final, extracted, pin, run, leftover, mixed, faults>>

\* shutil.rmtree(final_dir), a file at a time and the directory last.
RemoveFile == /\ pc = "clear"
              /\ \E f \in Files : /\ final[f] # None
                                  /\ final' = [final EXCEPT ![f] = None]
              /\ UNCHANGED <<extracted, pc, pin, run, leftover, mixed, faults>>

\* Mutant: the directory goes first.
RemoveDirectoryFirst == /\ pc = "clear"
                        /\ final' = [final EXCEPT !.dir = FALSE]
                        /\ pc' = "move"
                        /\ UNCHANGED <<extracted, pin, run, leftover, mixed, faults>>

RemoveDirectory == /\ pc = "clear"
                   /\ \A f \in Files : final[f] = None
                   /\ final' = NoTree
                   /\ pc' = "move"
                   /\ UNCHANGED <<extracted, pin, run, leftover, mixed, faults>>

\* Mutant: the located tree is copied, its executable first.
CopyTree == /\ pc = "move"
            /\ IF final.bin = None
               THEN /\ final' = [extracted[located] EXCEPT !.rest = None]
                    /\ UNCHANGED <<extracted, pc, mixed>>
               ELSE /\ final' = extracted[located]
                    /\ extracted' = [extracted EXCEPT ![located] = NoTree]
                    /\ mixed' = leftover
                    /\ pc' = "installed"
            /\ UNCHANGED <<pin, run, leftover, faults>>

\* shutil.move(extracted_dir, final_dir): a rename, or into a directory that is
\* there.
Move == /\ pc = "move"
        /\ final' = IF final.dir THEN final ELSE extracted[located]
        /\ extracted' = [extracted EXCEPT ![located] = NoTree]
        /\ mixed' = leftover
        /\ pc' = "installed"
        /\ UNCHANGED <<pin, run, leftover, faults>>

\* A step raises (OSError, ProverToolError, KeyboardInterrupt; unzip fails) or
\* the process is killed: nothing is cleaned up in the install directory.
Stops == /\ pc \in Running
         /\ faults < MaxFaults
         /\ faults' = faults + 1
         /\ pc' \in {"raised", "idle"}
         /\ UNCHANGED <<final, extracted, pin, run, leftover, mixed>>

Progress == \/ Begin \/ Inspect \/ Download \/ Unpack \/ OpenFile \/ WriteFile
            \/ KeepFile \/ UnzipExits \/ Locate \/ Ambiguous \/ RemoveFile
            \/ RemoveDirectory \/ Move

Next == Progress \/ Stops

Spec == Init /\ [][Next]_vars

\* A running process keeps running, unzip's questions are answered, and a job
\* is run again.
FairSpec == Spec /\ WF_vars(Progress)

--------------------------------------------------------------------------------

TypeOK == /\ final \in Tree
          /\ extracted \in [Dirs -> Tree]
          /\ pc \in Resting \cup Running
          /\ pin \in Versions
          /\ left \subseteq Files
          /\ writing \in Files \cup {None}
          /\ refused \in BOOLEAN
          /\ located \in Dirs
          /\ leftover \in BOOLEAN
          /\ mixed \in BOOLEAN
          /\ faults \in 0..MaxFaults

\* "Remove stale partial installs so the final tree is deterministic"
\* (install.py:141): a run that began without a verus-* directory in its way
\* installs the pinned release whole, whatever stale tree was there.
InstalledIsPinned == pc = "installed" /\ ~leftover => final = Whole(pin)

\* The executable alone decides about reuse, yet no crash inside rmtree, unzip
\* or the move makes a run reuse half a tree: an executable is never removed
\* and only moves in with its tree (_has_installed_binary).
ReusedIsWhole == pc = "reused" /\ ~mixed => \E v \in Versions : final = Whole(v)

\* Whatever a failed run left at the final path, runs that are repeated succeed
\* in the end, unless a verus-* directory stays in their way for good.
Recovers == []<>(pc \in {"reused", "installed"}) \/ <>[]leftover

\* "Pinned, not guessed: prover versions come from files in the consuming
\* repository [...] so every machine and every CI run installs the same build"
\* (README.md:18-20): a run that reports its pinned version as installed, now
\* or already, leaves that version there.
ReportedIsPinned == pc \in {"reused", "installed"} => final = Whole(pin)
================================================================================
