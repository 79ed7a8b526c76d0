------------------------------- MODULE Z3Install -------------------------------
(***************************************************************************)
(* install_z3 of rust_prover_tools/z3.py: inspect the installation, fetch  *)
(* the pinned archive, extract its z3 member through .z3.download, rename  *)
(* it over the binary, and then record the version in a marker file        *)
(* through a pending file of the marker's own.  Two renames, two files: a  *)
(* run may end between them.                                               *)
(*                                                                         *)
(* The default install directory belongs to one version; --install-dir     *)
(* lets releases of the tool with different pins share one, so each run is *)
(* made by a tool with some pin of Versions.  One run at a time.  The      *)
(* archive download is download_pinned, taken at what VerifiedStore        *)
(* promises: it returns with the whole archive or raises.                  *)
(***************************************************************************)
EXTENDS Integers

CONSTANTS Versions,    \* pins of the tools that install into the directory
          MaxFaults    \* bound on failures and crashes

None == "none"
Partial == "partial"      \* a file cut short
Foreign == "foreign"      \* a file no tool installed

ASSUME Z3Assumption == /\ MaxFaults \in Nat
                       /\ Versions # {}
                       /\ Versions \cap {None, Partial, Foreign} = {}

VARIABLES binary,      \* <install_dir>/z3: whose content, execute bits
          temporary,   \* .z3.download
          marker,      \* the version the marker names, or None
          markerTemp,  \* the marker's pending file
          tool,        \* the pin of the running tool (Z3_VERSION)
          pc,          \* where install_z3 is
          interrupted, \* history: a run ended between its renames of the
                       \* binary and of the marker, and none finished since
          faults       \* failures so far

files == <<binary, temporary, marker, markerTemp>>
vars == <<binary, temporary, marker, markerTemp, tool, pc, interrupted, faults>>

NoFile == [of |-> None, exec |-> FALSE]
Tool(v) == [of |-> v, exec |-> TRUE]

Resting == {"idle", "reused", "installed", "raised"}
Extracting == {"open", "copy", "chmod", "replace"}
Marking == {"mark", "write", "rename"}
Cleaning == {"extracted", "unextracted", "marked", "unmarked"}
BetweenRenames == {"extracted", "unmarked"} \cup Marking

\* A directory without an installation, possibly with someone else's z3.
Init == /\ binary \in {NoFile} \cup [of : {Foreign}, exec : BOOLEAN]
        /\ temporary = NoFile
        /\ marker = None
        /\ markerTemp = None
        /\ tool \in Versions
        /\ pc = "idle"
        /\ interrupted = FALSE
        /\ faults = 0

\* A run ends without having installed.
Fault == faults < MaxFaults /\ faults' = faults + 1

End(stage) == /\ pc' = stage
              /\ interrupted' = (interrupted \/ pc \in BetweenRenames)

Begin == /\ pc \in Resting
         /\ tool' \in Versions
         /\ pc' = "inspect"
         /\ UNCHANGED <<files, interrupted, faults>>

\* _is_installed: an executable regular file and a marker naming the pin.
IsInstalled == binary.exec /\ marker = tool

Inspect == /\ pc = "inspect"
           /\ pc' = IF IsInstalled THEN "reused" ELSE "download"
           /\ UNCHANGED <<files, tool, interrupted, faults>>

\* download_pinned returns.
Download == /\ pc = "download"
            /\ pc' = "open"
            /\ UNCHANGED <<files, tool, interrupted, faults>>

\* Inspection or download raises: nothing of this run is in the directory.
EarlyFailure == /\ pc \in {"inspect", "download"}
                /\ Fault
                /\ End("raised")
                /\ UNCHANGED <<files, tool>>

\* Mutant: the temporary file must not exist.
OpenTemporaryExclusive ==
    /\ pc = "open"
    /\ IF temporary = NoFile
       THEN temporary' = [temporary EXCEPT !.of = Partial] /\ pc' = "copy"
       ELSE pc' = "raised" /\ UNCHANGED temporary
    /\ UNCHANGED <<binary, marker, markerTemp, tool, interrupted, faults>>

\* _write_z3_member: the member is found and open("wb") creates or truncates
\* the temporary file, which keeps the mode a crashed run gave it.
OpenTemporary == /\ pc = "open"
                 /\ temporary' = [temporary EXCEPT !.of = Partial]
                 /\ pc' = "copy"
                 /\ UNCHANGED <<binary, marker, markerTemp, tool, interrupted, faults>>

\* Mutant: the member is copied over the binary itself, block by block.
CopyMemberInPlace ==
    /\ pc = "copy"
    /\ \/ binary' = [binary EXCEPT !.of = Partial] /\ pc' = "copy"
       \/ binary' = [binary EXCEPT !.of = tool] /\ pc' = "chmod"
    /\ temporary' = [temporary EXCEPT !.of = tool]
    /\ UNCHANGED <<marker, markerTemp, tool, interrupted, faults>>

CopyMember == /\ pc = "copy"
              /\ temporary' = [temporary EXCEPT !.of = tool]
              /\ pc' = "chmod"
              /\ UNCHANGED <<binary, marker, markerTemp, tool, interrupted, faults>>

\* Mutant: the execute bits are left to the archive.
ChmodSkipped == /\ pc = "chmod"
                /\ pc' = "replace"
                /\ UNCHANGED <<files, tool, interrupted, faults>>

Chmod == /\ pc = "chmod"
         /\ temporary' = [temporary EXCEPT !.exec = TRUE]
         /\ pc' = "replace"
         /\ UNCHANGED <<binary, marker, markerTemp, tool, interrupted, faults>>

\* temporary.replace(binary).
Replace == /\ pc = "replace"
           /\ binary' = temporary
           /\ temporary' = NoFile
           /\ pc' = "extracted"
           /\ UNCHANGED <<marker, markerTemp, tool, interrupted, faults>>

\* An exception in the with block of _temporary_file: the archive or its
\* member is bad, an OSError, or KeyboardInterrupt.
ExtractFails == /\ pc \in Extracting
                /\ Fault
                /\ pc' = "unextracted"
                /\ UNCHANGED <<files, tool, interrupted>>

\* Mutant: an existing marker is believed.
DiscardTemporaryThenReturn ==
    /\ pc \in {"extracted", "unextracted"}
    /\ temporary' = NoFile
    /\ pc' = IF pc = "unextracted" THEN "raised"
             ELSE IF marker = None THEN "mark" ELSE "marked"
    /\ UNCHANGED <<binary, marker, markerTemp, tool, interrupted, faults>>

\* _discard_temporary on the way out of the block, both ways.
DiscardTemporary == /\ pc \in {"extracted", "unextracted"}
                    /\ temporary' = NoFile
                    /\ pc' = IF pc = "extracted" THEN "mark" ELSE "raised"
                    /\ UNCHANGED <<binary, marker, markerTemp, tool, interrupted, faults>>

\* _write_marker: write_text opens the pending file, then writes it.
OpenMarker == /\ pc = "mark"
              /\ markerTemp' = Partial
              /\ pc' = "write"
              /\ UNCHANGED <<binary, temporary, marker, tool, interrupted, faults>>

WriteMarker == /\ pc = "write"
               /\ markerTemp' = tool
               /\ pc' = "rename"
               /\ UNCHANGED <<binary, temporary, marker, tool, interrupted, faults>>

RenameMarker == /\ pc = "rename"
                /\ marker' = markerTemp
                /\ markerTemp' = None
                /\ interrupted' = FALSE
                /\ pc' = "marked"
                /\ UNCHANGED <<binary, temporary, tool, faults>>

\* write_text or the rename raises.
MarkFails == /\ pc \in Marking
             /\ Fault
             /\ pc' = "unmarked"
             /\ UNCHANGED <<files, tool, interrupted>>

DiscardMarkerTemp == /\ pc \in {"marked", "unmarked"}
                     /\ markerTemp' = None
                     /\ End(IF pc = "marked" THEN "installed" ELSE "raised")
                     /\ UNCHANGED <<binary, temporary, marker, tool, faults>>

\* The clean-up raises: the run fails, with its first failure if it had one.
CleanupFails == /\ pc \in Cleaning
                /\ Fault
                /\ End("raised")
                /\ UNCHANGED <<files, tool>>

Crash == /\ pc \notin Resting
         /\ Fault
         /\ End("idle")
         /\ UNCHANGED <<files, tool>>

Progress == \/ Begin \/ Inspect \/ Download \/ OpenTemporary \/ CopyMember \/ Chmod
            \/ Replace \/ DiscardTemporary \/ OpenMarker \/ WriteMarker
            \/ RenameMarker \/ DiscardMarkerTemp

Trouble == EarlyFailure \/ ExtractFails \/ MarkFails \/ CleanupFails \/ Crash

Next == Progress \/ Trouble

Spec == Init /\ [][Next]_vars

\* A running process keeps running and a job is run again.
FairSpec == Spec /\ WF_vars(Progress)

--------------------------------------------------------------------------------

TypeOK == /\ binary \in [of : Versions \cup {None, Foreign}, exec : BOOLEAN]
          /\ temporary \in [of : Versions \cup {None, Partial}, exec : BOOLEAN]
          /\ marker \in Versions \cup {None}
          /\ markerTemp \in Versions \cup {None, Partial}
          /\ tool \in Versions
          /\ pc \in Resting \cup {"inspect", "download"} \cup Extracting \cup Marking
                    \cup Cleaning
          /\ interrupted \in BOOLEAN
          /\ faults \in 0..MaxFaults

\* What a run reports as already installed is a whole executable a tool
\* installed (_is_installed): never a partial copy, never someone else's z3,
\* whatever crashed or failed before.
ReusedIsWhole == pc = "reused" => \E v \in Versions : binary = Tool(v)

\* It is the running tool's own version, even in a directory several versions
\* share, unless a run ended between its two renames.
ReuseIsExact == pc = "reused" => binary = Tool(tool) \/ interrupted

\* A run that returns has installed its version, recorded it, and left neither
\* temporary file behind.
InstalledIsRecorded == pc = "installed" => /\ binary = Tool(tool)
                                           /\ marker = tool
                                           /\ temporary = NoFile
                                           /\ markerTemp = None

\* Running the installer again after any failure succeeds in the end: what a
\* failed run left behind never blocks a later one.
Recovers == []<>(pc \in {"reused", "installed"})

\* The installer "records the installed version beside the binary. A repeated
\* run reuses a marked installation" (docs/users-guide.md:293-294): a run that
\* says its version is already installed has found that version. Not so after
\* a run was cut short between the renames of the binary and the marker.
MarkerRecordsInstalled == pc = "reused" => binary = Tool(tool)
================================================================================
