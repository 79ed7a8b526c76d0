--------------------------- MODULE Z3Install_proofs ---------------------------
(***************************************************************************)
(* Proofs about Z3Install for any set of versions and any number of        *)
(* faults.  The invariant says what each stage of a run has in hand, and   *)
(* when the marker and the binary may disagree.                            *)
(***************************************************************************)
EXTENDS Z3Install, TLAPS

Replaced == BetweenRenames \cup {"marked", "installed"}

\* What a run has made by each stage.
Made == /\ pc \in {"chmod", "replace"} => temporary.of = tool
        /\ pc = "replace" => temporary = Tool(tool)
        /\ pc \in Replaced => binary = Tool(tool)
        /\ pc \in Replaced \ {"unmarked"} => temporary = NoFile
        /\ pc = "rename" => markerTemp = tool
        /\ pc \in {"marked", "installed"} => marker = tool
        /\ pc = "installed" => markerTemp = None

\* A marker is only ever written after a binary was published.
MarkedIsWhole == marker # None => \E v \in Versions : binary = Tool(v)

\* Outside the window between the two renames they agree.
Agree == ~interrupted /\ pc \notin BetweenRenames /\ marker # None => binary = Tool(marker)

\* A run that reuses found its own marker.
ReuseMarked == pc = "reused" => marker = tool

IInv == TypeOK /\ Made /\ MarkedIsWhole /\ Agree /\ ReuseMarked

\* Installation, failure and crash keep the invariant.
LEMMA Invariance == Spec => []IInv
<1> USE Z3Assumption DEF Z3Assumption, NoFile, Tool, None, Partial, Foreign, files,
        Resting, Extracting, Marking, Cleaning, BetweenRenames, Replaced
<1>1. Init => IInv
  <2> SUFFICES ASSUME Init PROVE IInv
    OBVIOUS
  <2>1. binary \in [of : Versions \cup {None, Foreign}, exec : BOOLEAN]
    <3>1. CASE binary = NoFile
      BY <3>1
    <3>2. CASE binary \in [of : {Foreign}, exec : BOOLEAN]
      BY <3>2
    <3>3. QED
      BY <3>1, <3>2 DEF Init
  <2>2. TypeOK
    <3>1. temporary \in [of : Versions \cup {None, Partial}, exec : BOOLEAN]
      BY DEF Init
    <3>2. marker \in Versions \cup {None} /\ markerTemp \in Versions \cup {None, Partial}
      BY DEF Init
    <3>3. tool \in Versions
      BY DEF Init
    <3>4. interrupted \in BOOLEAN
      BY DEF Init
    <3>5. faults \in 0..MaxFaults
      BY DEF Init
    <3>6. pc = "idle"
      BY DEF Init
    <3>7. QED
      BY <2>1, <3>1, <3>2, <3>3, <3>4, <3>5, <3>6 DEF TypeOK
  <2>3. QED
    BY <2>2 DEF Init, IInv, Made, MarkedIsWhole, Agree, ReuseMarked
<1>2. IInv /\ [Next]_vars => IInv'
  <2> SUFFICES ASSUME IInv, [Next]_vars PROVE IInv'
    OBVIOUS
  <2> USE DEF IInv
  <2>1. CASE Begin
    BY <2>1 DEF Begin, TypeOK, Made, MarkedIsWhole, Agree, ReuseMarked
  <2>2. CASE Inspect
    BY <2>2 DEF Inspect, IsInstalled, TypeOK, Made, MarkedIsWhole, Agree, ReuseMarked
  <2>3. CASE Download
    BY <2>3 DEF Download, TypeOK, Made, MarkedIsWhole, Agree, ReuseMarked
  <2>4. CASE EarlyFailure
    BY <2>4 DEF EarlyFailure, End, Fault, TypeOK, Made, MarkedIsWhole, Agree, ReuseMarked
  <2>5. CASE OpenTemporary
    BY <2>5 DEF OpenTemporary, TypeOK, Made, MarkedIsWhole, Agree, ReuseMarked
  <2>6. CASE CopyMember
    BY <2>6 DEF CopyMember, TypeOK, Made, MarkedIsWhole, Agree, ReuseMarked
  <2>7. CASE Chmod
    BY <2>7 DEF Chmod, TypeOK, Made, MarkedIsWhole, Agree, ReuseMarked
  <2>8. CASE Replace
    BY <2>8 DEF Replace, TypeOK, Made, MarkedIsWhole, Agree, ReuseMarked
  <2>9. CASE ExtractFails
    BY <2>9 DEF ExtractFails, Fault, TypeOK, Made, MarkedIsWhole, Agree, ReuseMarked
  <2>10. CASE DiscardTemporary
    BY <2>10 DEF DiscardTemporary, TypeOK, Made, MarkedIsWhole, Agree, ReuseMarked
  <2>11. CASE OpenMarker
    BY <2>11 DEF OpenMarker, TypeOK, Made, MarkedIsWhole, Agree, ReuseMarked
  <2>12. CASE WriteMarker
    BY <2>12 DEF WriteMarker, TypeOK, Made, MarkedIsWhole, Agree, ReuseMarked
  <2>13. CASE RenameMarker
    BY <2>13 DEF RenameMarker, TypeOK, Made, MarkedIsWhole, Agree, ReuseMarked
  <2>14. CASE MarkFails
    BY <2>14 DEF MarkFails, Fault, TypeOK, Made, MarkedIsWhole, Agree, ReuseMarked
  <2>15. CASE DiscardMarkerTemp
    BY <2>15 DEF DiscardMarkerTemp, End, TypeOK, Made, MarkedIsWhole, Agree, ReuseMarked
  <2>16. CASE CleanupFails
    BY <2>16 DEF CleanupFails, End, Fault, TypeOK, Made, MarkedIsWhole, Agree, ReuseMarked
  <2>17. CASE Crash
    BY <2>17 DEF Crash, End, Fault, TypeOK, Made, MarkedIsWhole, Agree, ReuseMarked
  <2>18. CASE UNCHANGED vars
    BY <2>18 DEF vars, TypeOK, Made, MarkedIsWhole, Agree, ReuseMarked
  <2>19. QED
    BY <2>1, <2>2, <2>3, <2>4, <2>5, <2>6, <2>7, <2>8, <2>9, <2>10, <2>11, <2>12, <2>13, <2>14, <2>15, <2>16, <2>17, <2>18
    DEF Next, Progress, Trouble
<1>3. QED
  BY <1>1, <1>2, PTL DEF Spec

\* Every variable keeps its type: in particular no file under the binary's or
\* the marker's own name is ever cut short.
THEOREM TypeCorrect == Spec => []TypeOK
<1>1. IInv => TypeOK
  BY DEF IInv
<1>2. QED
  BY <1>1, Invariance, PTL

\* A reused installation is a whole executable a tool installed.
THEOREM ReuseWhole == Spec => []ReusedIsWhole
<1>1. IInv => ReusedIsWhole
  BY Z3Assumption DEF Z3Assumption, IInv, TypeOK, MarkedIsWhole, ReuseMarked, ReusedIsWhole, None
<1>2. QED
  BY <1>1, Invariance, PTL

\* However many versions share the directory, a reused installation is the
\* running tool's, unless a run ended between its two renames.
THEOREM ReuseExact == Spec => []ReuseIsExact
<1>1. IInv => ReuseIsExact
  BY Z3Assumption DEF Z3Assumption, IInv, TypeOK, Agree, ReuseMarked, ReuseIsExact, BetweenRenames,
     Marking, None
<1>2. QED
  BY <1>1, Invariance, PTL

\* A run that returns has installed and recorded its version and left no
\* temporary file.
THEOREM InstalledRecorded == Spec => []InstalledIsRecorded
<1>1. IInv => InstalledIsRecorded
  BY DEF IInv, Made, Replaced, InstalledIsRecorded
<1>2. QED
  BY <1>1, Invariance, PTL

\* In a directory of one version (the default one) the marker is always right,
\* crashes between the two renames included.
THEOREM OneVersionExact ==
    ASSUME \A v, w \in Versions : v = w
    PROVE  Spec => []MarkerRecordsInstalled
<1>1. IInv => MarkerRecordsInstalled
  <2> SUFFICES ASSUME IInv, pc = "reused" PROVE binary = Tool(tool)
    BY DEF MarkerRecordsInstalled
  <2>1. PICK v \in Versions : binary = Tool(v)
    BY Z3Assumption DEF Z3Assumption, IInv, TypeOK, MarkedIsWhole, ReuseMarked, None
  <2>2. v = tool
    BY DEF IInv, TypeOK
  <2>3. QED
    BY <2>1, <2>2
<1>2. QED
  BY <1>1, Invariance, PTL
================================================================================
