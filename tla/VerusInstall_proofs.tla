-------------------------- MODULE VerusInstall_proofs --------------------------
(***************************************************************************)
(* Proofs about VerusInstall for any pins, archive layouts and number of   *)
(* faults.  The invariant says what a run knows of the final tree at each  *)
(* stage, and, for a run that began without a verus-* directory in its     *)
(* way, that the only such directory is the one its unzip is making and    *)
(* how far that has come.                                                  *)
(***************************************************************************)
EXTENDS VerusInstall, TLAPS

Clean == Running \ {"inspect", "download", "unpack"}
Complete == {"locate", "clear", "move"}

\* Past its inspection a run has found no executable, and none appears before
\* the move; a tree is only cleared if it is there and moved to when it is not.
FinalKnown == /\ pc \in Running \ {"inspect"} => final.bin \notin Versions
              /\ pc = "clear" => final.dir
              /\ pc = "move" => ~final.dir

\* unzip begins with every file to reach, has made its directory, and has one
\* file open at most, which it has passed.
Unzipping == /\ pc = "unpack" => left = Files
             /\ pc = "unzip" => extracted[Unpacked].dir
             /\ writing \notin left

\* An unhindered run begins without any verus-* directory, and then has only
\* the one it makes.
Alone == /\ ~leftover /\ pc \in {"inspect", "download", "unpack"} =>
              \A d \in Dirs : extracted[d] = NoTree
         /\ ~leftover /\ pc \in Clean =>
              \A d \in Dirs \ {Unpacked} : extracted[d] = NoTree

\* In it, a file is missing until unzip reaches it, cut while it is written, and
\* the pin's from then on.
Filled == ~leftover /\ pc = "unzip" =>
            \A f \in Files : extracted[Unpacked][f] = IF f \in left THEN None
                                                      ELSE IF f = writing THEN Cut
                                                      ELSE pin

\* What an unhindered run locates and moves is the whole pinned release.
Located == ~leftover => /\ pc \in Complete => extracted[Unpacked] = Whole(pin)
                        /\ pc \in {"clear", "move"} => located = Unpacked

\* An executable at the final path comes with its whole release, unless the run
\* that moved it there had a leftover in its way.
RunnableIsWhole == /\ final.bin \in Versions /\ ~mixed => \E v \in Versions : final = Whole(v)
                   /\ pc = "installed" => mixed = leftover

IInv == /\ TypeOK
        /\ FinalKnown
        /\ Unzipping
        /\ Alone
        /\ Filled
        /\ Located
        /\ RunnableIsWhole
        /\ InstalledIsPinned
        /\ ReusedIsWhole

Contents == Versions \cup {None, Cut}

--------------------------------------------------------------------------------

\* A tree that is there stays one when a file of it changes.
LEMMA SetFileKeepsTree ==
  ASSUME NEW t \in Tree, t.dir, NEW f \in Files, NEW c \in Contents
  PROVE  LET u == [t EXCEPT ![f] = c]
         IN /\ u \in Tree
            /\ u.dir
            /\ u[f] = c
            /\ \A g \in Files \ {f} : u[g] = t[g]
<1>1. t \in [dir : BOOLEAN, bin : Contents, rest : Contents]
  BY DEF Tree, Contents
<1>2. CASE f = "bin"
  BY <1>1, <1>2 DEF Tree, Contents, Files
<1>3. CASE f = "rest"
  BY <1>1, <1>3 DEF Tree, Contents, Files
<1>4. QED
  BY <1>2, <1>3 DEF Files

\* A tree that is not there, and a whole one, are trees; and a tree all of whose
\* files are the pin's is the whole one.
LEMMA Trees ==
  /\ NoTree \in Tree /\ ~NoTree.dir
  /\ \A v \in Versions : Whole(v) \in Tree /\ Whole(v).bin = v
  /\ \A t \in Tree : ~t.dir => t = NoTree
  /\ \A t \in Tree, v \in Versions :
        t.dir /\ (\A f \in Files : t[f] = v) => t = Whole(v)
<1>1. NoTree \in Tree /\ ~NoTree.dir
  BY DEF Tree, NoTree
<1>2. \A v \in Versions : Whole(v) \in Tree /\ Whole(v).bin = v
  BY DEF Tree, Whole
<1>3. \A t \in Tree : ~t.dir => t = NoTree
  BY DEF Tree
<1>4. \A t \in Tree, v \in Versions :
        t.dir /\ (\A f \in Files : t[f] = v) => t = Whole(v)
  BY DEF Tree, Whole, Files
<1>5. QED
  BY <1>1, <1>2, <1>3, <1>4

\* Every run that begins, unzips, installs, fails or is killed keeps the invariant.
LEMMA Invariance == Spec => []IInv
<1> USE VerusAssumption DEF VerusAssumption, IInv, Resting, Running, Clean, Complete, Unpacked, Files
<1> DEFINE Rest == FinalKnown /\ Unzipping /\ Alone /\ Filled /\ Located /\ RunnableIsWhole
                     /\ InstalledIsPinned /\ ReusedIsWhole
<1>1. Init => IInv
  <2> SUFFICES ASSUME Init PROVE IInv
    OBVIOUS
  <2>1. TypeOK
    <3>1. extracted \in [Dirs -> Tree]
      BY Trees DEF Init
    <3>2. final \in Tree
      BY DEF Init
    <3>3. faults \in 0..MaxFaults
      BY DEF Init
    <3>4. QED
      BY <3>1, <3>2, <3>3 DEF Init, TypeOK, None
  <2>2. Rest
    BY DEF Init, FinalKnown, Unzipping, Alone, Filled, Located, RunnableIsWhole,
           InstalledIsPinned, ReusedIsWhole, None
  <2>3. QED
    BY <2>1, <2>2
<1>2. IInv /\ [Next]_vars => IInv'
  <2> SUFFICES ASSUME IInv, [Next]_vars PROVE IInv'
    OBVIOUS
  <2> USE DEF TypeOK
  <2>1. CASE Begin
    <3>1. ~leftover' => \A d \in Dirs : extracted'[d] = NoTree
      BY <2>1, Trees DEF Begin, Present
    <3>2. QED
      BY <2>1, <3>1 DEF Begin, run, FinalKnown, Unzipping, Alone, Filled, Located,
                        RunnableIsWhole, InstalledIsPinned, ReusedIsWhole
  <2>2. CASE Inspect
    BY <2>2 DEF Inspect, run, FinalKnown, Unzipping, Alone, Filled, Located,
                RunnableIsWhole, InstalledIsPinned, ReusedIsWhole
  <2>3. CASE Download
    BY <2>3 DEF Download, FinalKnown, Unzipping, Alone, Filled, Located, RunnableIsWhole,
                InstalledIsPinned, ReusedIsWhole, None
  <2>4. CASE Unpack
    <3> USE <2>4 DEF Unpack, run
    <3> DEFINE t == extracted[Unpacked]
               u == [t EXCEPT !.dir = TRUE]
    <3>1. u \in Tree /\ u.dir /\ u.bin = t.bin /\ u.rest = t.rest
      BY DEF Tree
    <3>2. extracted' = [extracted EXCEPT ![Unpacked] = u] /\ Unpacked \in Dirs
      OBVIOUS
    <3>3. extracted'[Unpacked] = u /\ \A d \in Dirs \ {Unpacked} : extracted'[d] = extracted[d]
      BY <3>2
    <3>4. TypeOK'
      BY <3>1, <3>2
    <3>5. FinalKnown' /\ Unzipping' /\ Alone'
      BY <3>1, <3>3 DEF FinalKnown, Unzipping, Alone
    <3>6. Filled'
      <4> SUFFICES ASSUME ~leftover PROVE \A f \in Files : u[f] = None /\ f \in left
        BY <3>3 DEF Filled
      <4>1. t = NoTree
        BY DEF Alone
      <4>2. QED
        BY <4>1, <3>1 DEF NoTree, Unzipping
    <3>7. QED
      BY <3>4, <3>5, <3>6 DEF Located, RunnableIsWhole, InstalledIsPinned, ReusedIsWhole
  <2>5. CASE OpenFile
    <3>1. PICK f \in left : SetFile(f, Cut) /\ writing' = f /\ left' = left \ {f}
      BY <2>5 DEF OpenFile
    <3> USE <2>5 DEF OpenFile
    <3> DEFINE u == [extracted[Unpacked] EXCEPT ![f] = Cut]
    <3>2. /\ u \in Tree /\ u.dir /\ u[f] = Cut
          /\ \A g \in Files \ {f} : u[g] = extracted[Unpacked][g]
      BY <3>1, SetFileKeepsTree DEF Unzipping, Contents
    <3>3. extracted' = [extracted EXCEPT ![Unpacked] = u] /\ Unpacked \in Dirs
      BY <3>1 DEF SetFile
    <3>4. extracted'[Unpacked] = u /\ \A d \in Dirs \ {Unpacked} : extracted'[d] = extracted[d]
      BY <3>3
    <3>5. TypeOK'
      BY <3>1, <3>2, <3>3
    <3>6. FinalKnown' /\ Unzipping' /\ Alone'
      BY <3>1, <3>2, <3>4 DEF FinalKnown, Unzipping, Alone
    <3>7. Filled'
      BY <3>1, <3>2, <3>4 DEF Filled, Unzipping, None
    <3>8. QED
      BY <3>5, <3>6, <3>7 DEF Located, RunnableIsWhole, InstalledIsPinned, ReusedIsWhole
  <2>6. CASE WriteFile
    <3> DEFINE f == writing
    <3>1. SetFile(f, pin) /\ writing' = None /\ left' = left /\ f \in Files
      BY <2>6 DEF WriteFile
    <3> USE <2>6 DEF WriteFile
    <3> DEFINE u == [extracted[Unpacked] EXCEPT ![f] = pin]
    <3>2. /\ u \in Tree /\ u.dir /\ u[f] = pin
          /\ \A g \in Files \ {f} : u[g] = extracted[Unpacked][g]
      BY <3>1, SetFileKeepsTree DEF Unzipping, Contents
    <3>3. extracted' = [extracted EXCEPT ![Unpacked] = u] /\ Unpacked \in Dirs
      BY <3>1 DEF SetFile
    <3>4. extracted'[Unpacked] = u /\ \A d \in Dirs \ {Unpacked} : extracted'[d] = extracted[d]
      BY <3>3
    <3>5. TypeOK'
      BY <3>1, <3>2, <3>3
    <3>6. FinalKnown' /\ Unzipping' /\ Alone'
      BY <3>1, <3>2, <3>4 DEF FinalKnown, Unzipping, Alone, None
    <3>7. Filled'
      BY <3>1, <3>2, <3>4 DEF Filled, Unzipping, None
    <3>8. QED
      BY <3>5, <3>6, <3>7 DEF Located, RunnableIsWhole, InstalledIsPinned, ReusedIsWhole
  <2>7. CASE KeepFile
    BY <2>7 DEF KeepFile, FinalKnown, Unzipping, Alone, Filled, Located, RunnableIsWhole,
                InstalledIsPinned, ReusedIsWhole
  <2>8. CASE UnzipExits
    <3> USE <2>8 DEF UnzipExits, run
    <3>1. ~leftover => extracted[Unpacked] = Whole(pin)
      BY Trees DEF Filled, Unzipping, None
    <3>2. QED
      BY <3>1 DEF FinalKnown, Unzipping, Alone, Filled, Located, RunnableIsWhole,
                  InstalledIsPinned, ReusedIsWhole
  <2>9. CASE Locate
    <3> USE <2>9 DEF Locate
    <3>1. located' \in Present
      BY DEF Find
    <3>2. ~leftover => located' = Unpacked
      BY <3>1, Trees DEF Present, Alone
    <3>3. TypeOK'
      BY <3>1 DEF Present
    <3>4. FinalKnown' /\ Unzipping' /\ Alone' /\ Filled'
      BY DEF FinalKnown, Unzipping, Alone, Filled
    <3>5. Located'
      BY <3>2 DEF Located
    <3>6. QED
      BY <3>3, <3>4, <3>5 DEF RunnableIsWhole, InstalledIsPinned, ReusedIsWhole
  <2>10. CASE Ambiguous
    BY <2>10 DEF Ambiguous, run, FinalKnown, Unzipping, Alone, Filled, Located,
                RunnableIsWhole, InstalledIsPinned, ReusedIsWhole
  <2>11. CASE RemoveFile
    <3>1. PICK f \in Files : final' = [final EXCEPT ![f] = None]
      BY <2>11 DEF RemoveFile
    <3> DEFINE u == [final EXCEPT ![f] = None]
    <3>2. final \in Tree /\ final.dir /\ final.bin \notin Versions /\ None \in Contents
      BY <2>11 DEF RemoveFile, FinalKnown, Contents
    <3>3. u \in Tree /\ u.dir /\ u[f] = None /\ \A g \in Files \ {f} : u[g] = final[g]
      BY <3>2, SetFileKeepsTree
    <3>4. u.bin \notin Versions
      BY <3>2, <3>3 DEF None
    <3>5. QED
      BY <2>11, <3>1, <3>3, <3>4
      DEF RemoveFile, run, FinalKnown, Unzipping, Alone, Filled, Located, RunnableIsWhole,
          InstalledIsPinned, ReusedIsWhole
  <2>12. CASE RemoveDirectory
    <3> USE <2>12 DEF RemoveDirectory, run
    <3>1. final' \in Tree /\ ~final'.dir /\ final'.bin \notin Versions
      BY Trees DEF NoTree
    <3>2. QED
      BY <3>1 DEF FinalKnown, Unzipping, Alone, Filled, Located, RunnableIsWhole,
                  InstalledIsPinned, ReusedIsWhole
  <2>13. CASE Move
    BY <2>13, Trees DEF Move, run, FinalKnown, Unzipping, Alone, Filled, Located,
                RunnableIsWhole, InstalledIsPinned, ReusedIsWhole
  <2>14. CASE Stops
    BY <2>14 DEF Stops, run, FinalKnown, Unzipping, Alone, Filled, Located,
                RunnableIsWhole, InstalledIsPinned, ReusedIsWhole
  <2>15. CASE UNCHANGED vars
    BY <2>15 DEF vars, run, FinalKnown, Unzipping, Alone, Filled, Located,
                RunnableIsWhole, InstalledIsPinned, ReusedIsWhole, Present
  <2>16. QED
    BY <2>1, <2>2, <2>3, <2>4, <2>5, <2>6, <2>7, <2>8, <2>9, <2>10, <2>11, <2>12, <2>13,
       <2>14, <2>15 DEF Next, Progress
<1>3. QED
  BY <1>1, <1>2, PTL DEF Spec

\* Every variable keeps its type: in particular a file is only ever missing, cut
\* or whole.
THEOREM TypeCorrect == Spec => []TypeOK
<1>1. IInv => TypeOK
  BY DEF IInv
<1>2. QED
  BY <1>1, Invariance, PTL

\* A run without a verus-* directory in its way installs the pinned release
\* whole, whatever stale tree was at the final path, for any archive layouts.
THEOREM FreshInstallIsPinned == Spec => []InstalledIsPinned
<1>1. IInv => InstalledIsPinned
  BY DEF IInv
<1>2. QED
  BY <1>1, Invariance, PTL

\* No crash or failure makes a run reuse half a tree.
THEOREM ReuseWhole == Spec => []ReusedIsWhole
<1>1. IInv => ReusedIsWhole
  BY DEF IInv
<1>2. QED
  BY <1>1, Invariance, PTL

\* In an install directory of one pin the report is right, reuse included, as
\* long as the tree there did not come past a leftover: what ReportedIsPinned
\* lacks is the second pin (verus_pin) or the leftover.
THEOREM OnePinExact ==
  ASSUME \A v, w \in Versions : v = w
  PROVE  Spec => [](~mixed => ReportedIsPinned)
<1>1. IInv => (~mixed => ReportedIsPinned)
  BY DEF IInv, TypeOK, RunnableIsWhole, InstalledIsPinned, ReusedIsWhole, ReportedIsPinned
<1>2. QED
  BY <1>1, Invariance, PTL

\* An executable that is at the final path is whole with its release all the
\* way through the next run's inspection: nothing removes or replaces it, so a
\* working installation is never taken apart (install.py:119-147).
THEOREM InstallationIsKept ==
  Spec => [][final.bin \in Versions => final' = final]_vars
<1>1. IInv /\ [Next]_vars => [final.bin \in Versions => final' = final]_vars
  <2> SUFFICES ASSUME IInv, Next, final.bin \in Versions
               PROVE  final' = final
    BY DEF vars
  <2>1. pc \notin {"clear", "move"}
    BY DEF IInv, FinalKnown, Running
  <2>2. QED
    BY <2>1 DEF Next, Progress, Begin, Inspect, Download, Unpack, OpenFile, WriteFile,
                KeepFile, UnzipExits, Locate, Ambiguous, RemoveFile, RemoveDirectory, Move,
                Stops
<1>2. QED
  BY <1>1, Invariance, PTL DEF Spec
================================================================================
