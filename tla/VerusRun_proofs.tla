---------------------------- MODULE VerusRun_proofs ----------------------------
(***************************************************************************)
(* Proofs about VerusRun for any number of proof files and any verdicts.   *)
(* The invariant relates the counters of the batch at each stage, says     *)
(* what a class of the outcome implies about the verdicts, and follows     *)
(* what the output streams hold through the exit hook.                     *)
(***************************************************************************)
EXTENDS VerusRun, TLAPS, WellFoundedInduction

Ending == {"report", "hook", "hook2", "flush", "exited"}
Bad == {"execution", "refused", "killed"}

\* The files before the invocation in progress were proved, all of them.
ProvedSoFar == /\ proved <= ordinal /\ ordinal <= proved + 1
               /\ \A i \in 1..proved : verdict[i] = "proved"

\* Until its end the batch has one invocation open at most, and neither an error
\* nor an interrupt to report before that invocation has come to something.
Counts ==
    /\ pc \in Preparing \cup {"batch"} =>
         class = "none" /\ ordinal = 0 /\ proved = 0 /\ started = 0 /\ ended = 0
    /\ pc \in Preparing \cup (Batching \ {"closing", "summary"}) =>
         ~interrupted /\ ~failed /\ requested = 0
    /\ pc = "next" => class = "unexpected" /\ proved = ordinal /\ started = ordinal /\ ended = ordinal
    /\ pc \in {"starting", "running"} =>
         /\ class = "unexpected"
         /\ ordinal = proved + 1 /\ started = ordinal /\ ended = proved
    /\ pc = "closing" =>
         /\ class \in Bad \cup {"unexpected"}
         /\ started = ordinal /\ started = ended + 1
         /\ class = "unexpected" => ~failed /\ requested = 0 /\ (interrupted \/ ordinal = proved)

\* What the class of the outcome says of the verdicts and of the code.
ClassIsOutcome ==
    /\ class = "success" => proved = N /\ ~failed /\ requested = 0
    /\ class \in Bad => /\ ordinal = proved + 1
                        /\ ordinal \in Failures
                        /\ failed
                        /\ IF class = "execution" THEN verdict[ordinal] = "unstartable" /\ requested = 1
                           ELSE verdict[ordinal] = class /\ requested = CodeOf(class)
    /\ class \in Bad => pc \in {"closing", "summary"} \cup Ending
    /\ class = "success" => pc \in {"summary"} \cup Ending
    /\ pc = "summary" => class # "none"
    /\ class = "unexpected" /\ pc \in {"summary"} \cup Ending => interrupted
    /\ class = "none" /\ pc \in Ending => interrupted \/ (failed /\ requested = 1)
    /\ summary # "none" => summary = class /\ pc \in Ending

\* Once the loop is left its spans are closed, but for an interrupted one.
Spans == pc \in {"summary"} \cup Ending =>
           started = ended \/ (interrupted /\ started = ended + 1 /\ ordinal = started)

\* A stream the exit hook has guarded has nothing left to write to a pipe.
Guarded(s) == ~holds[s] \/ leads[s] # "pipe"

HookGuards == /\ pc \in {"hook2", "flush"} => Guarded("stdout")
              /\ pc = "flush" => Guarded("stderr")
              /\ pc = "exited" => status = IF interrupted THEN 130 ELSE requested % 256

IInv == TypeOK /\ ProvedSoFar /\ Counts /\ ClassIsOutcome /\ Spans /\ HookGuards

--------------------------------------------------------------------------------

\* What a failing file leads to.
LEMMA Codes == CodeOf("refused") = FailCode /\ CodeOf("killed") = -Signal
  BY DEF CodeOf

\* If a file fails, one is the first to.
LEMMA FirstFails ==
  ASSUME Failures # {}
  PROVE  FirstFailure \in Failures /\ \A j \in Failures : FirstFailure <= j
<1> USE RunAssumption DEF RunAssumption
<1> DEFINE less == {ss \in Nat \X Nat : ss[1] < ss[2]}
<1>1. Failures \subseteq Nat
  BY DEF Failures
<1>2. less = OpToRel(<, Nat)
  BY Zenon DEF OpToRel
<1>3. PICK i \in Failures : \A j \in Failures : ~(<<j, i>> \in less)
  <2>1. IsWellFoundedOn(less, Nat)
    BY <1>2, NatLessThanWellFounded, Zenon
  <2> HIDE DEF less
  <2>2. QED
    BY <1>1, <2>1, WFMin, Zenon
<1>4. ASSUME NEW j \in Failures
      PROVE  i <= j
  <2>1. i \in Nat /\ j \in Nat
    BY <1>1, <1>3
  <2>2. j < i => <<j, i>> \in less
    BY <2>1
  <2> HIDE DEF less
  <2>3. ~(j < i)
    BY <1>3, <2>2
  <2>4. QED
    BY <2>1, <2>3
<1>5. QED
  BY <1>4 DEF FirstFailure

\* It is the one all files before which were proved.
LEMMA FirstIs ==
  ASSUME NEW i \in Failures, \A j \in 1..(i - 1) : verdict[j] = "proved"
  PROVE  FirstFailure = i
<1> USE RunAssumption DEF RunAssumption
<1>1. Failures \subseteq 1..N
  BY DEF Failures
<1>2. FirstFailure \in Failures /\ FirstFailure <= i
  BY FirstFails
<1>3. \A j \in Failures : ~(j < i)
  BY <1>1 DEF Failures
<1>4. QED
  BY <1>1, <1>2, <1>3

\* What the outcome and its status ought to be, once the class is known.
LEMMA OutcomeKnown ==
  ASSUME IInv
  PROVE  /\ class = "success" => Outcome = "success"
         /\ class \in Bad => Outcome = class
<1> USE RunAssumption DEF RunAssumption, IInv
<1>1. ASSUME class = "success"
      PROVE  Outcome = "success"
  <2>1. Failures = {}
    BY <1>1 DEF ProvedSoFar, ClassIsOutcome, Failures, TypeOK
  <2>2. QED
    BY <2>1 DEF Outcome
<1>2. ASSUME class \in Bad
      PROVE  Outcome = class
  <2>1. ordinal \in Failures /\ \A j \in 1..(ordinal - 1) : verdict[j] = "proved"
    BY <1>2 DEF ProvedSoFar, ClassIsOutcome, TypeOK
  <2>2. FirstFailure = ordinal
    BY <2>1, FirstIs
  <2>3. Failures # {}
    BY <2>1
  <2>4. class = "execution" => verdict[ordinal] = "unstartable"
    BY <1>2 DEF ClassIsOutcome
  <2>5. class # "execution" => verdict[ordinal] = class /\ class # "unstartable"
    BY <1>2 DEF ClassIsOutcome, Bad
  <2>6. QED
    BY <2>2, <2>3, <2>4, <2>5 DEF Outcome
<1>3. QED
  BY <1>1, <1>2

\* Every step keeps the types of the output.
LEMMA OutputSteps ==
  ASSUME OutputType
  PROVE  /\ \A s \in Streams : PrintLines(s) => OutputType'
         /\ \A s \in Streams : GuardOutput(s) => OutputType' /\ Guarded(s)'
         /\ GuardOutput("stderr") /\ Guarded("stdout") => Guarded("stdout")'
         /\ CloseReader => OutputType' /\ \A s \in Streams : Guarded(s) => Guarded(s)'
<1>1. ASSUME NEW s \in Streams, PrintLines(s)
      PROVE  OutputType'
  BY <1>1 DEF PrintLines, OutputType
<1>2. ASSUME NEW s \in Streams, GuardOutput(s)
      PROVE  OutputType' /\ Guarded(s)'
  <2>1. CASE Flush(s)
    BY <1>2, <2>1 DEF GuardOutput, Flush, OutputType, Guarded
  <2>2. CASE Redirect(s)
    BY <1>2, <2>2 DEF GuardOutput, Redirect, OutputType, Guarded
  <2>3. CASE Replace(s)
    BY <1>2, <2>3 DEF GuardOutput, Replace, OutputType, Guarded
  <2>4. QED
    BY <1>2, <2>1, <2>2, <2>3 DEF GuardOutput
<1>3. ASSUME GuardOutput("stderr"), Guarded("stdout")
      PROVE  Guarded("stdout")'
  BY <1>3 DEF GuardOutput, Flush, Redirect, Replace, OutputType, Guarded, Streams
<1>4. ASSUME CloseReader
      PROVE  OutputType' /\ \A s \in Streams : Guarded(s) => Guarded(s)'
  BY <1>4 DEF CloseReader, OutputType, Guarded
<1>5. QED
  BY <1>1, <1>2, <1>3, <1>4

\* Every step of the command, and every interrupt and reader that leaves, keeps
\* the invariant.
LEMMA Invariance == Spec => []IInv
<1> USE RunAssumption DEF RunAssumption, Preparing, Batching, Running, Ending, Bad
<1>1. Init => IInv
  <2> SUFFICES ASSUME Init PROVE IInv
    OBVIOUS
  <2>1. OutputType
    BY DEF Init, OutputInit, OutputType, Streams
  <2>2. TypeOK
    <3>1. ordinal \in 0..N /\ proved \in 0..N /\ started \in 0..N /\ ended \in 0..N
      BY DEF Init
    <3>2. requested \in {0, 1, FailCode, -Signal} /\ status \in {-1} \cup 0..255
      BY DEF Init
    <3>3. verdict \in [1..N -> Verdicts] /\ failed \in BOOLEAN /\ interrupted \in BOOLEAN
      BY DEF Init
    <3>4. pc \in Running \cup {"exited"}
      BY DEF Init
    <3>5. QED
      BY <2>1, <3>1, <3>2, <3>3, <3>4 DEF Init, TypeOK
  <2>3. QED
    BY <2>2 DEF Init, IInv, ProvedSoFar, Counts, ClassIsOutcome, Spans, HookGuards
<1>2. IInv /\ [Next]_vars => IInv'
  <2> SUFFICES ASSUME IInv, [Next]_vars PROVE IInv'
    OBVIOUS
  <2> USE DEF IInv
  <2>1. CASE Fails
    <3> USE <2>1 DEF Fails, KeepRest, batch, ending, outputs
    <3>1. TypeOK'
      BY DEF TypeOK, ProvedSoFar, Counts, OutputType
    <3>2. ProvedSoFar' /\ Counts' /\ Spans'
      BY DEF TypeOK, ProvedSoFar, Counts, ClassIsOutcome, Spans
    <3>3. ClassIsOutcome' /\ HookGuards'
      BY DEF TypeOK, ProvedSoFar, Counts, ClassIsOutcome, HookGuards, Guarded, Failures
    <3>4. QED
      BY <3>1, <3>2, <3>3
  <2>2. CASE FindProofs
    <3> USE <2>2 DEF FindProofs, Step, KeepRest, batch, ending, outputs
    <3>1. TypeOK'
      BY DEF TypeOK, ProvedSoFar, Counts, OutputType
    <3>2. ProvedSoFar' /\ Counts' /\ Spans'
      BY DEF TypeOK, ProvedSoFar, Counts, ClassIsOutcome, Spans
    <3>3. ClassIsOutcome' /\ HookGuards'
      BY DEF TypeOK, ProvedSoFar, Counts, ClassIsOutcome, HookGuards, Guarded, Failures
    <3>4. QED
      BY <3>1, <3>2, <3>3
  <2>3. CASE FindBinary
    <3> USE <2>3 DEF FindBinary, KeepRest, batch, ending, outputs
    <3>1. TypeOK'
      BY DEF TypeOK, ProvedSoFar, Counts, OutputType
    <3>2. ProvedSoFar' /\ Counts' /\ Spans'
      BY DEF TypeOK, ProvedSoFar, Counts, ClassIsOutcome, Spans
    <3>3. ClassIsOutcome' /\ HookGuards'
      BY DEF TypeOK, ProvedSoFar, Counts, ClassIsOutcome, HookGuards, Guarded, Failures
    <3>4. QED
      BY <3>1, <3>2, <3>3
  <2>4. CASE Install
    <3> USE <2>4 DEF Install, Step, KeepRest, batch, ending, outputs
    <3>1. TypeOK'
      BY DEF TypeOK, ProvedSoFar, Counts, OutputType
    <3>2. ProvedSoFar' /\ Counts' /\ Spans'
      BY DEF TypeOK, ProvedSoFar, Counts, ClassIsOutcome, Spans
    <3>3. ClassIsOutcome' /\ HookGuards'
      BY DEF TypeOK, ProvedSoFar, Counts, ClassIsOutcome, HookGuards, Guarded, Failures
    <3>4. QED
      BY <3>1, <3>2, <3>3
  <2>5. CASE Probe
    <3> USE <2>5 DEF Probe, KeepRest, batch, ending, outputs
    <3>1. TypeOK'
      BY DEF TypeOK, ProvedSoFar, Counts, OutputType
    <3>2. ProvedSoFar' /\ Counts' /\ Spans'
      BY DEF TypeOK, ProvedSoFar, Counts, ClassIsOutcome, Spans
    <3>3. ClassIsOutcome' /\ HookGuards'
      BY DEF TypeOK, ProvedSoFar, Counts, ClassIsOutcome, HookGuards, Guarded, Failures
    <3>4. QED
      BY <3>1, <3>2, <3>3
  <2>6. CASE Rustup
    <3> USE <2>6 DEF Rustup, Step, KeepRest, batch, ending, outputs
    <3>1. TypeOK'
      BY DEF TypeOK, ProvedSoFar, Counts, OutputType
    <3>2. ProvedSoFar' /\ Counts' /\ Spans'
      BY DEF TypeOK, ProvedSoFar, Counts, ClassIsOutcome, Spans
    <3>3. ClassIsOutcome' /\ HookGuards'
      BY DEF TypeOK, ProvedSoFar, Counts, ClassIsOutcome, HookGuards, Guarded, Failures
    <3>4. QED
      BY <3>1, <3>2, <3>3
  <2>7. CASE Reprobe
    <3> USE <2>7 DEF Reprobe, Step, KeepRest, batch, ending, outputs
    <3>1. TypeOK'
      BY DEF TypeOK, ProvedSoFar, Counts, OutputType
    <3>2. ProvedSoFar' /\ Counts' /\ Spans'
      BY DEF TypeOK, ProvedSoFar, Counts, ClassIsOutcome, Spans
    <3>3. ClassIsOutcome' /\ HookGuards'
      BY DEF TypeOK, ProvedSoFar, Counts, ClassIsOutcome, HookGuards, Guarded, Failures
    <3>4. QED
      BY <3>1, <3>2, <3>3
  <2>8. CASE BeginBatch
    <3> USE <2>8 DEF BeginBatch, Step, KeepRest, batch, ending, outputs
    <3>1. TypeOK'
      BY DEF TypeOK, ProvedSoFar, Counts, OutputType
    <3>2. ProvedSoFar' /\ Counts' /\ Spans'
      BY DEF TypeOK, ProvedSoFar, Counts, ClassIsOutcome, Spans
    <3>3. ClassIsOutcome' /\ HookGuards'
      BY DEF TypeOK, ProvedSoFar, Counts, ClassIsOutcome, HookGuards, Guarded, Failures
    <3>4. QED
      BY <3>1, <3>2, <3>3
  <2>9. CASE BeginInvocation
    <3> USE <2>9 DEF BeginInvocation, Step, KeepRest, batch, ending, outputs
    <3>1. TypeOK'
      BY DEF TypeOK, ProvedSoFar, Counts, OutputType
    <3>2. ProvedSoFar' /\ Counts' /\ Spans'
      BY DEF TypeOK, ProvedSoFar, Counts, ClassIsOutcome, Spans
    <3>3. ClassIsOutcome' /\ HookGuards'
      BY DEF TypeOK, ProvedSoFar, Counts, ClassIsOutcome, HookGuards, Guarded, Failures
    <3>4. QED
      BY <3>1, <3>2, <3>3
  <2>10. CASE Refused
    <3> USE <2>10, Codes DEF Refused, Step, KeepRest, batch, ending, outputs
    <3>1. TypeOK'
      BY DEF TypeOK, ProvedSoFar, Counts, OutputType
    <3>2. ProvedSoFar' /\ Counts' /\ Spans'
      BY DEF TypeOK, ProvedSoFar, Counts, ClassIsOutcome, Spans
    <3>3. ClassIsOutcome' /\ HookGuards'
      BY DEF TypeOK, ProvedSoFar, Counts, ClassIsOutcome, HookGuards, Guarded, Failures
    <3>4. QED
      BY <3>1, <3>2, <3>3
  <2>11. CASE Unstartable
    <3> USE <2>11 DEF Unstartable, Step, KeepRest, batch, ending, outputs
    <3>1. TypeOK'
      BY DEF TypeOK, ProvedSoFar, Counts, OutputType
    <3>2. ProvedSoFar' /\ Counts' /\ Spans'
      BY DEF TypeOK, ProvedSoFar, Counts, ClassIsOutcome, Spans
    <3>3. ClassIsOutcome' /\ HookGuards'
      BY DEF TypeOK, ProvedSoFar, Counts, ClassIsOutcome, HookGuards, Guarded, Failures
    <3>4. QED
      BY <3>1, <3>2, <3>3
  <2>12. CASE Proved
    <3> USE <2>12 DEF Proved, Step, KeepRest, batch, ending, outputs
    <3>1. TypeOK'
      BY DEF TypeOK, ProvedSoFar, Counts, OutputType
    <3>2. ProvedSoFar' /\ Counts' /\ Spans'
      BY DEF TypeOK, ProvedSoFar, Counts, ClassIsOutcome, Spans
    <3>3. ClassIsOutcome' /\ HookGuards'
      BY DEF TypeOK, ProvedSoFar, Counts, ClassIsOutcome, HookGuards, Guarded, Failures
    <3>4. QED
      BY <3>1, <3>2, <3>3
  <2>13. CASE AllProved
    <3> USE <2>13 DEF AllProved, Step, KeepRest, batch, ending, outputs
    <3>1. TypeOK'
      BY DEF TypeOK, ProvedSoFar, Counts, OutputType
    <3>2. ProvedSoFar' /\ Counts' /\ Spans'
      BY DEF TypeOK, ProvedSoFar, Counts, ClassIsOutcome, Spans
    <3>3. ClassIsOutcome' /\ HookGuards'
      BY DEF TypeOK, ProvedSoFar, Counts, ClassIsOutcome, HookGuards, Guarded, Failures
    <3>4. QED
      BY <3>1, <3>2, <3>3
  <2>14. CASE Summarise
    <3> USE <2>14 DEF Summarise, Step, KeepRest, batch, ending, outputs
    <3>1. TypeOK'
      BY DEF TypeOK, ProvedSoFar, Counts, OutputType
    <3>2. ProvedSoFar' /\ Counts' /\ Spans'
      BY DEF TypeOK, ProvedSoFar, Counts, ClassIsOutcome, Spans
    <3>3. ClassIsOutcome' /\ HookGuards'
      BY DEF TypeOK, ProvedSoFar, Counts, ClassIsOutcome, HookGuards, Guarded, Failures
    <3>4. QED
      BY <3>1, <3>2, <3>3
  <2>15. CASE Interrupt
    <3> USE <2>15 DEF Interrupt, KeepRest, batch, ending, outputs
    <3>1. TypeOK'
      BY DEF TypeOK, ProvedSoFar, Counts, OutputType
    <3>2. ProvedSoFar' /\ Counts' /\ Spans'
      BY DEF TypeOK, ProvedSoFar, Counts, ClassIsOutcome, Spans
    <3>3. ClassIsOutcome' /\ HookGuards'
      BY DEF TypeOK, ProvedSoFar, Counts, ClassIsOutcome, HookGuards, Guarded, Failures
    <3>4. QED
      BY <3>1, <3>2, <3>3
  <2>16. CASE Invoke
    <3> USE <2>16 DEF Invoke, Step, batch, ending
    <3>1. OutputType'
      BY OutputSteps DEF TypeOK, Streams
    <3>2. TypeOK' /\ ProvedSoFar' /\ Counts' /\ Spans'
      BY <3>1 DEF TypeOK, ProvedSoFar, Counts, Spans
    <3>3. ClassIsOutcome'
      BY DEF TypeOK, ProvedSoFar, Counts, ClassIsOutcome, Failures
    <3>4. HookGuards'
      BY OutputSteps DEF TypeOK, HookGuards, Streams
    <3>5. QED
      BY <3>2, <3>3, <3>4
  <2>17. CASE Report
    <3> USE <2>17 DEF Report, Step, batch, ending
    <3>1. OutputType'
      BY OutputSteps DEF TypeOK, Streams
    <3>2. TypeOK' /\ ProvedSoFar' /\ Counts' /\ Spans'
      BY <3>1 DEF TypeOK, ProvedSoFar, Counts, Spans
    <3>3. ClassIsOutcome'
      BY DEF TypeOK, ProvedSoFar, Counts, ClassIsOutcome, Failures
    <3>4. HookGuards'
      BY OutputSteps DEF TypeOK, HookGuards, Streams
    <3>5. QED
      BY <3>2, <3>3, <3>4
  <2>18. CASE Hook
    <3> USE <2>18 DEF Hook, Step, batch, ending
    <3>1. OutputType'
      BY OutputSteps DEF TypeOK, Streams
    <3>2. TypeOK' /\ ProvedSoFar' /\ Counts' /\ Spans'
      BY <3>1 DEF TypeOK, ProvedSoFar, Counts, Spans
    <3>3. ClassIsOutcome'
      BY DEF TypeOK, ProvedSoFar, Counts, ClassIsOutcome, Failures
    <3>4. HookGuards'
      BY OutputSteps DEF TypeOK, HookGuards, Streams
    <3>5. QED
      BY <3>2, <3>3, <3>4
  <2>19. CASE Leave
    <3> USE <2>19 DEF Leave, Step, batch, ending
    <3>1. OutputType'
      BY OutputSteps DEF TypeOK, Streams
    <3>2. TypeOK' /\ ProvedSoFar' /\ Counts' /\ Spans'
      BY <3>1 DEF TypeOK, ProvedSoFar, Counts, Spans
    <3>3. ClassIsOutcome'
      BY DEF TypeOK, ProvedSoFar, Counts, ClassIsOutcome, Failures
    <3>4. HookGuards'
      BY OutputSteps DEF TypeOK, HookGuards, Streams
    <3>5. QED
      BY <3>2, <3>3, <3>4
  <2>20. CASE Exit
    <3> USE <2>20 DEF Exit, Step, batch, outputs
    <3>1. ~\E s \in Streams : Dead(s)
      BY DEF HookGuards, Guarded, Dead, Streams, TypeOK, OutputType
    <3>2. status' = IF interrupted THEN 130 ELSE requested % 256
      BY <3>1 DEF Reported
    <3>3. status' \in 0..255
      <4>1. requested \in Int
        BY DEF TypeOK
      <4>2. requested % 256 \in 0..255
        BY <4>1
      <4>3. QED
        BY <3>2, <4>2
    <3>4. TypeOK' /\ ProvedSoFar' /\ Counts' /\ Spans'
      BY <3>3 DEF TypeOK, OutputType, ProvedSoFar, Counts, Spans
    <3>5. ClassIsOutcome' /\ HookGuards'
      BY <3>2 DEF TypeOK, ProvedSoFar, Counts, ClassIsOutcome, HookGuards, Failures
    <3>6. QED
      BY <3>4, <3>5
  <2>21. CASE UNCHANGED vars
    BY <2>21 DEF vars, batch, ending, outputs, TypeOK, OutputType, ProvedSoFar, Counts,
                 ClassIsOutcome, Spans, HookGuards, Guarded, Failures
  <2>22. CASE CloseSpan
    <3> USE <2>22 DEF CloseSpan, batch, ending, outputs
    <3>1. TypeOK'
      BY DEF TypeOK, ProvedSoFar, Counts, OutputType
    <3>2. ProvedSoFar' /\ Counts' /\ Spans'
      BY DEF TypeOK, ProvedSoFar, Counts, ClassIsOutcome, Spans
    <3>3. ClassIsOutcome' /\ HookGuards'
      BY DEF TypeOK, ProvedSoFar, Counts, ClassIsOutcome, HookGuards, Guarded, Failures
    <3>4. QED
      BY <3>1, <3>2, <3>3
  <2>23. QED
    BY <2>1, <2>2, <2>3, <2>4, <2>5, <2>6, <2>7, <2>8, <2>9, <2>10, <2>11, <2>12, <2>13, <2>14, <2>15, <2>16, <2>17, <2>18, <2>19, <2>20, <2>21, <2>22
    DEF Next
<1>3. QED
  BY <1>1, <1>2, PTL DEF Spec

\* Every variable keeps its type: in particular the counts never pass the number
\* of files, and the status is one a process can have.
THEOREM TypeCorrect == Spec => []TypeOK
<1>1. IInv => TypeOK
  BY DEF IInv
<1>2. QED
  BY <1>1, Invariance, PTL

\* No file is run after the first that fails.
THEOREM StopsAtFirstFailure == Spec => []FailFast
<1>1. IInv => FailFast
  <2> SUFFICES ASSUME IInv, Failures # {}
               PROVE  ordinal <= FirstFailure /\ proved < FirstFailure
    BY DEF FailFast
  <2>1. FirstFailure \in 1..N /\ verdict[FirstFailure] # "proved"
    BY FirstFails DEF Failures
  <2>2. FirstFailure > proved
    BY <2>1, RunAssumption DEF RunAssumption, IInv, TypeOK, ProvedSoFar
  <2>3. QED
    BY <2>1, <2>2, RunAssumption DEF RunAssumption, IInv, TypeOK, ProvedSoFar
<1>2. QED
  BY <1>1, Invariance, PTL

\* The summary is the outcome of the files, or admits to an interrupt.
THEOREM SummaryHonest == Spec => []SummaryIsHonest
<1>1. IInv => SummaryIsHonest
  <2> SUFFICES ASSUME IInv, summary # "none"
               PROVE  summary = Outcome \/ (summary = "unexpected" /\ interrupted)
    BY DEF SummaryIsHonest
  <2>1. summary = class /\ pc \in Ending
    BY DEF IInv, ClassIsOutcome
  <2>2. class \in Bad \cup {"success", "unexpected"}
    BY <2>1 DEF IInv, TypeOK, Bad
  <2>3. QED
    BY <2>1, <2>2, OutcomeKnown DEF IInv, ClassIsOutcome
<1>2. QED
  BY <1>1, Invariance, PTL

\* Start and completion events match, but for the last one's when an interrupt
\* struck before its try or in its finally.
THEOREM SpansClosed == Spec => []SpansMatch
<1>1. IInv => SpansMatch
  BY DEF IInv, ClassIsOutcome, Spans, SpansMatch
<1>2. QED
  BY <1>1, Invariance, PTL

\* The exit status is the first failing file's, whoever stopped reading and when,
\* for any number of files.
THEOREM StatusVerdict == Spec => []StatusIsVerdict
<1> USE RunAssumption DEF RunAssumption
<1>1. IInv => StatusIsVerdict
  <2> SUFFICES ASSUME IInv, pc = "exited"
               PROVE  IF interrupted THEN status # 0
                      ELSE status = IF class = "none" THEN 1 ELSE OutcomeStatus
    BY DEF StatusIsVerdict
  <2>1. CASE interrupted
    BY <2>1 DEF IInv, HookGuards
  <2>2. CASE ~interrupted
    <3>1. status = requested % 256
      BY <2>2 DEF IInv, HookGuards
    <3>2. CASE class = "none"
      BY <2>2, <3>1, <3>2 DEF IInv, ClassIsOutcome, Ending
    <3>3. CASE class = "success"
      <4>1. requested = 0 /\ Outcome = "success"
        BY <3>3, OutcomeKnown DEF IInv, ClassIsOutcome
      <4>2. QED
        BY <2>2, <3>1, <3>3, <4>1 DEF OutcomeStatus
    <3>4. CASE class = "execution"
      <4>1. requested = 1 /\ Outcome = "execution"
        BY <3>4, OutcomeKnown DEF IInv, ClassIsOutcome, Bad
      <4>2. QED
        BY <2>2, <3>1, <3>4, <4>1 DEF OutcomeStatus
    <3>5. CASE class = "refused"
      <4>1. requested = FailCode /\ Outcome = "refused"
        BY <3>5, OutcomeKnown, Codes DEF IInv, ClassIsOutcome, Bad
      <4>2. QED
        BY <2>2, <3>1, <3>5, <4>1 DEF OutcomeStatus
    <3>6. CASE class = "killed"
      <4>1. requested = -Signal /\ Outcome = "killed"
        BY <3>6, OutcomeKnown, Codes DEF IInv, ClassIsOutcome, Bad
      <4>2. QED
        BY <2>2, <3>1, <3>6, <4>1 DEF OutcomeStatus
    <3>7. class # "unexpected"
      BY <2>2 DEF IInv, ClassIsOutcome, Ending
    <3>8. QED
      BY <3>2, <3>3, <3>4, <3>5, <3>6, <3>7 DEF IInv, TypeOK
  <2>3. QED
    BY <2>1, <2>2
<1>2. QED
  BY <1>1, Invariance, PTL
================================================================================
