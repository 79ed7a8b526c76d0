-------------------------------- MODULE VerusRun --------------------------------
(***************************************************************************)
(* prover-tools verus run, from its arguments to its exit status: run_verus*)
(* of verus/run.py finds the proof files, the verifier (installing it when *)
(* it may) and the toolchain; verify_proof_files of verus/batch.py runs    *)
(* the verifier on one file after the other and reports the spans of the   *)
(* batch; verus_run prints the outcome and main exits.                     *)
(*                                                                         *)
(* What the verifier will say of each file is fixed in advance, so that    *)
(* the batch can be compared with it; everything else the run depends on   *)
(* (what exists, which flags are set, what an install or rustup comes to)  *)
(* is chosen where the code looks at it.  Ctrl-C may come at any moment    *)
(* until the exit hook, and the readers of the output may leave at any.    *)
(***************************************************************************)
EXTENDS Integers, ExitStatus

CONSTANTS N,         \* number of proof files
          FailCode,  \* what the verifier exits with on a failed proof
          Signal     \* the signal that may kill it

\* The verifier proves the file, refuses it, is killed, or cannot be started.
Verdicts == {"proved", "refused", "killed", "unstartable"}

ASSUME RunAssumption == /\ N \in Nat \ {0}
                        /\ FailCode \in 1..255
                        /\ Signal \in 1..64

VARIABLES verdict,      \* what the verifier will do for each file
          pc,           \* where the command is
          ordinal,      \* the invocation the batch is at
          proved,       \* files proved, in order
          started,      \* invocation start events
          ended,        \* invocation completion events
          class,        \* status_class and error_category of the batch
          summary,      \* what the batch reported, or "none"
          failed,       \* an error is going to be reported
          requested,    \* the code the command returns
          interrupted,  \* KeyboardInterrupt is on its way out
          status        \* the exit status, or -1 while the process runs

batch == <<ordinal, proved, started, ended, class, summary>>
ending == <<failed, requested, interrupted, status>>
vars == <<verdict, pc, batch, ending, outputs>>

Preparing == {"proofs", "binary", "install", "probe", "rustup", "reprobe"}
Batching == {"batch", "next", "starting", "running", "closing", "summary"}
Running == Preparing \cup Batching \cup {"report", "hook", "hook2", "flush"}

\* The exit code of an invocation that came to v: negative for a signal.
CodeOf(v) == CASE v = "proved" -> 0
               [] v = "refused" -> FailCode
               [] v = "killed" -> -Signal

Init == /\ verdict \in [1..N -> Verdicts]
        /\ pc = "proofs"
        /\ ordinal = 0
        /\ proved = 0
        /\ started = 0
        /\ ended = 0
        /\ class = "none"
        /\ summary = "none"
        /\ failed = FALSE
        /\ requested = 0
        /\ interrupted = FALSE
        /\ status = -1
        /\ OutputInit

Step(from, to) == pc = from /\ pc' = to
KeepRest == UNCHANGED <<verdict, batch, outputs>>

\* ProverToolError (CommandFailedError included), or any other exception but
\* for the interrupt: a message and the code 1.
Fails == /\ pc \in Preparing
         /\ pc' = "report"
         /\ failed' = TRUE
         /\ requested' = 1
         /\ UNCHANGED <<interrupted, status>>
         /\ KeepRest

\* resolve_proof_files: every file is there.
FindProofs == Step("proofs", "binary") /\ UNCHANGED ending /\ KeepRest

\* ensure_run_binary: the override or else the default is runnable, or the
\* default is missing and may be installed.
FindBinary == /\ pc = "binary"
              /\ \E override, default, install \in BOOLEAN :
                   pc' = IF override \/ default THEN "probe"
                         ELSE IF install THEN "install" ELSE "report"
              /\ failed' = (pc' = "report")
              /\ requested' = IF pc' = "report" THEN 1 ELSE 0
              /\ UNCHANGED <<interrupted, status>>
              /\ KeepRest

\* install_verus returns and the binary is there; otherwise Fails.
Install == Step("install", "probe") /\ UNCHANGED ending /\ KeepRest

\* ensure_verus_toolchain: the verifier's --version exits zero, or a toolchain
\* may be installed for it.
Probe == /\ pc = "probe"
         /\ pc' \in {"batch", "rustup"}
         /\ UNCHANGED ending
         /\ KeepRest

\* ensure_toolchain_installed, then --version again.
Rustup == Step("rustup", "reprobe") /\ UNCHANGED ending /\ KeepRest
Reprobe == Step("reprobe", "batch") /\ UNCHANGED ending /\ KeepRest

\* Mutant: success by default.
BeginBatchTrusting == /\ Step("batch", "next")
                      /\ class' = "success"
                      /\ UNCHANGED <<verdict, ordinal, proved, started, ended, summary,
                                     ending, outputs>>

\* verify_proof_files: failure by default until the loop is done.
BeginBatch == /\ Step("batch", "next")
              /\ class' = "unexpected"
              /\ UNCHANGED <<verdict, ordinal, proved, started, ended, summary, ending,
                             outputs>>

\* Mutant: the loop is not left after the last file.
BeginInvocationUnbounded == /\ Step("next", "starting")
                            /\ ordinal' = ordinal + 1
                            /\ started' = started + 1
                            /\ UNCHANGED <<verdict, proved, ended, class, summary,
                                           ending, outputs>>

\* _run_one, up to its try: the start event is out.
BeginInvocation == /\ Step("next", "starting")
                   /\ ordinal < N
                   /\ ordinal' = ordinal + 1
                   /\ started' = started + 1
                   /\ UNCHANGED <<verdict, proved, ended, class, summary, ending,
                                  outputs>>

\* _invoke, with the verifier's output echoed (cuprum, external: a reader that
\* leaves does not fail the command).
Invoke == /\ Step("starting", "running")
          /\ PrintLines("stdout")
          /\ UNCHANGED <<verdict, batch, ending>>

\* Mutant: a failed file does not stop the batch.
RefusedGoesOn == /\ Step("running", "closing")
                 /\ verdict[ordinal] \in {"refused", "killed"}
                 /\ class' = verdict[ordinal]
                 /\ UNCHANGED <<verdict, ordinal, proved, started, ended, summary, ending,
                                outputs>>

\* A non-zero exit: VerusProofFailedError.
Refused == /\ Step("running", "closing")
           /\ verdict[ordinal] \in {"refused", "killed"}
           /\ class' = verdict[ordinal]
           /\ failed' = TRUE
           /\ requested' = CodeOf(verdict[ordinal])
           /\ UNCHANGED <<verdict, ordinal, proved, started, ended, summary, interrupted,
                          status, outputs>>

\* OSError: _partial_run_error.
Unstartable == /\ Step("running", "closing")
               /\ verdict[ordinal] = "unstartable"
               /\ class' = "execution"
               /\ failed' = TRUE
               /\ requested' = 1
               /\ UNCHANGED <<verdict, ordinal, proved, started, ended, summary,
                              interrupted, status, outputs>>

\* proved.append.
Proved == /\ Step("running", "closing")
          /\ verdict[ordinal] = "proved"
          /\ proved' = proved + 1
          /\ UNCHANGED <<verdict, ordinal, started, ended, class, summary, ending, outputs>>

\* Mutant: the completion event is not in a finally.
CloseIfReturned == /\ pc = "closing"
                   /\ ended' = IF failed \/ interrupted THEN ended ELSE ended + 1
                   /\ pc' = IF failed \/ interrupted THEN "summary" ELSE "next"
                   /\ UNCHANGED <<verdict, ordinal, proved, started, class, summary,
                                  ending, outputs>>

\* The finally of _run_one: the completion event, and on with the loop or with
\* the exception.
CloseSpan == /\ pc = "closing"
             /\ ended' = ended + 1
             /\ pc' = IF failed \/ interrupted THEN "summary" ELSE "next"
             /\ UNCHANGED <<verdict, ordinal, proved, started, class, summary, ending,
                            outputs>>

AllProved == /\ Step("next", "summary")
             /\ ordinal = N
             /\ class' = "success"
             /\ UNCHANGED <<verdict, ordinal, proved, started, ended, summary, ending,
                            outputs>>

\* emit_summary, in the finally of verify_proof_files.
Summarise == /\ Step("summary", "report")
             /\ summary' = class
             /\ UNCHANGED <<verdict, ordinal, proved, started, ended, class, ending,
                            outputs>>

\* KeyboardInterrupt.  In the try of _run_one, its except or its else, the
\* finally still closes the span; before the try, or in the finally, nothing
\* does.  The finally of verify_proof_files reports the batch, unless it is that
\* which is interrupted; no except takes the exception, which the interpreter
\* prints.
Interrupt == /\ pc \in Running \ {"hook", "hook2", "flush"}
             /\ ~interrupted
             /\ interrupted' = TRUE
             /\ \/ pc \in {"running", "closing"} /\ pc' = "closing"
                \/ pc \in {"next", "starting", "closing"} /\ pc' = "summary"
                \/ pc \in Preparing \cup {"batch", "summary", "report"} /\ pc' = "report"
             /\ UNCHANGED <<verdict, batch, failed, requested, status, outputs>>

\* print_lines of the outcome, or the interpreter's traceback.
Report == /\ Step("report", "hook")
          /\ PrintLines(IF failed \/ interrupted THEN "stderr" ELSE "stdout")
          /\ UNCHANGED <<verdict, batch, ending>>

\* The hook guard_shutdown_flush registered: standard output, then error.
Hook == /\ \/ Step("hook", "hook2") /\ GuardOutput("stdout")
           \/ Step("hook2", "flush") /\ GuardOutput("stderr")
        /\ UNCHANGED <<verdict, batch, ending>>

\* sys.exit(code): a process's status has eight bits.  An interrupt ends the
\* process with 130, from cyclopts or as a shell reports SIGINT.
Exit == /\ Step("flush", "exited")
        /\ status' = Reported(IF interrupted THEN 130 ELSE requested % 256)
        /\ UNCHANGED <<verdict, batch, failed, requested, interrupted, outputs>>

Leave == /\ pc \in Running
         /\ CloseReader
         /\ UNCHANGED <<verdict, pc, batch, ending>>

Next == \/ Fails \/ FindProofs \/ FindBinary \/ Install \/ Probe \/ Rustup \/ Reprobe
        \/ BeginBatch \/ BeginInvocation \/ Invoke \/ Refused \/ Unstartable \/ Proved
        \/ CloseSpan \/ AllProved \/ Summarise \/ Interrupt \/ Report \/ Hook \/ Exit \/ Leave

Spec == Init /\ [][Next]_vars

--------------------------------------------------------------------------------

TypeOK == /\ verdict \in [1..N -> Verdicts]
          /\ pc \in Running \cup {"exited"}
          /\ ordinal \in 0..N
          /\ proved \in 0..N
          /\ started \in 0..N
          /\ ended \in 0..N
          /\ class \in {"none", "unexpected", "execution", "refused", "killed", "success"}
          /\ summary \in {"none", "unexpected", "execution", "refused", "killed", "success"}
          /\ failed \in BOOLEAN
          /\ requested \in {0, 1, FailCode, -Signal}
          /\ interrupted \in BOOLEAN
          /\ status \in {-1} \cup 0..255
          /\ OutputType

\* What the batch ought to come to, read off the verdicts alone.
Failures == {i \in 1..N : verdict[i] # "proved"}
FirstFailure == CHOOSE i \in Failures : \A j \in Failures : i <= j
Outcome == IF Failures = {} THEN "success"
           ELSE IF verdict[FirstFailure] = "unstartable" THEN "execution"
           ELSE verdict[FirstFailure]
OutcomeStatus == CASE Outcome = "success" -> 0
                   [] Outcome = "execution" -> 1
                   [] Outcome = "refused" -> FailCode
                   [] Outcome = "killed" -> 256 - Signal

\* The exit status is the first failing file's, or zero when every file was
\* proved, whichever readers left and whenever (users-guide.md:182-187, 259);
\* a run that never got to its batch exits with one, and an interrupted run
\* never with zero.
StatusIsVerdict == pc = "exited" =>
    IF interrupted THEN status # 0
    ELSE status = IF class = "none" THEN 1 ELSE OutcomeStatus

\* Files are run in order and none after the first failure (verify_proof_files).
FailFast == Failures # {} => ordinal <= FirstFailure /\ proved < FirstFailure

\* The batch reports what it came to, "rather than a misleading success" when
\* it was cut short (batch.py:289-290).
SummaryIsHonest == summary # "none" =>
                     \/ summary = Outcome
                     \/ summary = "unexpected" /\ interrupted

\* Once the batch has been reported every start event has its completion event,
\* "on every exit path" (batch.py:202-209) but those of an interrupt before the
\* try or in the finally itself: it leaves one open, the last one's, which is of
\* a file that may have been proved already.
SpansMatch == summary # "none" /\ started # ended =>
                interrupted /\ started = ended + 1 /\ ordinal = started
================================================================================
