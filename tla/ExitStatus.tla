------------------------------- MODULE ExitStatus -------------------------------
(***************************************************************************)
(* The output side of a command: rust_prover_tools/exit_status.py.         *)
(* Standard output and standard error may be pipes whose reader goes away  *)
(* at any moment, each its own or both the same (2>&1).  print_lines and   *)
(* the exit hook keep that from replacing the status of the command, which *)
(* CPython otherwise reports as 120 when its last flush fails.             *)
(*                                                                         *)
(* A stream is what it leads to and whether it holds text; how much is     *)
(* left out.  A write may leave text in the buffer or not: it does when    *)
(* the stream is buffered, when an unbuffered one has lost its reader, and *)
(* does not when the text went out.                                        *)
(***************************************************************************)

VARIABLES reader,      \* the pipe behind each stream has its reader
          holds,       \* each stream holds text it has not written
          leads,       \* what each stream leads to
          merged,      \* both streams are one pipe
          descriptor   \* the streams have file descriptors

outputs == <<reader, holds, leads, merged, descriptor>>

Streams == {"stdout", "stderr"}

OutputType == /\ reader \in [Streams -> BOOLEAN]
              /\ holds \in [Streams -> BOOLEAN]
              /\ leads \in [Streams -> {"pipe", "null", "sink"}]
              /\ merged \in BOOLEAN
              /\ descriptor \in BOOLEAN

OutputInit == /\ reader = [s \in Streams |-> TRUE]
              /\ holds = [s \in Streams |-> FALSE]
              /\ leads = [s \in Streams |-> "pipe"]
              /\ merged \in BOOLEAN
              /\ descriptor \in BOOLEAN

\* The reader goes away: a quit pager, head.
CloseReader == /\ \E s \in Streams :
                    reader' = [t \in Streams |-> reader[t] /\ t # s /\ ~merged]
               /\ UNCHANGED <<holds, leads, merged, descriptor>>

\* A flush of s raises BrokenPipeError.
Dead(s) == holds[s] /\ leads[s] = "pipe" /\ ~reader[s]

\* print_lines: BrokenPipeError ends the printing and is suppressed.
PrintLines(s) == /\ \E kept \in BOOLEAN : holds' = [holds EXCEPT ![s] = kept]
            /\ UNCHANGED <<reader, leads, merged, descriptor>>

Flush(s) == /\ ~Dead(s)
            /\ holds' = [holds EXCEPT ![s] = FALSE]
            /\ UNCHANGED leads

\* dup2 of the null device: what the stream holds goes there.
Redirect(s) == /\ Dead(s)
               /\ descriptor
               /\ leads' = [leads EXCEPT ![s] = "null"]
               /\ UNCHANGED holds

\* There is no descriptor, or dup2 fails: a sink takes the stream's place.
Replace(s) == /\ Dead(s)
              /\ leads' = [leads EXCEPT ![s] = "sink"]
              /\ holds' = [holds EXCEPT ![s] = FALSE]

\* Mutant: only standard output is guarded.
GuardOutputOnly(s) == /\ \/ Flush(s) /\ s = "stdout"
                         \/ Redirect(s) /\ s = "stdout"
                         \/ Replace(s) /\ s = "stdout"
                         \/ s = "stderr" /\ UNCHANGED <<holds, leads>>
                      /\ UNCHANGED <<reader, merged, descriptor>>

\* _guard_output, in the exit hook.
GuardOutput(s) == /\ Flush(s) \/ Redirect(s) \/ Replace(s)
                  /\ UNCHANGED <<reader, merged, descriptor>>

\* What the process exits with when it asked for a status: the interpreter
\* flushes both streams first.
Reported(status) == IF \E s \in Streams : Dead(s) THEN 120 ELSE status
================================================================================
