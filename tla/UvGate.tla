--------------------------------- MODULE UvGate ---------------------------------
(***************************************************************************)
(* scripts/uv_gate.py, the helper every uv call of the Makefile goes       *)
(* through: prepare, run and tool.  Three things run at once while uv      *)
(* does: uv (and whatever it leaves behind), writing its standard error    *)
(* into a pipe; the gate's pump thread, copying the pipe to the gate's own *)
(* standard error and keeping its end; and the main thread, waiting for uv *)
(* and then for the pump.  The end of the output decides whether uv is run *)
(* once more, online.                                                      *)
(*                                                                         *)
(* A line stands for one message of uv.  Four of the signatures stand for  *)
(* all ten: stale-lock for missing-lock too, cache-miss and missing-python *)
(* for the four misses (one of them is a single sentence before auth in    *)
(* the order of SIGNATURES, one has two parts and comes after it), and     *)
(* auth for missing-revision and missing-package.                          *)
(***************************************************************************)
EXTENDS Integers, SequencesExt

CONSTANTS MaxLines,   \* bound on what uv writes in one run
          TailSize,   \* TAIL_BYTES, in lines
          PipeSize,   \* what the pipe holds
          FailCode,   \* what a failing uv exits with
          Signal      \* the signal that may kill it

ASSUME GateAssumption == /\ MaxLines \in Nat
                         /\ TailSize \in Nat \ {0}
                         /\ PipeSize \in Nat \ {0}
                         /\ FailCode \in 1..255
                         /\ Signal \in 1..64

VARIABLES subcommand,   \* prepare, run or tool
          allowed,      \* UV_GATE_ALLOW_ONLINE is not 0
          pc,           \* where the main thread is
          attempt,      \* how uv was last run
          child,        \* the uv process
          result,       \* what it exited with
          holder,       \* a descendant of uv still holds its output
          pipe,         \* uv's standard error, not yet read
          pump,         \* the thread
          shown,        \* lines of this run of uv the gate has passed on
          tail,         \* the end of them
          said,         \* history: all that was written in this run of uv
          reader,       \* the gate's own standard error has its reader
          shim,         \* the Git shim directory exists
          refused,      \* GateError
          interrupted,  \* KeyboardInterrupt
          struck,       \* history: where it struck the main thread
          broken,       \* BrokenPipeError out of say
          status        \* the exit status, or -1 while the gate runs

request == <<subcommand, allowed>>
uv == <<child, result, holder, said>>
output == <<pipe, pump, shown, tail>>
sigint == <<interrupted, struck>>
ending == <<refused, sigint, broken, status>>
vars == <<request, pc, attempt, uv, output, reader, shim, ending>>

Preparing == {"validate", "locate", "query", "drain", "link", "shim", "ready"}
Working == {"spawn", "wait", "join", "decide", "retry", "report"}
Running == Preparing \cup Working \cup {"close", "metric", "shutdown"}

--------------------------------------------------------------------------------

SIGNATURES == << <<"stale-lock", <<"stale-lock">> >>,
                 <<"cache-miss", <<"cache-miss">> >>,
                 <<"auth", <<"auth">> >>,
                 <<"missing-python", <<"no-interpreter", "download-offline">> >> >>

Lines == {"stale-lock", "cache-miss", "auth", "no-interpreter", "download-offline", "other"}

ONLINE_RECOVERABLE == {"cache-miss", "missing-python"}

\* re.search of a signature: its parts are there, in order.
Shows(text, signature) ==
    \E i, j \in DOMAIN text : /\ i <= j
                              /\ text[i] = Head(signature[2])
                              /\ text[j] = Last(signature[2])

\* Mutant: the last matching signature wins.
classifyLast(text) ==
    LET hits == {n \in DOMAIN SIGNATURES : Shows(text, SIGNATURES[n])}
    IN IF hits = {} THEN "unknown" ELSE SIGNATURES[Max(hits)][1]

\* The first matching signature wins.
classify(text) ==
    LET hits == {n \in DOMAIN SIGNATURES : Shows(text, SIGNATURES[n])}
    IN IF hits = {} THEN "unknown" ELSE SIGNATURES[Min(hits)][1]

\* Mutant: the tail is never cut.
LastLinesAll(lines) == lines

\* del tail[:-TAIL_BYTES]
LastLines(lines) == SubSeq(lines, Max({1, Len(lines) - TailSize + 1}), Len(lines))

--------------------------------------------------------------------------------

Init == /\ subcommand \in {"prepare", "run", "tool"}
        /\ allowed \in BOOLEAN
        /\ pc = "validate"
        /\ attempt = "none"
        /\ child = "none"
        /\ result = 0
        /\ holder = FALSE
        /\ pipe = <<>>
        /\ pump = "none"
        /\ shown = 0
        /\ tail = <<>>
        /\ said = <<>>
        /\ reader = TRUE
        /\ shim = FALSE
        /\ refused = FALSE
        /\ interrupted = FALSE
        /\ struck = "none"
        /\ broken = FALSE
        /\ status = -1

Step(from, to) == pc = from /\ pc' = to

\* say: a line on standard error, which BrokenPipeError leaves.
Say == broken' = ~reader

\* GateError: a forbidden flag, an unpinned tool, no uv, no cache directory,
\* an unusable path, a shim that cannot be made (close removes it), a uv that
\* cannot be started.
Refuse == /\ pc \in (Preparing \ {"drain", "ready"}) \cup {"spawn"}
          /\ pc' = "report"
          /\ refused' = TRUE
          /\ UNCHANGED <<request, attempt, uv, output, reader, shim, sigint, broken, status>>

Validate == Step("validate", "locate") /\ UNCHANGED <<request, attempt, uv, output, reader,
                                                     shim, ending>>

Locate == Step("locate", "query") /\ UNCHANGED <<request, attempt, uv, output, reader, shim,
                                                ending>>

\* _query_cache_dir answers within its sixty seconds.
Query == Step("query", "link") /\ UNCHANGED <<request, attempt, uv, output, reader, shim,
                                             ending>>

\* It does not, and is killed; what it left behind may hold its output, which
\* the second communicate reads to the end, without a timeout.
QueryTimesOut == /\ Step("query", "drain")
                 /\ holder' \in BOOLEAN
                 /\ UNCHANGED <<request, attempt, child, result, said, output, reader, shim,
                                ending>>

QueryDrained == /\ Step("drain", "report")
                /\ ~holder
                /\ refused' = TRUE
                /\ UNCHANGED <<request, attempt, uv, output, reader, shim, sigint, broken,
                               status>>

\* The cache directory is made and the link mode chosen.
ChooseLinkMode == Step("link", "shim") /\ UNCHANGED <<request, attempt, uv, output, reader,
                                                     shim, ending>>

\* install_git_shim, if there is a system Git.
InstallShim == /\ Step("shim", "ready")
               /\ shim' \in BOOLEAN
               /\ UNCHANGED <<request, attempt, uv, output, reader, ending>>

\* build_context returns: from here on _dispatch closes the context.
ContextReady == Step("ready", "spawn") /\ UNCHANGED <<request, attempt, uv, output, reader,
                                                     shim, ending>>

\* Popen and the start of the pump.  The first run is offline, whatever the
\* subcommand; a second is online.
Spawn == /\ Step("spawn", "wait")
         /\ attempt' = IF attempt = "none" THEN "offline" ELSE "online"
         /\ child' = "running"
         /\ result' = 0
         /\ holder' = FALSE
         /\ said' = <<>>
         /\ pipe' = <<>>
         /\ pump' = "running"
         /\ shown' = 0
         /\ tail' = <<>>
         /\ UNCHANGED <<request, reader, shim, ending>>

\* process.wait() returns.
Wait == /\ Step("wait", "join")
        /\ child = "gone"
        /\ UNCHANGED <<request, attempt, uv, output, reader, shim, ending>>

\* Mutant: the pump is not joined.
JoinNothing == /\ pc = "join"
               /\ pc' = IF interrupted THEN "close" ELSE "decide"
               /\ UNCHANGED <<request, attempt, uv, output, reader, shim, ending>>

\* reader.join(), on either way out of the try.
Join == /\ pc = "join"
        /\ pump \in {"done", "dead"}
        /\ pc' = IF interrupted THEN "close" ELSE "decide"
        /\ UNCHANGED <<request, attempt, uv, output, reader, shim, ending>>

\* Mutant: the online run is repeated like the offline one.
RetriesAgain == /\ subcommand # "run"
                /\ classify(tail) \in ONLINE_RECOVERABLE
                /\ allowed

\* Whether a failed run earns the online one: prepare and tool, at most once.
Retries == /\ subcommand # "run"
           /\ attempt = "offline"
           /\ classify(tail) \in ONLINE_RECOVERABLE
           /\ allowed

\* prepare, run_gate or tool after _run_streaming.
Decide ==
    /\ pc = "decide"
    /\ pc' = CASE result = 0 -> "close"
               [] subcommand = "run" -> IF classify(tail) = "unknown" THEN "close"
                                        ELSE "report"
               [] OTHER -> IF Retries THEN "retry" ELSE "report"
    /\ UNCHANGED <<request, attempt, uv, output, reader, shim, ending>>

\* The line before the online run.
Retry == /\ pc = "retry"
         /\ Say
         /\ pc' = IF broken' THEN "close" ELSE "spawn"
         /\ UNCHANGED <<request, attempt, uv, output, reader, shim, refused, sigint, status>>

\* The line about a failure or a refusal.
Report == /\ Step("report", "close")
          /\ Say
          /\ UNCHANGED <<request, attempt, uv, output, reader, shim, refused, sigint, status>>

\* Mutant: the context is closed on the way of a return alone.
CloseIfReturned == /\ pc = "close"
                   /\ shim' = (shim /\ (interrupted \/ broken))
                   /\ pc' = IF interrupted \/ broken THEN "shutdown" ELSE "metric"
                   /\ UNCHANGED <<request, attempt, uv, output, reader, ending>>

\* The finally of _dispatch; main says its metric unless an exception passes.
Close == /\ pc = "close"
         /\ shim' = FALSE
         /\ pc' = IF interrupted \/ broken THEN "shutdown" ELSE "metric"
         /\ UNCHANGED <<request, attempt, uv, output, reader, ending>>

Metric == /\ Step("metric", "shutdown")
          /\ Say
          /\ UNCHANGED <<request, attempt, uv, output, reader, shim, refused, sigint, status>>

\* Mutant: the status of a refusal is uv's.
ExitUnrefused == /\ Step("shutdown", "exited")
                 /\ pump # "running"
                 /\ status' = IF interrupted THEN 130 ELSE IF broken THEN 120
                              ELSE result % 256
                 /\ UNCHANGED <<request, attempt, uv, output, reader, shim, refused,
                                sigint, broken>>

\* sys.exit(main()).  The interpreter joins the pump, flushes its streams, and
\* exits with 120 if standard error still holds what it could not write.
Exit == /\ Step("shutdown", "exited")
        /\ pump # "running"
        /\ status' = IF interrupted THEN 130 ELSE IF broken THEN 120
                     ELSE IF refused THEN 2 ELSE result % 256
        /\ UNCHANGED <<request, attempt, uv, output, reader, shim, refused, sigint, broken>>

\* KeyboardInterrupt: out of process.wait() uv is terminated and the pump still
\* joined; _dispatch closes the context if it has it, and nothing catches.
Interrupt == /\ pc \in Running \ {"shutdown"}
             /\ ~interrupted
             /\ interrupted' = TRUE
             /\ struck' = pc
             /\ pc' = CASE pc \in Preparing \cup {"close", "metric"} -> "shutdown"
                        [] pc = "wait" -> "join"
                        [] pc = "report" /\ attempt = "none" /\ ~shim -> "shutdown"
                        [] OTHER -> "close"
             /\ UNCHANGED <<request, attempt, uv, output, reader, shim, refused, broken,
                            status>>

--------------------------------------------------------------------------------

\* uv, or what it left behind, writes a line while there is room in the pipe.
Write == /\ child \in {"running", "blocked"} \/ holder
         /\ pump # "none"
         /\ Len(said) < MaxLines
         /\ Len(pipe) < PipeSize
         /\ \E line \in Lines : /\ pipe' = Append(pipe, line)
                                /\ said' = Append(said, line)
         /\ child' = IF child = "blocked" THEN "running" ELSE child
         /\ UNCHANGED <<request, pc, attempt, result, holder, pump, shown, tail, reader,
                        shim, ending>>

\* uv has more to write and no room: it waits in write(2).
Block == /\ child = "running"
         /\ Len(said) < MaxLines
         /\ Len(pipe) = PipeSize
         /\ child' = "blocked"
         /\ UNCHANGED <<request, pc, attempt, result, holder, said, output, reader, shim,
                        ending>>

\* uv ends, maybe leaving a process of its own; SIGTERM ends it in a write too.
End == /\ child = "running" \/ (child = "blocked" /\ interrupted)
       /\ child' = "gone"
       /\ result' \in {0, FailCode, -Signal}
       /\ holder' \in BOOLEAN
       /\ UNCHANGED <<request, pc, attempt, said, output, reader, shim, ending>>

\* That process ends, or closes what it inherited.
Release == /\ holder
           /\ child # "running"
           /\ holder' = FALSE
           /\ UNCHANGED <<request, pc, attempt, child, result, said, output, reader, shim,
                          ending>>

\* pump: a chunk goes to the gate's standard error and to the tail.  Without a
\* reader the flush raises, the thread ends and the pipe stays open, unread.
Pump ==
    /\ pump = "running"
    /\ pipe # <<>>
    /\ pipe' = Tail(pipe)
    /\ IF reader
       THEN /\ shown' = shown + 1
            /\ tail' = LastLines(Append(tail, Head(pipe)))
            /\ UNCHANGED pump
       ELSE pump' = "dead" /\ UNCHANGED <<shown, tail>>
    /\ UNCHANGED <<request, pc, attempt, uv, reader, shim, ending>>

\* os.read returns nothing: every writer has closed the pipe.
PumpEnds == /\ pump = "running"
            /\ pipe = <<>>
            /\ child = "gone"
            /\ ~holder
            /\ pump' = "done"
            /\ UNCHANGED <<request, pc, attempt, uv, pipe, shown, tail, reader, shim, ending>>

\* The reader of the gate's standard error goes away.
Leave == /\ pc # "exited"
         /\ reader
         /\ reader' = FALSE
         /\ UNCHANGED <<request, pc, attempt, uv, output, shim, ending>>

Main == \/ Refuse \/ Validate \/ Locate \/ Query \/ QueryTimesOut \/ QueryDrained
        \/ ChooseLinkMode \/ InstallShim \/ ContextReady \/ Spawn \/ Wait \/ Join \/ Decide
        \/ Retry \/ Report \/ Close \/ Metric \/ Exit

Next == Main \/ Interrupt \/ Write \/ Block \/ End \/ Release \/ Pump \/ PumpEnds \/ Leave

Spec == Init /\ [][Next]_vars

\* Both threads of the gate run; uv, and what it leaves behind, end when they
\* are not blocked.  Nothing is assumed of the reader.
FairSpec == /\ Spec
            /\ WF_vars(Main)
            /\ WF_vars(Pump \/ PumpEnds)
            /\ WF_vars(Write)
            /\ WF_vars(End)
            /\ WF_vars(Release)

--------------------------------------------------------------------------------

TypeOK == /\ subcommand \in {"prepare", "run", "tool"}
          /\ allowed \in BOOLEAN
          /\ pc \in Running \cup {"exited"}
          /\ attempt \in {"none", "offline", "online"}
          /\ child \in {"none", "running", "blocked", "gone"}
          /\ result \in {0, FailCode, -Signal}
          /\ holder \in BOOLEAN
          /\ pipe \in Seq(Lines) /\ Len(pipe) <= PipeSize
          /\ pump \in {"none", "running", "done", "dead"}
          /\ shown \in 0..MaxLines
          /\ tail \in Seq(Lines) /\ Len(tail) <= TailSize
          /\ said \in Seq(Lines) /\ Len(said) <= MaxLines
          /\ reader \in BOOLEAN
          /\ shim \in BOOLEAN
          /\ refused \in BOOLEAN
          /\ interrupted \in BOOLEAN
          /\ struck \in {"none"} \cup Running
          /\ broken \in BOOLEAN
          /\ status \in {-1} \cup 0..255

\* "It goes online once, and only for the same four proven misses"; run never
\* (uv_gate.py:8-18): uv is run online only after one offline run of prepare
\* or tool that failed, was allowed to, and wrote one of the misses, and never
\* when the tail kept of it shows a stale lock.  Only the tail: a stale lock that
\* was pushed out of it by what uv wrote after it is not seen, and a miss in the
\* tail is then retried, against "never retries a ... stale lock"
\* (uv_gate.py:27-28).
OnlineIsProven ==
    [][/\ attempt = "online" => attempt' = "online" /\ (child = "gone" => child' = "gone")
       /\ attempt # "online" /\ attempt' = "online" =>
            /\ attempt = "offline"
            /\ subcommand \in {"prepare", "tool"}
            /\ allowed
            /\ result # 0
            /\ ~Shows(LastLines(said), SIGNATURES[1])
            /\ \E n \in DOMAIN SIGNATURES : /\ SIGNATURES[n][1] \in ONLINE_RECOVERABLE
                                            /\ Shows(said, SIGNATURES[n])]_vars

\* "Failures print one line after uv's own output, which is passed through
\* unchanged" (uv_gate.py:30-31): when the gate decides and speaks, all that uv
\* and its descendants wrote has gone out and the tail is its end, unless the
\* reader left on the way.
OutputFirst == pc \in {"decide", "retry", "report"} /\ attempt # "none" /\ ~refused =>
                 \/ pump = "dead" /\ ~reader
                 \/ pipe = <<>> /\ shown = Len(said) /\ tail = LastLines(said)

\* "Its exit status is uv's exit status; its own refusals exit with status 2"
\* (uv_gate.py:29), while somebody reads its standard error; and whoever
\* leaves, the status is zero only if uv's last run was.
StatusIsUvs == pc = "exited" =>
    /\ reader => status = IF interrupted THEN 130 ELSE IF refused THEN 2 ELSE result % 256
    /\ status = 0 => result = 0 /\ attempt # "none" /\ ~refused /\ ~interrupted

\* The Git shim directory is gone when the gate ends, whether it returned, was
\* refused, lost its reader or was interrupted while uv ran, while the pump was
\* joined or while it spoke (the finally of _dispatch).  Left behind it is only by
\* an interrupt before _dispatch has the context it is closed through, or during
\* its removal.
ShimIsRemoved == pc = "exited" /\ shim => struck \in {"ready", "close"}

\* The gate ends when uv does and somebody reads its standard error.  When
\* nobody does the pump dies, uv may block on the full pipe, and the gate waits
\* for it in process.wait() for good.
Ends == <>(pc = "exited") \/ <>(~reader)
================================================================================
