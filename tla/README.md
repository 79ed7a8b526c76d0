# A formal model of rust-prover-tools

`rust-prover-tools` installs pinned releases of Rust provers (Kani, Verus, Z3)
and runs them. Almost everything that can go wrong in it goes wrong between two
system calls: a process killed between two renames, a rollback that fails
half-way, a server that never ends its answer, a second process in the same
directory. The TLA+ modules here model those parts of the code at the
granularity of the system calls that matter, TLC checks them on small
instances, and TLAPS proves the main safety properties for every instance.

`PROJECT.json` is the machine-readable index: the parts of the system, the
runs, the definition-to-source map, the hazards each property is for, and the
theorems.

## 1. The system

| Part | Source (`rust_prover_tools/`) | State it keeps | Operations | Hard behaviour | Modelled |
| --- | --- | --- | --- | --- | --- |
| verified download store | `downloads.py` | the asset at its final path, `<name>.download` beside it | `download_pinned` | crash or failure at any step; clean-up that fails; two processes, one pending name | `DownloadStore`, `VerifiedStore` |
| HTTPS transfer | `download_transport.py`, `download_stream.py`, `download_url.py` | connection, deadline, bytes written | `_download`, `_stream` | redirects, slow or endless servers, missing or wrong `Content-Length` | `DownloadTransfer` |
| Kani frontend extraction | `kani_archive.py` | two executables, `.<name>.download`, `.<name>.previous` | `extract_frontend` | two renames that must act as one; failing rollback; interrupts | `KaniFrontend` |
| Z3 installer | `z3.py` | the binary, its version marker, a pending file of each | `install_z3` | a crash between the two renames; directories shared by versions | `Z3Install` |
| Verus installer | `verus/install.py` | the tree at `verus`, the `verus-*` directories unzip makes | `install_verus` | delete-then-move; leftovers of a killed unzip; pins that change | `VerusInstall` |
| Verus proof batch | `verus/batch.py` | proofs done, outcome, events | `verify_proof_files` | one of several proofs fails, cannot start or is interrupted | `VerusRun` |
| Verus run and toolchain | `verus/run.py`, `verus/models.py`, `verus_run_cli.py` | none of its own | `run_verus`, `ensure_*` | exit codes of signals; what is resolved when | `VerusRun` |
| exit status and output | `exit_status.py` | the two output streams | `print_lines`, `guard_shutdown_flush` | a reader that goes away at any write, the final flush included | `ExitStatus`, in `VerusRun` |
| Kani installer | `kani_binary.py`, `kani.py`, `binary_assets.py` | two archives in the cache, install directory, Kani home | `install_kani_binary` | a phase of several fails and the job is run again | `KaniInstall` (the build from source and `check_kani_version` are not) |
| Kani release execution | `kani_release*.py`, `kani_exec_cli.py` | none of its own: files of the release and of the repository, the child's environment | `exec_kani` | what is checked against what is run; configuration in many files; flags of one token or two | `KaniExec` |
| uv gate | `scripts/uv_gate.py` | child process, its pipe, stderr pump, Git shim | `tool`, `prepare`, `run_gate` | two threads and uv; output that decides a retry; a reader that leaves | `UvGate` |
| command line | `cli.py`, `commands.py` | none | parse, dispatch, `run_checked` | - | partly: `run_checked` and `main`'s exit inside the models that use them; parsing and dispatch not |
| pins, platforms, paths | `versions.py`, `platforms.py`, `path_resolution.py`, `errors.py` | none | pure functions | - | no: a failure is an early failure of the caller |
| observability | `observability.py` | none | `log_event` | - | no: changes no state a property is about |

How they interact: the command line calls one installer or runner; every
installer calls `download_pinned` for its archive, which calls the transfer and
then hashes and renames; `install_kani` goes on to `extract_frontend`. All calls
are synchronous and every process is single-threaded (the uv gate's stderr pump
is the exception). What processes share is the file system, and a later run
finds what an earlier one left there. So the models are of file-system state
under failures, kills and repetition, and of clocks in the transfer.

## 2. The modules

| Module | What it is |
| --- | --- |
| `VerifiedStore` | abstract: the final path holds what it held or the pinned asset; a call that returns leaves the asset |
| `DownloadStore` | `download_pinned` over inodes; implements `VerifiedStore` through the refinement mapping at its end |
| `MCDownloadStore` | its TLC instances (symmetry for the two-process run) |
| `DownloadStore_proofs` | TLAPS proofs |
| `DownloadTransfer`, `DownloadTransfer_proofs` | one transfer: hops, deadline, ceiling, length; and proofs |
| `KaniFrontend` | `extract_frontend` for N members |
| `KaniInstall`, `KaniInstall_proofs` | `install_kani_binary`: two `VerifiedStore`s, `KaniFrontend`, `cargo kani setup` and its check in sequence; and proofs about `KaniFrontend` by itself and then within it |
| `KaniExec`, `KaniExec_proofs` | `exec_kani` from the selected release to the proof's exit status, and proofs |
| `Z3Install`, `Z3Install_proofs` | `install_z3`, and proofs |
| `VerusInstall`, `MCVerusInstall`, `VerusInstall_proofs` | `install_verus`, its instances, and proofs |
| `ExitStatus` | the two output streams and the exit hook: operators over its own variables |
| `VerusRun`, `VerusRun_proofs` | `prover-tools verus run` from arguments to exit status; extends `ExitStatus`; and proofs |
| `UvGate`, `UvGate_proofs` | uv, the pump thread and the main thread of `uv_gate.py` over a bounded pipe, and proofs |

Composition is by contract: the installers take `download_pinned` at what
`VerifiedStore` promises (it returns with the whole asset or raises), which is
what `DownloadStore` is shown to implement (in `KaniInstall` literally: its two
downloads are instances of `VerifiedStore`); `DownloadStore` takes the transfer
as a source of blocks that may be cut or wrong, which is more than
`DownloadTransfer` lets happen.

Conventions. Each module's `pc` is the place in the handler's code. Each action
is the stretch of code between two points at which something else can happen: a
system call that changes a file, a wait, an exception. `Fault` counts failures
of the environment (an error of the operating system, `KeyboardInterrupt`, a
kill), so that the runs are finite; the number is a constant. Two ends of a run
are kept apart: an exception unwinds through the code's own clean-up, and a
`Crash` (SIGKILL) leaves the files as they are. After either, `Call` or `Begin`
runs the handler again, as a CI job does. Definitions whose comment says
*Mutant* are plausible bugs: substituted for the definition that follows them,
each makes one property fail, which shows the property can.

### DownloadStore
State: `contents` of inodes, the inodes `dest` and `pending` name, and per
process `pc`, the open `output`, its `offset`. Modelled down to inodes because
`open("wb")` truncates the inode that is there, an open file survives the
rename and unlink of its name, and a rename moves the inode: two processes
collide exactly there. `CacheHit`/`CacheMiss` are `_has_verified_copy`,
`OpenPending`/`WriteBlock`/`EndOfBody` are the transfer as seen from the file,
`HashMatches`/`Publish` are `_publish_verified`, `Unwind`/`Discard` are the
`_pending_download` context manager. Abstracted: hashing reads the file in one
step; a file is a few blocks, each the pin's, another's or a hole.

### DownloadTransfer
State: a clock that ticks only while the program waits for its socket, the hop,
the connection, the declared length, the bytes written, and the read in
progress. The environment picks every status, target, header and arrival. A
socket timeout bounds one `recv`; `getresponse()` and `read(n)` may make any
number of them. http.client passes over every `100 Continue` response before the
one it returns (`MoreHeaders`), and for a chunked body it also waits for size
lines, line ends and a trailer of any length, which bring no byte of the body
(`Brings`). So nothing in the code bounds one call, and the clock stands still at
`Horizon` to keep the state finite. `Remaining` is `deadline - monotonic()`.
`stretched` is history: the call in progress has waited before the wait it is in.

### KaniFrontend
State: three files for each member, the loop index `k`, the backups made, and
`failing` for an exception on its way out. `MoveAside`, `Replace`, `Restore`,
`RollBack`, `DropBackup` and `Discard` are the calls of `_publish_frontend` and
its helpers one rename or unlink at a time; `UndoFails` is the suppressed error
of a rollback step and `Interrupt` the exception `except OSError` lets through.

### KaniInstall
State: `phase` for the place in `install_kani_binary`, an archive and a call for
each of the two downloads, what `cargo kani setup` left in the Kani home, and
the whole state of `KaniFrontend`, which it extends. `Start` is the checks and
the call of the first `download_pinned`; `FrontendStored`, `FrontendReturned`
and their twins are steps of `VerifiedStore`; `Extract` is any step of
`extract_frontend`, after which the phase follows from how it ended. `Setup` is
`_run_setup`: another program, which makes a release from the bundle and the
executables there are, and which a failure, an interrupt or a kill leaves half
way (`SetupFails`). `Verify` is `cargo kani --version`. The state that matters
is what one run leaves for the next: a partial Kani home, backups, archives
somebody damaged in between (`CacheDamaged`).

### KaniExec
State: which parts of the selected release are the qualified ones, the
directory being read, the profiles whose backend a document selected, the
inherited flags and the child's, what is pinned, and the outcome. `Validate` is
`_validate_installation`, `CheckTools` `_check_process_tool_selections`,
`CheckConfigDirectory` and `CheckManifest` the two reads of each directory from
the working directory to the root and then of the Cargo home, whose manifest is
not read; `Prepare` is `verification_flags` and `_apply_backend_overrides`;
`Identified`, `Drifted` and `QueryFails` the answers to the three identity
queries. `Swap` replaces a part of the release between any two of them. A
document is the one thing in it that matters (the profile it selects a backend
for, an include, an `[env]`, a `[build]`, an override); a flag is the words
joined in one token, so that `-Z threads=8` in two tokens and `-Zthreads=8` in
one are the same option. `wanted` and `escapes` are history: what Cargo would
have taken from the documents that were accepted, `drifted` the parts replaced
since they were last looked at.

### Z3Install
State: binary (whose content, which mode), marker, a pending file of each.
`interrupted` is history: some run ended between the two renames and none has
finished since.

### VerusInstall
State: trees of an executable and the rest, at `verus` and at each `verus-*`.
`unzip` is an external process and a file at a time; when a file is there it is
replaced, kept on an answer, or kept because the input is at its end, in which
case `unzip` exits non-zero. `Find` is `locate_extracted_verus_dir` with its
fallback. A kill of the tool is taken to stop its `unzip` too.

### ExitStatus and VerusRun
State: for each stream whether its reader is there, whether it holds text and
what it leads to; for the batch the files proved, the invocation it is at, the
counts of start and completion events, and the class it will report. `verdict`
fixes what the verifier will say of each file before the run, so that the
outcome can be compared with it. One stretch of `_run_one` up to its `try` is
`BeginInvocation`, the verifier's run is `Invoke`, its outcomes are `Proved`
(`proved.append`), `Refused` and `Unstartable`, and `CloseSpan` is the `finally`
after any of them, with the completion event. `Interrupt` is `KeyboardInterrupt`
between any two of these: in the `try`, its `except` or its `else` the span is
still closed, before the `try` or in the `finally` it is not. A second interrupt
is left out, as are log handlers and other calls that raise unexpectedly. A verifier
killed by signal 9 has exit code -9, which `sys.exit` turns into 247.

### UvGate
State: the main thread's place, the uv process (`running`, `blocked` in a write,
`gone`), a descendant that still holds its output (`holder`), the pipe and the
pump thread, the lines passed on and the tail kept of them. `Spawn` is `Popen`
and the pump's start, `Wait` is `process.wait()`, `Join` is `reader.join()` in
the `finally`; `Decide` is what `prepare`, `run_gate` or `tool` make of the
result, with `classify` over the signatures in their order; `Retry` and `Report`
are the gate's own lines. `Query`, `QueryTimesOut` and `QueryDrained` are
`_query_cache_dir`, whose second `communicate` has no timeout. The steps between
are the refusals and the shim directory, whose end is `Close`. `Exit` includes
what the interpreter does after `main`: it joins the pump, and exits with 120
when standard error cannot be flushed. `Leave` is the reader of the gate's
standard error going away: the pump then dies of `BrokenPipeError` at its next
chunk and nobody reads the pipe. `struck` is history: where an interrupt found
the main thread. A line stands for a message. Left out are a second interrupt and
one between `Popen` and the `try` around `process.wait()`, which are one step
here: it would leave uv running. `Close` and a shim that cannot be made remove
the directory with `ignore_errors`; that this fails silently is left out too.

## 3. What the runs check

| Run | Instance | What it shows |
| --- | --- | --- |
| `store` | 1 process, 2 inodes, 3 blocks, 4 faults | types; no partial asset; nothing pending beside the asset; recovery; refinement of `VerifiedStore` |
| `store_shared` | 2 processes, no fault | **violated**: the shared pending file lets a partial asset through |
| `transfer` | 2 redirects, budget 3, ceiling 3, chunk 2, clock up to 6 | requests, redirects, bytes and open connections within their limits; the deadline is passed inside one call only; the transfer ends unless the server keeps one call waiting for ever |
| `transfer_drip` | 1 redirect, otherwise the same | **violated**: a body read goes on after the deadline |
| `frontend` | `KaniInstall`: 2 members, old and new releases, 3 faults in the extraction, 1 elsewhere | no runnable partial; all or nothing; nothing lost; nothing touched before both archives are verified; returned means ready; recovery |
| `z3` | 2 versions, 3 faults | reuse is whole and exact; installed means recorded; recovery |
| `z3_marker` | 2 versions, 1 fault | **violated**: marker and binary of different versions |
| `verus` | 3 releases of 3 layouts, 2 faults | fresh installs are the pin's; half a tree is never reused; recovery unless a leftover stays |
| `verus_pin` | 2 pins, no fault | **violated**: a changed pin is reported as installed |
| `verus_run` | 3 proof files, every verdict of each, one interrupt, readers that leave | the exit status is the first failing file's; fail-fast; no misleading summary; every span closed but the last one's after an interrupt |
| `uv_gate` | 3 subcommands, uv of up to 3 lines and any end, tail of 2, pipe of 1, one interrupt, a reader that leaves, a descendant | all output before the gate's word; online at most once and only for a proven miss with no stale lock in the tail; the status is uv's; the shim is removed but for an interrupt at two places; the gate ends while it is read |
| `kani_exec` | a directory and the Cargo home, 2 profiles, 3 flags, one part replaced at a time | only a qualified release runs; no configuration reaches the proof; the flags are the compatible ones in order; the status is the proof's |

The four violated runs state what the documentation or a comment says; the
findings in `PROJECT.json` quote it beside the code. None is reached in the
default directories by one process at a time: they take a shared cache, a slow
server, or an install directory given by an option or a variable.

**Bounds.** Two inodes are all a single process can reach (the one at the final
path and the pending one), and one more per process when two share the path.
Three blocks give a first, a middle and a last one. Four faults are enough for a
failure, a failing clean-up and a kill in three consecutive runs. In the
transfer, the chunk of 2 against a ceiling of 3 makes the last read end at, below
and above the ceiling; budgets of 2 and 3 let the connect timeout be the smaller
bound and the larger. `Horizon` is above the deadline plus one connect timeout,
the latest that anything but a stretched call can see, so a clock that stands
still there hides only by how much such a call overruns. Two members are the code's own number; the proofs cover
any. Two versions are all a marker and a binary can disagree about. Three
layouts reach every branch of the fallback, the ambiguous one included. Three
proof files put the first failure at the first, a middle and the last one.
In
`KaniInstall` one failure outside the extraction comes before, between or after
three inside it, which is a failed run, its repetition and that one's failure;
both the setup that stopped half way and the damaged archive are met by a later
run. For `uv_gate`, three lines over a tail of two are the smallest number that
loses a message from the tail (the miss that is no longer recognised, the lock
message that hides it or no longer does), and a pipe of one makes uv block; the
two attempts are all there are. For `kani_exec`, two directories are one whose
manifest counts and the Cargo home whose manifest does not, and more only repeat
the first; three flags hold every option of two tokens beside one of one token,
a head without its value, a value without its head, and an option that appears
when what stood between its tokens is taken out. `FlagsAreSafe` states what
flags are allowed without using `_option`'s pairing: it looks for any choice of
adjacent tokens that explains the result. History
variables count nothing that is not boolean, so after the faults the graphs are
closed under repetition, and the liveness properties are about all of it.

**Deadlock** is checked except in the two transfer runs and in `verus_run`,
`uv_gate` and `kani_exec`, where the transfer or the process ends.

**Fairness** is weak fairness of the process's own steps (`Progress`), never of a
failure or a kill: a running process is scheduled, and a job that failed is run
again, which is how these commands are used in CI. In the transfer it is weak
fairness of `Next`: the kernel's socket timeouts fire, so a wait ends by data or
by time. That alone does not end a transfer: the server may answer each wait with
something that makes the same call wait again, which is the second case of
`EndsUnlessStretched`. In `verus`, that unzip's question is
answered or its input at its end is part of the process's progress. In the Kani installer's run
the steps of the extraction and those around it are fair each on their own, a
failing clean-up step being no progress (`Progress`); `cargo kani setup` ends,
as programs do. In `uv_gate` both threads of the gate are scheduled, and uv and
what it leaves behind write what they have and end when they are not blocked;
nothing is assumed of the reader, which is why `Ends` speaks of the runs it
stays for. `verus_run` and `kani_exec` need none.

Some properties are weaker than they might be, because the code is.
`OverrunIsOneCall` and `EndsUnlessStretched` say how far the deadline reaches: it
cannot be renewed by redirects or by reads, and no sequence of calls outlives it,
but a call that has begun is not bounded by it. A server that sends
`100 Continue` responses or trailer lines without end keeps one call going for
ever, against the guide's "bounded so a bad or hostile response cannot exhaust
disk space or hang a CI job" (`docs/users-guide.md:314-315`); the finding of
`transfer_drip` is the body read that passes the deadline. `SpansMatch` allows
the last span to stay open after an interrupt: the docstring of `_run_one` says
"on every exit path", but an interrupt inside its `finally`, or between the start
event and its `try`, loses the completion event, of a file that may already be
counted as proved. `OnlineIsProven` excludes a stale lock in the kept tail only:
one that was pushed out of the tail by a later miss is retried online, against
"never retries a failed test, stale lock, ..." (`scripts/uv_gate.py:27-28`).
`ShimIsRemoved` allows two places at which an interrupt leaves the shim: after it
was made and before `_dispatch` has the context, and inside `Context.close`. `Ends` is
false without its second disjunct, and assumes that what uv leaves behind ends:
when the reader of standard error has gone
and uv writes more than the pipe holds, the pump is dead, uv waits for room and
the gate waits for uv. `StatusIsUvs` requires uv's status only while somebody
reads: a report that meets a closed standard error leaves `main` by
`BrokenPipeError` and the interpreter exits with 120, which the module's "its
exit status is uv's exit status" does not mention. `Recovers` of the Kani
installer is for jobs that run setup: one that only verifies meets the same
broken Kani home in every run. `ProofIsQualified` leaves out a part replaced
after its identity was checked, which the guide asks the caller not to do.

## 4. What is proved

TLAPS checks, for every value of the constants that satisfies the named
assumption of each module:

* `DownloadStore_proofs`: `TypeCorrect` for any number of processes. Under
  `SoleInstaller` (one process installs into the directory, which the
  `store_shared` run shows to be necessary), `ReturnsVerified`, `NothingPending`,
  `FinalPathNeverPartial` and `ImplementsVerifiedStore`. The invariant says
  which inode each name denotes at each stage, that the open output is the
  pending inode, that no process past the digest check has other contents than
  the pin in it, and that the final path and the pending one never share an
  inode: without that last part, writing the pending file could change the asset.
* `KaniInstall_proofs`, first about `extract_frontend` by itself: the six safety
  properties (`InstalledIsWhole` and `RolledBackClean`, which no run states,
  among them), for any number of members. The invariant describes the members
  before, at and after the loop's index at every stage: published and backed up,
  moved aside, untouched, undone. The property alone is not inductive, since what
  a rollback restores depends on what each earlier iteration put aside.
  Then about the installer: it implements `extract_frontend` run by itself
  (`ImplementsFrontend`: a step of the installer is a step of `KaniFrontend` or
  leaves its variables alone), so every theorem of the first part carries over;
  and `InstallTypeOK`, `ReturnedIsReady` and `AssetsFirst`, for any number of
  members, versions and failures. The invariant ties the phase to the calls and
  the archives (past a download its archive is the pinned one, since nobody
  damages the cache during a run), to the extraction's place (`extracting`
  exactly while it runs) and, from setup on, to the whole new set. `AssetsFirst`
  needs it: the guard of `Setup` says nothing of the archives.
* `Z3Install_proofs`: the four safety properties for any set of versions, and
  `OneVersionExact`: in a directory of one version the marker is right even
  after a run that ended between the renames, so the finding needs two. The
  invariant ties marker and binary together outside the window between the
  renames unless `interrupted`.
* `VerusInstall_proofs`: `InstalledIsPinned` and `ReusedIsWhole` for any pins,
  layouts and faults. The invariant is about a run that began with no `verus-*`
  directory in its way: the only one is the one its unzip makes, each file of
  which is missing, cut or the pin's according to how far unzip has come, and
  what is located is that directory, whole. `OnePinExact` shows that what a run
  reports is the pin where there is only one, so the finding needs a pin that
  changed; `InstallationIsKept` that no step touches an executable that is there.
* `DownloadTransfer_proofs`: `WithinLimits` and `OverrunIsOneCall` for any limits,
  chunk and server. Requests are counted against hops, the bytes of the read in
  progress against the declared length, and the clock against the timeout of the
  wait: a call begins before the deadline with a timeout that does not pass it, and
  what its first wait lasts is part of that; outside a call the clock is past the
  deadline only if the last call was stretched.
* `VerusRun_proofs`: `StatusIsVerdict`, `FailFast`, `SummaryIsHonest` and
  `SpansMatch` for any number of files. The properties speak of the first file
  that fails; the invariant says that all before the current one were proved and
  that a class is the current file's verdict, and a least element of the failing
  files (the order of the natural numbers is well-founded) makes them one. The
  span of a file is open from its start event to `CloseSpan`, and an interrupt in
  between leaves it as the last one, since no other file is begun. The
  status also needs that the exit hook has left neither stream with text for a
  pipe, whichever reader leaves between its two halves.
* `UvGate_proofs`: `OutputFirst`, `StatusIsUvs`, `ShimIsRemoved` and the action
  property `OnlineIsProven` for any amount of output and sizes of the pipe and the tail.
  The invariant follows the lines: what is shown, then what is in the pipe, is
  what was said, and the tail is the end of what is shown; a pump that is done
  leaves nobody who could write. That the tail's miss is a miss of the whole
  output, and that no stale lock is in the tail, is `RecoverableShows` and
  `ShowsInEnd`. A second run is earned when it is decided, and nothing it was
  earned by changes until it starts.
* `KaniExec_proofs`: `ProofIsQualified`, `ConfigIsShadowed` and `StatusIsProofs`
  for any number of directories and flags. The invariant says which parts have
  been measured at each stage and not replaced since, and that what the documents
  select is collected, then pinned. The type of the child's flags takes the one
  recursion: `KeptIsFlags` shows that the loop over the flags has a value, and
  that it is a sequence of flags, by the least index at which it would not.

Some theorems state what no run does: `ReturnsVerified` of the store,
`InstalledSetIsWhole` and `RollbackLeavesNoBackup` of the publication follow in
the runs from `StoreSpec`, `ReturnedIsReady` and `AllOrNothing` as far as the
callers see them; `ReuseWhole` of Z3 (a reused binary is a whole one of some
version, `interrupted` or not) was model-checked and is now only proved.

Every invariant the passing runs check is proved, and so are the action
properties `NeverPartial`, `AssetsFirst` and `OnlineIsProven` and the refinement
`StoreSpec`. Only model-checked:

* liveness, under fairness (`Recovers`, `EndsUnlessStretched`, `Ends`), which is out of the
  prover's reach, as ENABLED is;
* `FlagsAreSafe`: what the loop over the flags computes, beyond its type, takes an
  induction over the options of every sequence of flags together with the library's
  sorting of index sets, in which the property states it. The library's induction
  theorems have an operator as a parameter, which no installed prover can give
  them; a least counterexample, as in `KeptIsFlags`, takes their place there;
* the four violated runs, which show what does not hold.

There is no RECURSIVE operator in the project.

## 5. Plan

Every part with state is modelled and every invariant that a run checks is
proved. What is left: the parts of `FlagsAreSafe` that need no sorting (the child's
flags end with `-D warnings`, no option that is removed survives, and normalising
them again changes nothing), and that `DownloadTransfer` implements the source of
blocks `DownloadStore` takes it for.

## 6. Not modelled

* Argument parsing and dispatch, log events and their fields, formatting: they
  have no state and no property here is about them.
* Pins, platforms, path resolution: pure functions of files and variables. Their
  failure is a refusal (`Refuse`) of the command that calls them.
* The opt-in build of Kani from source (`cargo install`,
  then setup) and `check_kani_version`: sequences of external programs whose
  state is Cargo's. `verify_archive_sha`, which no command calls, and the
  reading of Verus's checksum file, a refusal when it fails.
* What an archive member or a URL may be called, beyond accepted or refused; the
  exact wording of uv's ten signatures, of which four stand for all; the version
  of the formats inside Cargo documents.
* In `KaniExec`: Cargo and the files of the LLVM tree, which only have to be
  there; the compiler wrappers, which the environment selects and the code
  trusts; a Cargo document that changes after it was read, which the guide leaves
  to the caller with the release itself.
* Two concurrent runs of the Z3, Kani or Verus installers in one directory, which
  the code leaves to the caller (`verus/install.py:100-103`). `DownloadStore` has
  the interleaving they share.
