----------------------------- MODULE DownloadStore -----------------------------
(***************************************************************************)
(* download_pinned of rust_prover_tools/downloads.py: the verified store   *)
(* of one pinned asset.  A call probes the final path, writes the response *)
(* into the pending file <name>.download beside it, hashes that file,      *)
(* renames it over the final path and removes what is left pending.        *)
(*                                                                         *)
(* Every process uses the SAME pending name (downloads.py:126), so the     *)
(* file system is modelled at the level where that shows: the two names    *)
(* denote inodes, open("wb") truncates the inode the name denotes, an open *)
(* writer keeps its inode and its offset whatever happens to the names,    *)
(* and a rename moves the inode.                                           *)
(*                                                                         *)
(* Abstractions: a file is a sequence of Blocks blocks; hashing reads a    *)
(* file in one step; the network is the source of the blocks and of the    *)
(* failures (DownloadTransfer models the transfer itself).                 *)
(***************************************************************************)
EXTENDS Integers, Sequences

CONSTANTS Procs,      \* processes that share the cache directory
          Inodes,     \* inodes of that directory's file system
          None,       \* "no file has this name", "no file is open"
          Blocks,     \* length of the pinned asset, in blocks
          MaxFaults   \* bound on failures, crashes and bad responses

Block == {"pin", "other", "hole"}
Pinned == [i \in 1..Blocks |-> "pin"]

ASSUME StoreAssumption == /\ Blocks \in Nat \ {0}
                          /\ MaxFaults \in Nat
                          /\ None \notin Inodes
                          /\ None # Pinned

VARIABLES contents,   \* the blocks of each inode
          dest,       \* the inode at the final path, or None
          pending,    \* the inode at the pending path, or None
          pc,         \* where each process is in download_pinned
          output,     \* the inode each process writes to, or None
          offset,     \* blocks each process has written to it
          body,       \* the block the response to each process repeats
          failing,    \* an exception is on its way out of the with block
          faults      \* failures so far

callVars == <<output, offset, body>>
fsVars == <<contents, dest, pending>>
vars == <<contents, dest, pending, pc, output, offset, body, failing, faults>>

Stages == {"probe", "request", "copy", "hash", "publish", "discard"}
Resting == {"idle", "returned", "raised"}

\* What the final path shows to a reader.
Stored == IF dest = None THEN None ELSE contents[dest]

\* The final path may be empty, or hold something that is not the asset.
Init == /\ contents \in {[i \in Inodes |-> <<>>], [i \in Inodes |-> <<"other">>]}
        /\ dest \in Inodes \cup {None}
        /\ pending = None
        /\ pc = [p \in Procs |-> "idle"]
        /\ output = [p \in Procs |-> None]
        /\ offset = [p \in Procs |-> 0]
        /\ body = [p \in Procs |-> "pin"]
        /\ failing = [p \in Procs |-> FALSE]
        /\ faults = 0

Goto(p, stage) == pc' = [pc EXCEPT ![p] = stage]

Fault == faults < MaxFaults /\ faults' = faults + 1

Call(p) == /\ pc[p] \in Resting
           /\ Goto(p, "probe")
           /\ failing' = [failing EXCEPT ![p] = FALSE]
           /\ UNCHANGED <<fsVars, callVars, faults>>

\* _has_verified_copy: a regular file with the pinned digest is returned.
CacheHit(p) == /\ pc[p] = "probe"
               /\ Stored = Pinned
               /\ Goto(p, "returned")
               /\ UNCHANGED <<fsVars, callVars, failing, faults>>

\* Mutant: a damaged copy is an error, not a miss.
CacheMissRaises(p) == /\ pc[p] = "probe"
                      /\ Stored # Pinned
                      /\ Goto(p, IF dest = None THEN "request" ELSE "raised")
                      /\ UNCHANGED <<fsVars, callVars, failing, faults>>

CacheMiss(p) == /\ pc[p] = "probe"
                /\ Stored # Pinned
                /\ Goto(p, "request")
                /\ UNCHANGED <<fsVars, callVars, failing, faults>>

\* mkdir, stat or reading the cached copy raises: nothing is pending yet.
ProbeFails(p) == /\ pc[p] = "probe"
                 /\ Fault
                 /\ Goto(p, "raised")
                 /\ UNCHANGED <<fsVars, callVars, failing>>

\* An inode no name denotes and no process has open.
Unused(i) == i \notin {dest, pending} /\ \A p \in Procs : output[p] # i

\* The response is accepted and open("wb") creates or truncates the pending
\* file.  The server serves the asset or, as a fault, something else.
OpenPending(p) ==
    /\ pc[p] = "request"
    /\ \E i \in Inodes :
         /\ IF pending = None THEN Unused(i) ELSE i = pending
         /\ pending' = i
         /\ contents' = [contents EXCEPT ![i] = <<>>]
         /\ output' = [output EXCEPT ![p] = i]
    /\ offset' = [offset EXCEPT ![p] = 0]
    /\ \/ body' = [body EXCEPT ![p] = "pin"] /\ UNCHANGED faults
       \/ body' = [body EXCEPT ![p] = "other"] /\ Fault
    /\ Goto(p, "copy")
    /\ UNCHANGED <<dest, failing>>

\* POSIX write at an offset: a gap left by someone's truncation is a hole.
Written(c, k, b) == [i \in 1..(IF Len(c) > k THEN Len(c) ELSE k) |->
                        IF i = k THEN b ELSE IF i <= Len(c) THEN c[i] ELSE "hole"]

\* Mutant: the byte count is not checked before a block is written.
WriteBlockUnbounded(p) ==
    /\ pc[p] = "copy"
    /\ offset' = [offset EXCEPT ![p] = @ + 1]
    /\ contents' = [contents EXCEPT
                      ![output[p]] = Written(@, offset[p] + 1, body[p])]
    /\ UNCHANGED <<dest, pending, pc, output, body, failing, faults>>

WriteBlock(p) ==
    /\ pc[p] = "copy"
    /\ offset[p] < Blocks
    /\ offset' = [offset EXCEPT ![p] = @ + 1]
    /\ contents' = [contents EXCEPT
                      ![output[p]] = Written(@, offset[p] + 1, body[p])]
    /\ UNCHANGED <<dest, pending, pc, output, body, failing, faults>>

\* The body ends; without a Content-Length a short one ends like a whole one.
EndOfBody(p) ==
    /\ pc[p] = "copy"
    /\ IF offset[p] = Blocks THEN UNCHANGED faults ELSE Fault
    /\ output' = [output EXCEPT ![p] = None]
    /\ Goto(p, "hash")
    /\ UNCHANGED <<fsVars, offset, body, failing>>

\* Mutant: a download that completed is published without its digest.
HashIgnored(p) == /\ pc[p] = "hash"
                  /\ pending # None
                  /\ Goto(p, "publish")
                  /\ UNCHANGED <<fsVars, callVars, failing, faults>>

\* sha256_file(pending) == asset.sha256.
HashMatches(p) == /\ pc[p] = "hash"
                  /\ pending # None
                  /\ contents[pending] = Pinned
                  /\ Goto(p, "publish")
                  /\ UNCHANGED <<fsVars, callVars, failing, faults>>

\* Mutant: the asset is linked to the final path, not renamed.
PublishByLink(p) == /\ pc[p] = "publish"
                    /\ pending # None
                    /\ dest' = pending
                    /\ Goto(p, "discard")
                    /\ UNCHANGED <<contents, pending, callVars, failing, faults>>

\* pending.replace(destination): one rename.
Publish(p) == /\ pc[p] = "publish"
              /\ pending # None
              /\ dest' = pending
              /\ pending' = None
              /\ Goto(p, "discard")
              /\ UNCHANGED <<contents, callVars, failing, faults>>

\* Mutant: a failure removes the file at the final path too.
UnwindRemovesAsset(p) == /\ output' = [output EXCEPT ![p] = None]
                         /\ failing' = [failing EXCEPT ![p] = TRUE]
                         /\ Goto(p, "discard")
                         /\ dest' = None
                         /\ UNCHANGED <<contents, pending, offset, body>>

\* The exception path of the with block: the output is closed, the pending
\* file is going to be discarded and the exception raised again.
Unwind(p) == /\ output' = [output EXCEPT ![p] = None]
             /\ failing' = [failing EXCEPT ![p] = TRUE]
             /\ Goto(p, "discard")
             /\ UNCHANGED <<fsVars, offset, body>>

\* The digest differs, or the pending file is gone: to hash it or to rename
\* it raises.
Rejected(p) == /\ \/ pc[p] = "hash" /\ (pending = None \/ contents[pending] # Pinned)
                  \/ pc[p] = "publish" /\ pending = None
               /\ Unwind(p)
               /\ UNCHANGED faults

\* A transfer, hash or rename error, or KeyboardInterrupt, in the with block.
Fails(p) == /\ pc[p] \in {"request", "copy", "hash", "publish"}
            /\ Fault
            /\ Unwind(p)

\* _discard_pending: unlink(missing_ok=True).
Discard(p) == /\ pc[p] = "discard"
              /\ pending' = None
              /\ Goto(p, IF failing[p] THEN "raised" ELSE "returned")
              /\ UNCHANGED <<contents, dest, callVars, failing, faults>>

\* The unlink raises: hidden behind an earlier failure, an error on its own.
DiscardFails(p) == /\ pc[p] = "discard"
                   /\ Fault
                   /\ Goto(p, "raised")
                   /\ UNCHANGED <<fsVars, callVars, failing>>

\* SIGKILL: the process is gone, the files stay as they are.
Crash(p) == /\ pc[p] \in Stages
            /\ Fault
            /\ output' = [output EXCEPT ![p] = None]
            /\ failing' = [failing EXCEPT ![p] = FALSE]
            /\ Goto(p, "idle")
            /\ UNCHANGED <<fsVars, offset, body>>

Progress(p) == \/ Call(p) \/ CacheHit(p) \/ CacheMiss(p) \/ OpenPending(p)
               \/ WriteBlock(p) \/ EndOfBody(p) \/ HashMatches(p) \/ Publish(p)
               \/ Rejected(p) \/ Discard(p)

Trouble(p) == ProbeFails(p) \/ Fails(p) \/ DiscardFails(p) \/ Crash(p)

Next == \E p \in Procs : Progress(p) \/ Trouble(p)

Spec == Init /\ [][Next]_vars

\* A running process keeps running and a job that failed is run again.
FairSpec == Spec /\ \A p \in Procs : WF_vars(Progress(p))

--------------------------------------------------------------------------------

TypeOK == /\ contents \in [Inodes -> Seq(Block)]
          /\ dest \in Inodes \cup {None}
          /\ pending \in Inodes \cup {None}
          /\ pc \in [Procs -> Stages \cup Resting]
          /\ output \in [Procs -> Inodes \cup {None}]
          /\ offset \in [Procs -> 0..Blocks]
          /\ body \in [Procs -> {"pin", "other"}]
          /\ failing \in [Procs -> BOOLEAN]
          /\ faults \in 0..MaxFaults

\* "a caller never sees a partial asset at the final path": whatever happens,
\* the contents of the final path change only to the whole pinned asset
\* (downloads.py:7-9, _publish_verified).
NeverPartial == [][Stored' # Stored => Stored' = Pinned]_vars

\* A call that returned, by the cache or by a download, left the pinned asset
\* at the path it returned (download_pinned returns destination).
ReturnedIsVerified == \A p \in Procs : pc[p] = "returned" => Stored = Pinned

\* Once the asset is in place no pending file is beside it, even after crashes
\* and failed clean-ups: the rename consumes the only pending file and a cache
\* hit never opens another.
NothingPendingBesideAsset ==
    Stored = Pinned => pending = None

\* Whatever a killed or failed run left behind, runs that are repeated get the
\* asset to its path in the end, and it stays.
Recovers == <>[](Stored = Pinned)

\* Refinement of the abstract store.
Store == INSTANCE VerifiedStore WITH
           stored <- Stored,
           call <- [p \in Procs |-> IF pc[p] \in Stages THEN "working" ELSE pc[p]],
           Initial <- {None, <<>>, <<"other">>}
StoreSpec == Store!StoreSpec
================================================================================
