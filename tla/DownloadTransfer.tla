--------------------------- MODULE DownloadTransfer ---------------------------
(***************************************************************************)
(* One HTTPS transfer: _download of rust_prover_tools/download_transport.py*)
(* (redirects and the deadline) with _stream of download_stream.py (the    *)
(* byte ceiling, Content-Length and the bounded reads).                    *)
(*                                                                         *)
(* The server and the network are the environment: they decide the         *)
(* statuses, redirect targets, headers, how many bytes each recv brings,   *)
(* and how long it takes.  Time is counted in ticks and passes while the   *)
(* program waits for its socket; its own computation takes none.  A socket *)
(* timeout bounds ONE recv, while connecting, getresponse() and            *)
(* response.read(n) each make as many as they need (socket, ssl and        *)
(* http.client, external).  Nothing limits how many that is: http.client   *)
(* passes over any number of 100-Continue responses before the one it      *)
(* returns, and over any number of trailer lines after a chunked body.     *)
(***************************************************************************)
EXTENDS Integers, FiniteSets

CONSTANTS MaxRedirects,      \* DownloadLimits.max_redirects
          ConnectTimeout,    \* DownloadLimits.connect_timeout_seconds
          TransferTimeout,   \* DownloadLimits.transfer_timeout_seconds
          MaxBytes,          \* PinnedAsset.max_bytes
          Chunk,             \* READ_CHUNK_SIZE
          Horizon,           \* bound on the clock, which then stands still
          Unknown            \* "no Content-Length"

ASSUME TransferAssumption == /\ MaxRedirects \in Nat
                             /\ ConnectTimeout \in Nat \ {0}
                             /\ TransferTimeout \in Nat \ {0}
                             /\ MaxBytes \in Nat
                             /\ Chunk \in Nat \ {0}
                             /\ Horizon \in Nat
                             /\ Horizon > TransferTimeout + ConnectTimeout
                             /\ Unknown \notin Nat

VARIABLES now,        \* ticks since the transfer started, up to Horizon
          pc,         \* where _download is
          url,        \* scheme of the URL being requested
          hop,        \* redirects followed
          requests,   \* requests sent (saturates one above the limit)
          conn,       \* the connection is open
          declared,   \* Content-Length, or Unknown
          framing,    \* what ends the body: "length", "chunked" or "close"
          written,    \* bytes in the destination file
          held,       \* bytes the read in progress has gathered
          timeout,    \* the socket's timeout
          waited,     \* ticks the wait in progress, or the last, has lasted
          stretched   \* history: its blocking call has waited before it

vars == <<now, pc, url, hop, requests, conn, declared, framing, written, held,
          timeout, waited, stretched>>
clock == <<timeout, waited, stretched>>
response == <<declared, framing>>
route == <<url, hop, requests>>

Final == {"done", "failed"}
Waiting == {"headers", "recv"}
Lesser(a, b) == IF a < b THEN a ELSE b

Init == /\ now = 0
        /\ pc = "validate"
        /\ url \in {"https", "plain"}
        /\ hop = 0
        /\ requests = 0
        /\ conn = FALSE
        /\ declared = Unknown
        /\ framing = "close"
        /\ written = 0
        /\ held = 0
        /\ timeout = ConnectTimeout
        /\ waited = 0
        /\ stretched = FALSE

\* Mutant: every wait gets the whole budget, as if it began with the wait.
RemainingOfWhole == TransferTimeout

\* deadline - monotonic().
Remaining == TransferTimeout - now

\* Every exit closes the connection: the finally of _download, the except of
\* _open.
Exit(state) == pc' = state /\ conn' = FALSE

\* An exception leaves _download; what was written stays in the pending file.
Fail == /\ Exit("failed")
        /\ UNCHANGED <<now, route, response, written, held, clock>>

\* A blocking call starts, its waits bounded by t each.
BeginWait(t) == timeout' = t /\ waited' = 0 /\ stretched' = FALSE

\* The call in progress waits again, under the same timeout.
WaitAgain == waited' = 0 /\ stretched' = TRUE /\ UNCHANGED timeout

\* _validate_url of the pinned URL.
Validate == /\ pc = "validate"
            /\ url = "https"
            /\ pc' = "open"
            /\ UNCHANGED <<now, route, conn, response, written, held, clock>>

RefuseUrl == pc = "validate" /\ url # "https" /\ Fail

\* _open, up to the first wait of request().
Open == /\ pc = "open"
        /\ Remaining > 0
        /\ BeginWait(Lesser(ConnectTimeout, Remaining))
        /\ pc' = "headers"
        /\ conn' = TRUE
        /\ requests' = Lesser(requests + 1, MaxRedirects + 2)
        /\ UNCHANGED <<now, url, hop, response, written, held>>

OpenTooLate == pc = "open" /\ Remaining <= 0 /\ Fail

Tick == /\ pc \in Waiting
        /\ waited < timeout
        /\ now' = Lesser(now + 1, Horizon)
        /\ waited' = waited + 1
        /\ UNCHANGED <<pc, route, conn, response, written, held, timeout, stretched>>

\* Part of the connection, the handshake or the headers arrived, or a whole
\* 100-Continue response.
MoreHeaders == /\ pc = "headers"
               /\ WaitAgain
               /\ UNCHANGED <<now, pc, route, conn, response, written, held>>

\* A wait times out or breaks: OSError or HTTPException, from _open or through
\* _copy_body (where it is the deadline or a stream error, a failure anyway).
WaitFails == pc \in Waiting /\ Fail

\* Mutant: the loop starts again from the redirect's target.
ContinueUncounted(target) == /\ url' = target
                             /\ hop' = hop
                             /\ Exit("open")

\* current = _validate_url(...); continue.
Continue(target) == /\ url' = target
                    /\ hop' = hop + 1
                    /\ Exit("open")

\* Mutant: one redirect too many is followed.
MayFollowOneMore(target) == hop <= MaxRedirects /\ target = "https"

\* The hop is below the limit and the target is an https URL.
MayFollow(target) == hop < MaxRedirects /\ target = "https"

\* A redirect response; without a Location it is BadResponse.
Redirect == /\ pc = "headers"
            /\ \E target \in {"https", "plain"} :
                 \/ /\ MayFollow(target)
                    /\ Continue(target)
                    /\ UNCHANGED <<now, requests, response, written, held, clock>>
                 \/ ~MayFollow(target) /\ Fail

\* No Location, a status other than 200, a bad Content-Length, or the
\* destination cannot be opened.
BadResponse == pc = "headers" /\ Fail

\* _reject_declared_oversize.
Oversize(length) == length # Unknown /\ length > MaxBytes

\* _stream, up to the loop: the headers of a 200 response may declare a length,
\* which ends the body for http.client unless it is chunked.
Accept == /\ pc = "headers"
          /\ \E length \in {Unknown} \cup 0..(MaxBytes + 1) :
               \/ Oversize(length) /\ Fail
               \/ /\ ~Oversize(length)
                  /\ declared' = length
                  /\ framing' \in {"chunked", IF length = Unknown THEN "close" ELSE "length"}
                  /\ pc' = "check"
                  /\ UNCHANGED <<now, route, conn, written, held, clock>>

TooLate == pc = "check" /\ Remaining < 0 /\ Fail

\* What response.read(READ_CHUNK_SIZE) waits for.
Wanted == IF framing = "length" THEN Lesser(Chunk, declared - written) ELSE Chunk

\* _DeadlineResponse.read: the socket's timeout becomes the lesser of the
\* connect timeout and the remaining time, unless none remains.
StartRead == /\ pc = "check"
             /\ Remaining >= 0
             /\ BeginWait(IF Remaining > 0 THEN Lesser(ConnectTimeout, Remaining)
                                           ELSE timeout)
             /\ held' = 0
             /\ pc' = IF Wanted = 0 THEN "finish" ELSE "recv"
             /\ UNCHANGED <<now, route, conn, response, written>>

\* What a recv brings: bytes of the body, or of a chunked one only a size line,
\* the end of a line or a trailer.
Brings(n) == n > 0 \/ framing = "chunked"

\* The read returns when it has all it wants, and waits again when it has not.
Receive == /\ pc = "recv"
           /\ \E n \in 0..(Wanted - held) : Brings(n) /\ held' = held + n
           /\ IF held' = Wanted THEN pc' = "append" /\ UNCHANGED clock
                                ELSE WaitAgain /\ UNCHANGED pc
           /\ UNCHANGED <<now, route, conn, response, written>>

\* The body ends: the read returns what it has, possibly nothing.
EndOfStream == /\ pc = "recv"
               /\ pc' = IF held = 0 THEN "finish" ELSE "append"
               /\ UNCHANGED <<now, route, conn, response, written, held, clock>>

\* Mutant: the ceiling is compared with the bytes already in the file.
FitsBefore == written <= MaxBytes

Fits == written + held <= MaxBytes

\* The rest of the loop body: the ceiling first, then output.write.
AppendChunk == \/ /\ pc = "append"
                  /\ Fits
                  /\ written' = written + held
                  /\ pc' = "check"
                  /\ UNCHANGED <<now, route, conn, response, held, clock>>
               \/ pc = "append" /\ ~Fits /\ Fail

\* output.write raises OSError.
WriteFails == pc = "append" /\ Fail

\* _require_complete_body.
Complete == declared = Unknown \/ written = declared

Finish == \/ /\ pc = "finish"
             /\ Complete
             /\ Exit("done")
             /\ UNCHANGED <<now, route, response, written, held, clock>>
          \/ pc = "finish" /\ ~Complete /\ Fail

Next == \/ Validate \/ RefuseUrl \/ Open \/ OpenTooLate \/ Tick \/ MoreHeaders
        \/ WaitFails \/ Redirect \/ BadResponse \/ Accept \/ TooLate \/ StartRead
        \/ Receive \/ EndOfStream \/ AppendChunk \/ WriteFails \/ Finish

Spec == Init /\ [][Next]_vars

\* The process runs, and the kernel's socket timeouts fire.
FairSpec == Spec /\ WF_vars(Next)

--------------------------------------------------------------------------------

TypeOK == /\ now \in 0..Horizon
          /\ pc \in {"validate", "open", "check", "append", "finish"} \cup Waiting \cup Final
          /\ url \in {"https", "plain"}
          /\ hop \in 0..MaxRedirects
          /\ requests \in 0..(MaxRedirects + 2)
          /\ conn \in BOOLEAN
          /\ declared \in {Unknown} \cup 0..MaxBytes
          /\ framing \in {"length", "chunked", "close"}
          /\ written \in Nat
          /\ held \in 0..Chunk
          /\ timeout \in 1..ConnectTimeout
          /\ waited \in 0..ConnectTimeout
          /\ stretched \in BOOLEAN

\* Whatever the servers answer, an asset costs at most max_redirects + 1
\* requests, each to an https URL and each after the connection before it was
\* closed (_download), and max_bytes on the disk, with a Content-Length or
\* without (_copy_body: "cannot fill the disk").
WithinLimits == /\ requests <= MaxRedirects + 1
                /\ conn => url = "https"
                /\ pc \in Final \cup {"open"} => ~conn
                /\ written <= MaxBytes

\* "One monotonic deadline covers connection, redirects, and body transfer"
\* (users-guide.md:324), as far as it does: however the time is spread over hops
\* and reads, it is past the deadline only in a blocking call that began before
\* it, and then only because the server made that call wait more than once, but
\* for a read that began just when the deadline was reached (_open and
\* _DeadlineResponse.read; _copy_body compares with ">").
OverrunIsOneCall == now > TransferTimeout => stretched \/ now - waited = TransferTimeout

\* A transfer ends unless the server keeps one blocking call of it waiting again
\* and again for ever, which no deadline stops: whatever it answers, however it
\* redirects and cuts the body, it cannot make the transfer start calls without
\* end (_download, _copy_body).
EndsUnlessStretched == \/ <>(pc \in Final)
                       \/ \E call \in Waiting : <>[](pc = call /\ stretched)

================================================================================
