------------------------ MODULE DownloadTransfer_proofs ------------------------
(***************************************************************************)
(* Proofs about DownloadTransfer for any limits, chunk size and server.    *)
(* The invariant counts requests against hops, relates the bytes a read    *)
(* holds to what the response declared, and follows the clock through the  *)
(* first wait of each blocking call, the only one the deadline bounds.     *)
(***************************************************************************)
EXTENDS DownloadTransfer, TLAPS

Answered == {"check", "recv", "append", "finish", "done"}

\* A request is sent for each hop, when its connection is opened; connections
\* are to https URLs and are closed before the next is opened and at the end.
Counted == /\ pc = "validate" => requests = 0 /\ hop = 0
           /\ pc = "open" => requests = hop
           /\ pc \in {"headers"} \cup Answered => requests = hop + 1
           /\ requests <= hop + 1
           /\ pc \notin {"validate", "failed"} => url = "https"
           /\ pc \in {"validate", "open"} \cup Final => ~conn

\* Nothing is written before a response is accepted; of a framed one never more
\* than it declared, the bytes of the read in progress included.
Measured == /\ pc \in {"validate", "open", "headers"} => written = 0
            /\ framing = "length" /\ pc \in Answered => declared # Unknown /\ written <= declared
            /\ pc = "recv" => held < Wanted
            /\ pc = "append" => held <= Wanted

\* A blocking call begins before the deadline, when its first wait is cut to what
\* remains, or a read begins at it; until the call is stretched its first wait is
\* all the time it took.
Timed == /\ waited <= timeout
         /\ ~stretched => /\ now <= TransferTimeout + ConnectTimeout
                          /\ now <= TransferTimeout \/ now - waited = TransferTimeout
         /\ pc \in Waiting /\ ~stretched =>
              \/ now - waited + timeout <= TransferTimeout
              \/ now - waited = TransferTimeout

IInv == TypeOK /\ Counted /\ Measured /\ Timed /\ WithinLimits

--------------------------------------------------------------------------------

\* An exception leaves everything as it was but for the connection it closes.
LEMMA FailKeeps ==
  ASSUME IInv, Fail
  PROVE  IInv'
<1> USE DEF IInv, Fail, Exit, route, response, clock, Final, Waiting
<1>1. TypeOK' /\ Counted' /\ Measured'
  BY DEF TypeOK, Counted, Measured, Answered
<1>2. Timed' /\ WithinLimits'
  BY DEF Timed, WithinLimits
<1>3. QED
  BY <1>1, <1>2

\* Whatever the servers do keeps the invariant.
LEMMA Invariance == Spec => []IInv
<1> USE TransferAssumption DEF TransferAssumption, Final, Waiting, Answered, route, response, clock
<1>1. Init => IInv
  <2> SUFFICES ASSUME Init PROVE IInv
    OBVIOUS
  <2>1. TypeOK
    <3>1. url \in {"https", "plain"} /\ pc = "validate"
      BY DEF Init
    <3>2. /\ now \in 0..Horizon /\ hop \in 0..MaxRedirects /\ requests \in 0..(MaxRedirects + 2)
          /\ written \in Nat /\ held \in 0..Chunk
      BY DEF Init
    <3>3. timeout \in 1..ConnectTimeout /\ waited \in 0..ConnectTimeout
      BY DEF Init
    <3>4. conn \in BOOLEAN /\ stretched \in BOOLEAN /\ framing = "close" /\ declared = Unknown
      BY DEF Init
    <3>5. QED
      BY <3>1, <3>2, <3>3, <3>4 DEF TypeOK
  <2>2. Counted /\ Measured /\ Timed /\ WithinLimits
    BY DEF Init, Counted, Measured, Timed, WithinLimits
  <2>3. QED
    BY <2>1, <2>2 DEF IInv
<1>2. IInv /\ [Next]_vars => IInv'
  <2> SUFFICES ASSUME IInv, [Next]_vars PROVE IInv'
    OBVIOUS
  <2> USE DEF IInv
  <2>1. CASE Validate
    BY <2>1 DEF Validate, TypeOK, Counted, Measured, Timed, WithinLimits, Wanted
  <2>2. CASE RefuseUrl \/ OpenTooLate \/ WaitFails \/ BadResponse \/ TooLate \/ WriteFails
    BY <2>2, FailKeeps DEF RefuseUrl, OpenTooLate, WaitFails, BadResponse, TooLate, WriteFails
  <2>3. CASE Open
    <3> USE <2>3 DEF Open
    <3>1. timeout' \in 1..ConnectTimeout /\ waited' = 0
      BY DEF BeginWait, Lesser, Remaining, TypeOK
    <3>2. stretched' \in BOOLEAN /\ ~stretched'
      BY Zenon DEF BeginWait
    <3>3. requests' = hop' + 1
      BY DEF Counted, TypeOK, Lesser
    <3>4. TypeOK'
      BY <3>1, <3>2, <3>3 DEF TypeOK
    <3>5. Counted' /\ WithinLimits'
      BY <3>3 DEF Counted, WithinLimits, TypeOK
    <3>6. Measured'
      BY DEF Measured
    <3>7. Timed'
      <4>1. PICK t \in 1..ConnectTimeout : timeout' = t
        BY <3>1
      <4>2. now + t <= TransferTimeout
        BY <4>1 DEF BeginWait, Remaining, Lesser, TypeOK
      <4>3. now <= TransferTimeout /\ now - 0 = now /\ 0 <= t
        BY <4>2 DEF TypeOK
      <4>4. now' = now /\ waited' = 0
        BY <3>1
      <4>5. QED
        BY <4>1, <4>2, <4>3, <4>4 DEF Timed, TypeOK
    <3>8. QED
      BY <3>4, <3>5, <3>6, <3>7
  <2>4. CASE Tick
    <3> USE <2>4 DEF Tick, Lesser
    <3>1. TypeOK'
      BY DEF TypeOK
    <3>2. Counted' /\ Measured' /\ WithinLimits'
      BY DEF Counted, Measured, WithinLimits, Wanted
    <3>3. Timed'
      <4>1. ~stretched => now' = now + 1
        BY DEF Timed, TypeOK
      <4>2. QED
        BY <4>1 DEF Timed, TypeOK
    <3>4. QED
      BY <3>1, <3>2, <3>3
  <2>5. CASE MoreHeaders
    BY <2>5 DEF MoreHeaders, WaitAgain, TypeOK, Counted, Measured, Timed, WithinLimits
  <2>6. CASE Redirect
    <3>1. CASE Fail
      BY <3>1, FailKeeps
    <3>2. ASSUME NEW target \in {"https", "plain"}, MayFollow(target), Continue(target),
                 UNCHANGED <<now, requests, response, written, held, clock>>
          PROVE  IInv'
      <4> USE <2>6, <3>2 DEF Redirect, Continue, Exit
      <4>1. pc = "headers" /\ hop' \in 1..MaxRedirects /\ hop' = hop + 1 /\ url' = "https"
        BY DEF MayFollow, TypeOK
      <4>2. TypeOK'
        <5>1. UNCHANGED <<now, requests, declared, framing, written, held, timeout, waited,
                      stretched>>
          OBVIOUS
        <5>2. hop' \in 0..MaxRedirects /\ pc' = "open" /\ conn' = FALSE
          BY <4>1
        <5>3. QED
          BY <4>1, <5>1, <5>2 DEF TypeOK
      <4>3. Counted' /\ WithinLimits'
        BY <4>1 DEF Counted, WithinLimits
      <4>4. Measured' /\ Timed'
        BY <4>1 DEF Measured, Timed
      <4>5. QED
        BY <4>2, <4>3, <4>4
    <3>3. QED
      BY <2>6, <3>1, <3>2 DEF Redirect
  <2>7. CASE Accept
    <3>1. CASE Fail
      BY <3>1, FailKeeps
    <3>2. ASSUME NEW length \in {Unknown} \cup 0..(MaxBytes + 1), ~Oversize(length),
                 declared' = length,
                 framing' \in {"chunked", IF length = Unknown THEN "close" ELSE "length"},
                 pc' = "check",
                 UNCHANGED <<now, route, conn, written, held, clock>>
          PROVE  IInv'
      <4>1. declared' \in {Unknown} \cup 0..MaxBytes
        BY <3>2 DEF Oversize
      <4>2. /\ framing' \in {"length", "chunked", "close"}
            /\ framing' = "length" => declared' # Unknown /\ written' <= declared'
        BY <2>7, <3>2, <4>1 DEF Accept, Measured
      <4>3. TypeOK' /\ Counted' /\ Measured'
        BY <2>7, <3>2, <4>1, <4>2 DEF Accept, TypeOK, Counted, Measured
      <4>4. QED
        BY <2>7, <3>2, <4>3 DEF Accept, Timed, WithinLimits
    <3>3. QED
      BY <2>7, <3>1, <3>2 DEF Accept
  <2>8. CASE StartRead
    <3> USE <2>8 DEF StartRead
    <3>1. timeout' \in 1..ConnectTimeout /\ waited' = 0
      BY DEF BeginWait, Lesser, Remaining, TypeOK
    <3>2. stretched' \in BOOLEAN /\ ~stretched'
      BY Zenon DEF BeginWait
    <3>3. Wanted \in 0..Chunk
      BY DEF Wanted, Lesser, TypeOK, Measured
    <3>4. TypeOK' /\ Counted' /\ WithinLimits'
      BY <3>1, <3>2 DEF TypeOK, Counted, WithinLimits
    <3>5. Measured'
      BY <3>3 DEF Measured, Wanted
    <3>6. Timed'
      <4>1. PICK t \in 1..ConnectTimeout : timeout' = t
        BY <3>1
      <4>2. now = TransferTimeout \/ now + t <= TransferTimeout
        BY <4>1 DEF BeginWait, Remaining, Lesser, TypeOK
      <4>3. now <= TransferTimeout /\ now - 0 = now /\ 0 <= t
        BY <4>2 DEF TypeOK
      <4>4. now' = now /\ waited' = 0
        BY <3>1
      <4>5. QED
        BY <4>1, <4>2, <4>3, <4>4 DEF Timed, TypeOK
    <3>7. QED
      BY <3>4, <3>5, <3>6
  <2>9. CASE Receive
    <3> USE <2>9 DEF Receive
    <3>1. Wanted \in 1..Chunk /\ Wanted' = Wanted /\ held' \in held..Wanted
      BY DEF Wanted, Lesser, TypeOK, Measured
    <3>2. Counted' /\ Measured' /\ WithinLimits'
      BY <3>1 DEF Counted, Measured, WithinLimits, TypeOK
    <3>3. TypeOK' /\ Timed'
      <4>1. CASE held' = Wanted
        BY <3>1, <4>1 DEF TypeOK, Timed
      <4>2. CASE held' # Wanted
        BY <3>1, <4>2 DEF WaitAgain, TypeOK, Timed
      <4>3. QED
        BY <4>1, <4>2
    <3>4. QED
      BY <3>2, <3>3
  <2>10. CASE EndOfStream
    <3> USE <2>10 DEF EndOfStream
    <3>1. Wanted' = Wanted /\ Wanted \in Int
      BY DEF Wanted, Lesser, TypeOK, Measured
    <3>2. TypeOK' /\ Counted' /\ WithinLimits'
      BY DEF TypeOK, Counted, WithinLimits
    <3>3. Measured'
      BY <3>1 DEF Measured, TypeOK
    <3>4. QED
      BY <3>2, <3>3 DEF Timed
  <2>11. CASE AppendChunk
    <3>1. CASE Fail
      BY <3>1, FailKeeps
    <3>2. CASE /\ pc = "append"
               /\ Fits
               /\ written' = written + held
               /\ pc' = "check"
               /\ UNCHANGED <<now, route, conn, response, held, clock>>
      <4>1. framing = "length" => written' <= declared'
        BY <3>2 DEF Measured, Wanted, Lesser, TypeOK
      <4>2. TypeOK' /\ Counted' /\ Measured'
        BY <3>2, <4>1 DEF TypeOK, Counted, Measured
      <4>3. QED
        BY <3>2, <4>2 DEF Fits, Timed, WithinLimits
    <3>3. QED
      BY <2>11, <3>1, <3>2 DEF AppendChunk
  <2>12. CASE Finish
    <3>1. CASE Fail
      BY <3>1, FailKeeps
    <3>2. CASE /\ pc = "finish"
               /\ Complete
               /\ Exit("done")
               /\ UNCHANGED <<now, route, response, written, held, clock>>
      BY <3>2 DEF Exit, TypeOK, Counted, Measured, Timed, WithinLimits
    <3>3. QED
      BY <2>12, <3>1, <3>2 DEF Finish
  <2>13. CASE UNCHANGED vars
    BY <2>13 DEF vars, TypeOK, Counted, Measured, Timed, WithinLimits, Wanted
  <2>14. QED
    BY <2>1, <2>2, <2>3, <2>4, <2>5, <2>6, <2>7, <2>8, <2>9, <2>10, <2>11, <2>12, <2>13
    DEF Next
<1>3. QED
  BY <1>1, <1>2, PTL DEF Spec

\* Every variable keeps its type: in particular no read ever holds more than a
\* chunk and no socket is given a longer timeout than the connect timeout.
THEOREM TypeCorrect == Spec => []TypeOK
<1>1. IInv => TypeOK
  BY DEF IInv
<1>2. QED
  BY <1>1, Invariance, PTL

\* Against any servers a transfer keeps to its requests, to https, to one open
\* connection and to max_bytes on the disk.
THEOREM LimitsHold == Spec => []WithinLimits
<1>1. IInv => WithinLimits
  BY DEF IInv
<1>2. QED
  BY <1>1, Invariance, PTL

\* Redirects and reads share one deadline: past it a transfer is only in a call
\* that began before it and that the server stretched, or in the first wait of a
\* read that began at it, for any budget, timeouts and number of hops.
THEOREM OverrunOneCall == Spec => []OverrunIsOneCall
<1>1. IInv => OverrunIsOneCall
  BY TransferAssumption DEF IInv, TypeOK, Timed, OverrunIsOneCall, TransferAssumption
<1>2. QED
  BY <1>1, Invariance, PTL
================================================================================
