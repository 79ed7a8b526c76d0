------------------------------- MODULE UvGate_proofs -------------------------------
(***************************************************************************)
(* Proofs about UvGate for any bounds, any sizes of the pipe and the tail  *)
(* and any number of lines.  The invariant follows each line of uv through *)
(* the pipe to what is shown and to the tail, and says what the main       *)
(* thread may rely on at each stage: that uv is gone, that the pump is     *)
(* through, and that a second run was earned.                              *)
(***************************************************************************)
EXTENDS UvGate, SequenceTheorems, TLAPS

After == {"join", "decide", "retry", "report", "close", "metric", "shutdown", "exited"}

\* What uv wrote is what was shown and then what is in the pipe, unless the pump
\* died on a line, and the tail is the end of what was shown.
Copied == /\ shown + Len(pipe) <= Len(said)
          /\ pump # "dead" => /\ shown + Len(pipe) = Len(said)
                              /\ \A i \in 1..Len(pipe) : pipe[i] = said[shown + i]
          /\ Len(tail) = IF shown <= TailSize THEN shown ELSE TailSize
          /\ \A i \in 1..Len(tail) : tail[i] = said[shown - Len(tail) + i]

\* A pump that is done has left nothing, and nobody who could write more; one
\* that died has lost its reader, as a gate that could not speak has.
Pumping == /\ attempt = "none" <=> pump = "none"
           /\ attempt = "none" => child = "none"
           /\ pump = "done" => pipe = <<>> /\ child = "gone" /\ ~holder
           /\ pump = "dead" \/ broken => ~reader

MayGoOnline == Retries /\ result # 0 /\ child = "gone"

\* What the main thread may rely on at each stage.
Waiting ==
    /\ pc \in Preparing => attempt = "none"
    /\ pc \in Preparing \cup {"spawn", "wait", "decide", "retry", "report", "metric"} => ~interrupted
    /\ pc \in {"wait", "join", "decide", "retry"} => attempt # "none"
    /\ pc \in After /\ ~interrupted => child = "gone" \/ (refused /\ child = "none")
    /\ pc \in Preparing \cup {"spawn", "wait", "join", "decide", "retry"} => ~refused
    /\ pc \in {"decide", "retry", "report"} /\ ~refused => pump \in {"done", "dead"}
    /\ pc = "retry" => MayGoOnline
    /\ pc = "spawn" /\ attempt # "none" => MayGoOnline /\ pump = "done"

\* Where the shim may be, and what the gate ends with.
Ended == /\ struck = "none" <=> ~interrupted
         /\ pc \in Preparing \ {"ready"} => ~shim
         /\ pc \in {"metric", "shutdown", "exited"} /\ shim => struck \in {"ready", "close"}
         /\ pc = "exited" => status = IF interrupted THEN 130 ELSE IF broken THEN 120
                                      ELSE IF refused THEN 2 ELSE result % 256

IInv == TypeOK /\ Copied /\ Pumping /\ Waiting /\ Ended

--------------------------------------------------------------------------------

\* The last lines of a text are its end, whole or cut to the tail's size.
LEMMA LastLinesEnd ==
  ASSUME NEW text \in Seq(Lines)
  PROVE  /\ LastLines(text) \in Seq(Lines)
         /\ Len(LastLines(text)) = IF Len(text) <= TailSize THEN Len(text) ELSE TailSize
         /\ \A i \in 1..Len(LastLines(text)) :
              LastLines(text)[i] = text[Len(text) - Len(LastLines(text)) + i]
<1> USE GateAssumption DEF GateAssumption
<1> DEFINE from == IF Len(text) <= TailSize THEN 1 ELSE Len(text) - TailSize + 1
<1>1. Max({1, Len(text) - TailSize + 1}) = from
  BY DEF Max
<1>2. LastLines(text) = SubSeq(text, from, Len(text))
  BY <1>1 DEF LastLines
<1>3. from \in 1..(Len(text) + 1)
  OBVIOUS
<1> HIDE DEF from
<1>4. /\ LastLines(text) \in Seq(Lines)
      /\ Len(LastLines(text)) = Len(text) - from + 1
      /\ \A i \in 1..Len(LastLines(text)) : LastLines(text)[i] = text[from + i - 1]
  BY <1>2, <1>3, SubSeqProperties
<1>5. QED
  BY <1>4 DEF from

\* A signature the end of a text shows, the text shows.
LEMMA ShowsInEnd ==
  ASSUME NEW text \in Seq(Lines), NEW signature, Shows(LastLines(text), signature)
  PROVE  Shows(text, signature)
<1> USE GateAssumption DEF GateAssumption
<1> DEFINE end == LastLines(text)
           left == Len(text) - Len(end)
<1>1. /\ end \in Seq(Lines)
      /\ Len(end) <= Len(text)
      /\ \A i \in 1..Len(end) : end[i] = text[left + i]
  BY LastLinesEnd
<1>2. PICK i, j \in DOMAIN end : /\ i <= j
                                 /\ end[i] = Head(signature[2])
                                 /\ end[j] = Last(signature[2])
  BY DEF Shows
<1> HIDE DEF end
<1>3. left + i \in DOMAIN text /\ left + j \in DOMAIN text /\ left + i <= left + j
  BY <1>1, <1>2
<1>4. text[left + i] = Head(signature[2]) /\ text[left + j] = Last(signature[2])
  BY <1>1, <1>2
<1>5. QED
  BY <1>3, <1>4 DEF Shows

\* A failure classified as recoverable shows one of the misses and no stale lock,
\* which comes before them.
LEMMA RecoverableShows ==
  ASSUME NEW text, classify(text) \in ONLINE_RECOVERABLE
  PROVE  /\ ~Shows(text, SIGNATURES[1])
         /\ \E n \in DOMAIN SIGNATURES : /\ SIGNATURES[n][1] \in ONLINE_RECOVERABLE
                                         /\ Shows(text, SIGNATURES[n])
<1> DEFINE hits == {n \in DOMAIN SIGNATURES : Shows(text, SIGNATURES[n])}
<1>1. DOMAIN SIGNATURES = 1..4
  BY DEF SIGNATURES
<1>2. SIGNATURES[1][1] \notin ONLINE_RECOVERABLE /\ "unknown" \notin ONLINE_RECOVERABLE
  BY DEF SIGNATURES, ONLINE_RECOVERABLE
<1>3. hits # {} /\ SIGNATURES[Min(hits)][1] \in ONLINE_RECOVERABLE
  BY <1>2 DEF classify
<1>4. hits \subseteq {1, 2, 3, 4}
  BY <1>1
<1> HIDE DEF hits
<1>5. \E n \in hits : \A m \in hits : n <= m
  <2>1. CASE 1 \in hits
    BY <1>4, <2>1
  <2>2. CASE 1 \notin hits /\ 2 \in hits
    BY <1>4, <2>2
  <2>3. CASE 1 \notin hits /\ 2 \notin hits /\ 3 \in hits
    BY <1>4, <2>3
  <2>4. CASE 1 \notin hits /\ 2 \notin hits /\ 3 \notin hits
    <3>1. hits = {4}
      BY <1>3, <1>4, <2>4
    <3>2. QED
      BY <3>1
  <2>5. QED
    BY <2>1, <2>2, <2>3, <2>4
<1>6. PICK first \in hits : first = Min(hits) /\ \A m \in hits : first <= m
  BY <1>5 DEF Min
<1>7. first # 1
  BY <1>2, <1>3, <1>6
<1>8. 1 \notin hits
  BY <1>4, <1>6, <1>7
<1>9. QED
  BY <1>1, <1>3, <1>6, <1>8 DEF hits

--------------------------------------------------------------------------------

\* Every step of the three keeps the invariant.
LEMMA Invariance == Spec => []IInv
<1> USE GateAssumption DEF GateAssumption, Preparing, Working, Running, After
<1>1. Init => IInv
  <2> SUFFICES ASSUME Init PROVE IInv
    OBVIOUS
  <2>1. TypeOK
    <3>1. result \in {0, FailCode, -Signal} /\ shown \in 0..MaxLines /\ status \in {-1} \cup 0..255
      BY DEF Init
    <3>2. /\ pipe \in Seq(Lines) /\ Len(pipe) <= PipeSize
          /\ tail \in Seq(Lines) /\ Len(tail) <= TailSize
          /\ said \in Seq(Lines) /\ Len(said) <= MaxLines
      BY DEF Init
    <3>3. QED
      BY <3>1, <3>2 DEF Init, TypeOK
  <2>2. Copied /\ Pumping
    BY DEF Init, Copied, Pumping
  <2>3. Waiting /\ Ended
    BY DEF Init, Waiting, Ended
  <2>4. QED
    BY <2>1, <2>2, <2>3 DEF IInv
<1>2. IInv /\ [Next]_vars => IInv'
  <2> SUFFICES ASSUME IInv, [Next]_vars PROVE IInv'
    OBVIOUS
  <2> USE DEF IInv
  <2>1. CASE Refuse
    <3> USE <2>1 DEF Refuse, request, uv, output, sigint, ending
    <3>1. TypeOK'
      BY DEF TypeOK
    <3>2. Copied'
      BY DEF Copied
    <3>3. Pumping'
      BY DEF Pumping, Waiting
    <3>4. Waiting'
      BY DEF Pumping, Waiting, MayGoOnline, Retries
    <3>5. Ended'
      BY DEF Pumping, Waiting, Ended
    <3>6. QED
      BY <3>1, <3>2, <3>3, <3>4, <3>5
  <2>2. CASE Validate
    <3> USE <2>2 DEF Validate, Step, request, uv, output, sigint, ending
    <3>1. TypeOK'
      BY DEF TypeOK
    <3>2. Copied'
      BY DEF Copied
    <3>3. Pumping'
      BY DEF Pumping, Waiting
    <3>4. Waiting'
      BY DEF Pumping, Waiting, MayGoOnline, Retries
    <3>5. Ended'
      BY DEF Pumping, Waiting, Ended
    <3>6. QED
      BY <3>1, <3>2, <3>3, <3>4, <3>5
  <2>3. CASE Locate
    <3> USE <2>3 DEF Locate, Step, request, uv, output, sigint, ending
    <3>1. TypeOK'
      BY DEF TypeOK
    <3>2. Copied'
      BY DEF Copied
    <3>3. Pumping'
      BY DEF Pumping, Waiting
    <3>4. Waiting'
      BY DEF Pumping, Waiting, MayGoOnline, Retries
    <3>5. Ended'
      BY DEF Pumping, Waiting, Ended
    <3>6. QED
      BY <3>1, <3>2, <3>3, <3>4, <3>5
  <2>4. CASE Query
    <3> USE <2>4 DEF Query, Step, request, uv, output, sigint, ending
    <3>1. TypeOK'
      BY DEF TypeOK
    <3>2. Copied'
      BY DEF Copied
    <3>3. Pumping'
      BY DEF Pumping, Waiting
    <3>4. Waiting'
      BY DEF Pumping, Waiting, MayGoOnline, Retries
    <3>5. Ended'
      BY DEF Pumping, Waiting, Ended
    <3>6. QED
      BY <3>1, <3>2, <3>3, <3>4, <3>5
  <2>5. CASE QueryTimesOut
    <3> USE <2>5 DEF QueryTimesOut, Step, request, uv, output, sigint, ending
    <3>1. TypeOK'
      BY DEF TypeOK
    <3>2. Copied'
      BY DEF Copied
    <3>3. Pumping'
      BY DEF Pumping, Waiting
    <3>4. Waiting'
      BY DEF Pumping, Waiting, MayGoOnline, Retries
    <3>5. Ended'
      BY DEF Pumping, Waiting, Ended
    <3>6. QED
      BY <3>1, <3>2, <3>3, <3>4, <3>5
  <2>6. CASE QueryDrained
    <3> USE <2>6 DEF QueryDrained, Step, request, uv, output, sigint, ending
    <3>1. TypeOK'
      BY DEF TypeOK
    <3>2. Copied'
      BY DEF Copied
    <3>3. Pumping'
      BY DEF Pumping, Waiting
    <3>4. Waiting'
      BY DEF Pumping, Waiting, MayGoOnline, Retries
    <3>5. Ended'
      BY DEF Pumping, Waiting, Ended
    <3>6. QED
      BY <3>1, <3>2, <3>3, <3>4, <3>5
  <2>7. CASE ChooseLinkMode
    <3> USE <2>7 DEF ChooseLinkMode, Step, request, uv, output, sigint, ending
    <3>1. TypeOK'
      BY DEF TypeOK
    <3>2. Copied'
      BY DEF Copied
    <3>3. Pumping'
      BY DEF Pumping, Waiting
    <3>4. Waiting'
      BY DEF Pumping, Waiting, MayGoOnline, Retries
    <3>5. Ended'
      BY DEF Pumping, Waiting, Ended
    <3>6. QED
      BY <3>1, <3>2, <3>3, <3>4, <3>5
  <2>8. CASE InstallShim
    <3> USE <2>8 DEF InstallShim, Step, request, uv, output, sigint, ending
    <3>1. TypeOK'
      BY DEF TypeOK
    <3>2. Copied'
      BY DEF Copied
    <3>3. Pumping'
      BY DEF Pumping, Waiting
    <3>4. Waiting'
      BY DEF Pumping, Waiting, MayGoOnline, Retries
    <3>5. Ended'
      BY DEF Pumping, Waiting, Ended
    <3>6. QED
      BY <3>1, <3>2, <3>3, <3>4, <3>5
  <2>9. CASE ContextReady
    <3> USE <2>9 DEF ContextReady, Step, request, uv, output, sigint, ending
    <3>1. TypeOK'
      BY DEF TypeOK
    <3>2. Copied'
      BY DEF Copied
    <3>3. Pumping'
      BY DEF Pumping, Waiting
    <3>4. Waiting'
      BY DEF Pumping, Waiting, MayGoOnline, Retries
    <3>5. Ended'
      BY DEF Pumping, Waiting, Ended
    <3>6. QED
      BY <3>1, <3>2, <3>3, <3>4, <3>5
  <2>10. CASE Spawn
    <3> USE <2>10 DEF Spawn, Step, request, uv, output, sigint, ending
    <3>1. TypeOK'
      <4>1. /\ pipe' \in Seq(Lines) /\ Len(pipe') <= PipeSize
            /\ tail' \in Seq(Lines) /\ Len(tail') <= TailSize
            /\ said' \in Seq(Lines) /\ Len(said') <= MaxLines
        OBVIOUS
      <4>2. result' \in {0, FailCode, -Signal} /\ shown' \in 0..MaxLines
        OBVIOUS
      <4>3. /\ attempt' \in {"none", "offline", "online"}
            /\ child' \in {"none", "running", "blocked", "gone"}
            /\ pump' \in {"none", "running", "done", "dead"}
            /\ pc' \in Running \cup {"exited"}
            /\ holder' \in BOOLEAN
        OBVIOUS
      <4>4. QED
        BY <4>1, <4>2, <4>3 DEF TypeOK
    <3>2. Copied'
      BY DEF Copied
    <3>3. Pumping'
      BY DEF Pumping, Waiting
    <3>4. Waiting'
      BY DEF Pumping, Waiting, MayGoOnline, Retries
    <3>5. Ended'
      BY DEF Pumping, Waiting, Ended
    <3>6. QED
      BY <3>1, <3>2, <3>3, <3>4, <3>5
  <2>11. CASE Wait
    <3> USE <2>11 DEF Wait, Step, request, uv, output, sigint, ending
    <3>1. TypeOK'
      BY DEF TypeOK
    <3>2. Copied'
      BY DEF Copied
    <3>3. Pumping'
      BY DEF Pumping, Waiting
    <3>4. Waiting'
      BY DEF Pumping, Waiting, MayGoOnline, Retries
    <3>5. Ended'
      BY DEF Pumping, Waiting, Ended
    <3>6. QED
      BY <3>1, <3>2, <3>3, <3>4, <3>5
  <2>12. CASE Join
    <3> USE <2>12 DEF Join, request, uv, output, sigint, ending
    <3>1. TypeOK'
      BY DEF TypeOK
    <3>2. Copied'
      BY DEF Copied
    <3>3. Pumping'
      BY DEF Pumping, Waiting
    <3>4. Waiting'
      BY DEF Pumping, Waiting, MayGoOnline, Retries
    <3>5. Ended'
      BY DEF Pumping, Waiting, Ended
    <3>6. QED
      BY <3>1, <3>2, <3>3, <3>4, <3>5
  <2>13. CASE Decide
    <3> USE <2>13 DEF Decide, request, uv, output, sigint, ending
    <3>1. TypeOK'
      BY DEF TypeOK
    <3>2. Copied'
      BY DEF Copied
    <3>3. Pumping'
      BY DEF Pumping, Waiting
    <3>4. Waiting'
      <4>1. CASE result = 0
        BY <4>1 DEF Pumping, Waiting
      <4>2. CASE result # 0 /\ subcommand = "run"
        BY <4>2 DEF Pumping, Waiting
      <4>3. CASE result # 0 /\ subcommand # "run"
        BY <4>3 DEF Pumping, Waiting, MayGoOnline, Retries
      <4>4. QED
        BY <4>1, <4>2, <4>3
    <3>5. Ended'
      BY DEF Pumping, Waiting, Ended
    <3>6. QED
      BY <3>1, <3>2, <3>3, <3>4, <3>5
  <2>14. CASE Retry
    <3> USE <2>14 DEF Retry, Say, request, uv, output, sigint, ending
    <3>1. TypeOK'
      BY DEF TypeOK
    <3>2. Copied'
      BY DEF Copied
    <3>3. Pumping'
      BY DEF Pumping, Waiting
    <3>4. Waiting'
      BY DEF Pumping, Waiting, MayGoOnline, Retries
    <3>5. Ended'
      BY DEF Pumping, Waiting, Ended
    <3>6. QED
      BY <3>1, <3>2, <3>3, <3>4, <3>5
  <2>15. CASE Report
    <3> USE <2>15 DEF Report, Step, Say, request, uv, output, sigint, ending
    <3>1. TypeOK'
      BY DEF TypeOK
    <3>2. Copied'
      BY DEF Copied
    <3>3. Pumping'
      BY DEF Pumping, Waiting
    <3>4. Waiting'
      BY DEF Pumping, Waiting, MayGoOnline, Retries
    <3>5. Ended'
      BY DEF Pumping, Waiting, Ended
    <3>6. QED
      BY <3>1, <3>2, <3>3, <3>4, <3>5
  <2>16. CASE Close
    <3> USE <2>16 DEF Close, request, uv, output, sigint, ending
    <3>1. TypeOK'
      <4>1. pc' \in Running \cup {"exited"} /\ shim' \in BOOLEAN
        OBVIOUS
      <4>2. QED
        BY <4>1 DEF TypeOK
    <3>2. Copied'
      BY DEF Copied
    <3>3. Pumping'
      BY DEF Pumping, Waiting
    <3>4. Waiting'
      BY DEF Pumping, Waiting, MayGoOnline, Retries
    <3>5. Ended'
      BY DEF Pumping, Waiting, Ended
    <3>6. QED
      BY <3>1, <3>2, <3>3, <3>4, <3>5
  <2>17. CASE Metric
    <3> USE <2>17 DEF Metric, Step, Say, request, uv, output, sigint, ending
    <3>1. TypeOK'
      BY DEF TypeOK
    <3>2. Copied'
      BY DEF Copied
    <3>3. Pumping'
      BY DEF Pumping, Waiting
    <3>4. Waiting'
      BY DEF Pumping, Waiting, MayGoOnline, Retries
    <3>5. Ended'
      BY DEF Pumping, Waiting, Ended
    <3>6. QED
      BY <3>1, <3>2, <3>3, <3>4, <3>5
  <2>18. CASE Exit
    <3> USE <2>18 DEF Exit, Step, request, uv, output, sigint, ending
    <3>1. TypeOK'
      BY DEF TypeOK
    <3>2. Copied'
      BY DEF Copied
    <3>3. Pumping'
      BY DEF Pumping, Waiting
    <3>4. Waiting'
      BY DEF Pumping, Waiting, MayGoOnline, Retries
    <3>5. Ended'
      BY DEF Pumping, Waiting, Ended
    <3>6. QED
      BY <3>1, <3>2, <3>3, <3>4, <3>5
  <2>19. CASE Interrupt
    <3> USE <2>19 DEF Interrupt, request, uv, output, sigint, ending
    <3>1. TypeOK'
      BY DEF TypeOK
    <3>2. Copied'
      BY DEF Copied
    <3>3. Pumping'
      BY DEF Pumping, Waiting
    <3>4. Waiting'
      BY DEF Pumping, Waiting, MayGoOnline, Retries
    <3>5. Ended'
      BY DEF Pumping, Waiting, Ended
    <3>6. QED
      BY <3>1, <3>2, <3>3, <3>4, <3>5
  <2>20. CASE Write
    <3> USE <2>20 DEF Write, request, uv, output, sigint, ending
    <3>1. TypeOK'
      BY DEF TypeOK
    <3>2. Copied'
      <4>1. PICK line \in Lines : pipe' = Append(pipe, line) /\ said' = Append(said, line)
        OBVIOUS
      <4>2. /\ Len(pipe') = Len(pipe) + 1 /\ pipe'[Len(pipe) + 1] = line
            /\ \A i \in 1..Len(pipe) : pipe'[i] = pipe[i]
        BY <4>1, AppendProperties DEF TypeOK
      <4>3. /\ Len(said') = Len(said) + 1 /\ said'[Len(said) + 1] = line
            /\ \A i \in 1..Len(said) : said'[i] = said[i]
        BY <4>1, AppendProperties DEF TypeOK
      <4>4. pipe \in Seq(Lines) /\ said \in Seq(Lines) /\ tail \in Seq(Lines) /\ shown \in Nat
        BY DEF TypeOK
      <4>5. shown' = shown /\ tail' = tail /\ pump' = pump
        OBVIOUS
      <4> HIDE <2>20 DEF Write
      <4>6. shown' + Len(pipe') <= Len(said')
        BY <4>2, <4>3, <4>4, <4>5 DEF Copied
      <4>7. pump' # "dead" => shown' + Len(pipe') = Len(said')
        BY <4>2, <4>3, <4>4, <4>5 DEF Copied
      <4>8. ASSUME pump' # "dead", NEW i \in 1..Len(pipe')
            PROVE  pipe'[i] = said'[shown' + i]
        <5>1. CASE i = Len(pipe) + 1
          BY <4>2, <4>3, <4>4, <4>5, <4>8, <5>1 DEF Copied
        <5>2. CASE i # Len(pipe) + 1
          <6>1. i \in 1..Len(pipe) /\ shown + i \in 1..Len(said)
            BY <4>2, <4>4, <5>2 DEF Copied
          <6>2. pipe[i] = said[shown + i]
            BY <4>5, <4>8, <6>1 DEF Copied
          <6>3. QED
            BY <4>2, <4>3, <4>5, <6>1, <6>2
        <5>3. QED
          BY <5>1, <5>2
      <4>9. ASSUME NEW i \in 1..Len(tail')
            PROVE  tail'[i] = said'[shown' - Len(tail') + i]
        <5>1. Len(tail) <= shown /\ shown <= Len(said)
          BY <4>4 DEF Copied
        <5>2. shown - Len(tail) + i \in 1..Len(said)
          BY <4>4, <4>5, <5>1
        <5>3. tail[i] = said[shown - Len(tail) + i]
          BY <4>5 DEF Copied
        <5>4. QED
          BY <4>3, <4>5, <5>2, <5>3
      <4>10. Len(tail') = IF shown' <= TailSize THEN shown' ELSE TailSize
        BY <4>5 DEF Copied
      <4>11. QED
        BY <4>6, <4>7, <4>8, <4>9, <4>10 DEF Copied
    <3>3. Pumping'
      BY DEF Pumping, Waiting
    <3>4. Waiting'
      BY DEF Pumping, Waiting, MayGoOnline, Retries
    <3>5. Ended'
      BY DEF Pumping, Waiting, Ended
    <3>6. QED
      BY <3>1, <3>2, <3>3, <3>4, <3>5
  <2>21. CASE Block
    <3> USE <2>21 DEF Block, request, uv, output, sigint, ending
    <3>1. TypeOK'
      BY DEF TypeOK
    <3>2. Copied'
      BY DEF Copied
    <3>3. Pumping'
      BY DEF Pumping, Waiting
    <3>4. Waiting'
      BY DEF Pumping, Waiting, MayGoOnline, Retries
    <3>5. Ended'
      BY DEF Pumping, Waiting, Ended
    <3>6. QED
      BY <3>1, <3>2, <3>3, <3>4, <3>5
  <2>22. CASE End
    <3> USE <2>22 DEF End, request, uv, output, sigint, ending
    <3>1. TypeOK'
      BY DEF TypeOK
    <3>2. Copied'
      BY DEF Copied
    <3>3. Pumping'
      BY DEF Pumping, Waiting
    <3>4. Waiting'
      BY DEF Pumping, Waiting, MayGoOnline, Retries
    <3>5. Ended'
      BY DEF Pumping, Waiting, Ended
    <3>6. QED
      BY <3>1, <3>2, <3>3, <3>4, <3>5
  <2>23. CASE Release
    <3> USE <2>23 DEF Release, request, uv, output, sigint, ending
    <3>1. TypeOK'
      <4>1. holder' \in BOOLEAN
        OBVIOUS
      <4>2. QED
        BY <4>1 DEF TypeOK
    <3>2. Copied'
      BY DEF Copied
    <3>3. Pumping'
      BY DEF Pumping, Waiting
    <3>4. Waiting'
      BY DEF Pumping, Waiting, MayGoOnline, Retries
    <3>5. Ended'
      BY DEF Pumping, Waiting, Ended
    <3>6. QED
      BY <3>1, <3>2, <3>3, <3>4, <3>5
  <2>24. CASE Pump
    <3> USE <2>24 DEF Pump, request, uv, output, sigint, ending
    <3> DEFINE line == Head(pipe)
               more == Append(tail, line)
    <3>1. /\ line \in Lines /\ Tail(pipe) \in Seq(Lines) /\ Len(Tail(pipe)) = Len(pipe) - 1
          /\ line = pipe[1] /\ \A i \in 1..Len(Tail(pipe)) : Tail(pipe)[i] = pipe[i + 1]
          /\ Len(pipe) >= 1
      BY HeadTailProperties DEF TypeOK
    <3>2. /\ more \in Seq(Lines) /\ Len(more) = Len(tail) + 1 /\ more[Len(tail) + 1] = line
          /\ \A i \in 1..Len(tail) : more[i] = tail[i]
      BY <3>1, AppendProperties DEF TypeOK
    <3>3. pipe \in Seq(Lines) /\ said \in Seq(Lines) /\ tail \in Seq(Lines) /\ shown \in Nat
      BY DEF TypeOK
    <3>4. pump = "running" /\ pipe' = Tail(pipe) /\ said' = said
      OBVIOUS
    <3>5. ASSUME reader
          PROVE  TypeOK' /\ Copied'
      <4>1. shown' = shown + 1 /\ tail' = LastLines(more) /\ pump' = pump
        BY <3>5
      <4>2. shown' \in 0..MaxLines
        BY <3>1, <3>3, <3>4, <4>1 DEF TypeOK, Copied
      <4> HIDE DEF line, more
      <4>3. tail' \in Seq(Lines) /\ Len(tail') <= TailSize
        BY <3>2, <3>3, <4>1, LastLinesEnd
      <4>4. pipe' \in Seq(Lines) /\ Len(pipe') <= PipeSize
        BY <3>1, <3>3, <3>4 DEF TypeOK
      <4>5. TypeOK'
        BY <4>1, <4>2, <4>3, <4>4 DEF TypeOK
      <4> HIDE <2>24 DEF Pump
      <4>6. Len(tail') = IF shown' <= TailSize THEN shown' ELSE TailSize
        <5>1. Len(tail') = IF Len(more) <= TailSize THEN Len(more) ELSE TailSize
          BY <3>2, <4>1, LastLinesEnd
        <5>2. Len(tail) = IF shown <= TailSize THEN shown ELSE TailSize
          BY DEF Copied
        <5>3. QED
          BY <3>2, <3>3, <4>1, <5>1, <5>2, GateAssumption DEF GateAssumption
      <4>7. said[shown + 1] = line
        BY <3>1, <3>3, <3>4 DEF Copied
      <4>8. ASSUME NEW i \in 1..Len(more)
            PROVE  more[i] = said[shown - Len(tail) + i]
        <5>1. CASE i = Len(tail) + 1
          BY <3>2, <3>3, <4>7, <5>1
        <5>2. CASE i # Len(tail) + 1
          <6>1. i \in 1..Len(tail)
            BY <3>2, <3>3, <5>2
          <6>2. QED
            BY <3>2, <6>1 DEF Copied
        <5>3. QED
          BY <5>1, <5>2
      <4>9. \A i \in 1..Len(tail') : tail'[i] = more[Len(more) - Len(tail') + i]
        BY <3>2, <4>1, LastLinesEnd
      <4>10. Len(tail') <= Len(more)
        BY <3>2, <3>3, <4>1, LastLinesEnd
      <4>11. \A i \in 1..Len(tail') : tail'[i] = said'[shown' - Len(tail') + i]
        <5> TAKE i \in 1..Len(tail')
        <5>1. Len(more) - Len(tail') + i \in 1..Len(more)
          BY <3>2, <4>3, <4>10
        <5>2. tail'[i] = said[shown - Len(tail) + (Len(more) - Len(tail') + i)]
          BY <4>8, <4>9, <5>1
        <5>3. shown - Len(tail) + (Len(more) - Len(tail') + i) = shown' - Len(tail') + i
          BY <3>2, <3>3, <4>1, <4>3
        <5>4. QED
          BY <3>4, <5>2, <5>3
      <4>12. shown' + Len(pipe') = Len(said')
        BY <3>1, <3>3, <3>4, <4>1 DEF Copied
      <4>13. \A i \in 1..Len(pipe') : pipe'[i] = said'[shown' + i]
        BY <3>1, <3>3, <3>4, <4>1 DEF Copied
      <4>14. Copied'
        BY <3>3, <3>4, <4>6, <4>11, <4>12, <4>13 DEF Copied
      <4>15. QED
        BY <4>5, <4>14
    <3>6. ASSUME ~reader
          PROVE  TypeOK' /\ Copied'
      <4>1. pump' = "dead" /\ shown' = shown /\ tail' = tail
        BY <3>6
      <4>2. TypeOK'
        BY <3>1, <3>3, <3>4, <4>1 DEF TypeOK
      <4> HIDE <2>24 DEF Pump
      <4>3. shown' + Len(pipe') <= Len(said')
        <5>1. Len(pipe') = Len(pipe) - 1
          BY <3>1, <3>4
        <5>2. shown + Len(pipe) <= Len(said)
          BY DEF Copied
        <5>3. QED
          BY <3>3, <3>4, <4>1, <5>1, <5>2
      <4>4. /\ Len(tail') = IF shown' <= TailSize THEN shown' ELSE TailSize
            /\ \A i \in 1..Len(tail') : tail'[i] = said'[shown' - Len(tail') + i]
        BY <3>4, <4>1 DEF Copied
      <4>5. Copied'
        BY <4>1, <4>3, <4>4 DEF Copied
      <4>6. QED
        BY <4>2, <4>5
    <3>7. TypeOK'
      BY <3>5, <3>6
    <3>8. Copied'
      BY <3>5, <3>6
    <3>9. Pumping'
      BY DEF Pumping, Waiting
    <3>10. Waiting'
      BY DEF Pumping, Waiting, MayGoOnline, Retries
    <3>11. Ended'
      BY DEF Pumping, Waiting, Ended
    <3>12. QED
      BY <3>7, <3>8, <3>9, <3>10, <3>11
  <2>25. CASE PumpEnds
    <3> USE <2>25 DEF PumpEnds, request, uv, output, sigint, ending
    <3>1. TypeOK'
      BY DEF TypeOK
    <3>2. Copied'
      BY DEF Copied
    <3>3. Pumping'
      BY DEF Pumping, Waiting
    <3>4. Waiting'
      BY DEF Pumping, Waiting, MayGoOnline, Retries
    <3>5. Ended'
      BY DEF Pumping, Waiting, Ended
    <3>6. QED
      BY <3>1, <3>2, <3>3, <3>4, <3>5
  <2>26. CASE Leave
    <3> USE <2>26 DEF Leave, request, uv, output, sigint, ending
    <3>1. TypeOK'
      <4>1. reader' \in BOOLEAN
        OBVIOUS
      <4>2. QED
        BY <4>1 DEF TypeOK
    <3>2. Copied'
      BY DEF Copied
    <3>3. Pumping'
      BY DEF Pumping, Waiting
    <3>4. Waiting'
      BY DEF Pumping, Waiting, MayGoOnline, Retries
    <3>5. Ended'
      BY DEF Pumping, Waiting, Ended
    <3>6. QED
      BY <3>1, <3>2, <3>3, <3>4, <3>5
  <2>27. CASE UNCHANGED vars
    <3> USE <2>27 DEF vars, request, uv, output, sigint, ending
    <3>1. TypeOK'
      BY DEF TypeOK
    <3>2. Copied'
      BY DEF Copied
    <3>3. Pumping' /\ Ended'
      BY DEF Pumping, Ended
    <3>4. Waiting'
      BY DEF Waiting, MayGoOnline, Retries
    <3>5. QED
      BY <3>1, <3>2, <3>3, <3>4
  <2>28. QED
    BY <2>1, <2>2, <2>3, <2>4, <2>5, <2>6, <2>7, <2>8, <2>9, <2>10, <2>11, <2>12, <2>13, <2>14, <2>15, <2>16, <2>17, <2>18, <2>19, <2>20, <2>21, <2>22, <2>23, <2>24, <2>25, <2>26, <2>27
    DEF Next, Main
<1>3. QED
  BY <1>1, <1>2, PTL DEF Spec

\* Every variable keeps its type: in particular the pipe and the tail never hold
\* more than they may.
THEOREM TypeCorrect == Spec => []TypeOK
<1>1. IInv => TypeOK
  BY DEF IInv
<1>2. QED
  BY <1>1, Invariance, PTL

\* What is shown in full is what was said, and the tail is its last lines.
LEMMA ShownIsSaid ==
  ASSUME IInv, pump = "done"
  PROVE  pipe = <<>> /\ shown = Len(said) /\ tail = LastLines(said)
<1> USE GateAssumption DEF GateAssumption
<1>1. said \in Seq(Lines) /\ tail \in Seq(Lines)
  BY DEF IInv, TypeOK
<1>2. pipe = <<>> /\ shown = Len(said)
  BY <1>1 DEF IInv, Pumping, Copied, TypeOK
<1>3. Len(tail) = Len(LastLines(said))
  BY <1>1, <1>2, LastLinesEnd DEF IInv, Copied
<1>4. ASSUME NEW i \in 1..Len(tail)
      PROVE  tail[i] = LastLines(said)[i]
  <2>1. tail[i] = said[Len(said) - Len(tail) + i]
    BY <1>2 DEF IInv, Copied
  <2>2. LastLines(said)[i] = said[Len(said) - Len(LastLines(said)) + i]
    BY <1>1, <1>3, LastLinesEnd
  <2>3. QED
    BY <1>3, <2>1, <2>2
<1>5. tail = LastLines(said)
  BY <1>1, <1>3, <1>4, LastLinesEnd, SeqEqual
<1>6. QED
  BY <1>2, <1>5

\* When the gate decides and speaks, all of uv's output has gone out before it,
\* however much it was and whatever uv left behind to write it.
THEOREM OutputBeforeReport == Spec => []OutputFirst
<1>1. IInv => OutputFirst
  <2> SUFFICES ASSUME IInv, pc \in {"decide", "retry", "report"}, ~refused
               PROVE  \/ pump = "dead" /\ ~reader
                      \/ pipe = <<>> /\ shown = Len(said) /\ tail = LastLines(said)
    BY DEF OutputFirst
  <2>1. pump \in {"done", "dead"}
    BY DEF IInv, Waiting
  <2>2. pump = "dead" => ~reader
    BY DEF IInv, Pumping
  <2>3. QED
    BY <2>1, <2>2, ShownIsSaid
<1>2. QED
  BY <1>1, Invariance, PTL

\* The exit status is uv's, or the refusal's, and is never zero for any other
\* reason.
THEOREM StatusOfUv == Spec => []StatusIsUvs
<1> USE GateAssumption DEF GateAssumption
<1>1. IInv => StatusIsUvs
  <2> SUFFICES ASSUME IInv, pc = "exited"
               PROVE  /\ reader => status = IF interrupted THEN 130
                                            ELSE IF refused THEN 2 ELSE result % 256
                      /\ status = 0 => result = 0 /\ attempt # "none" /\ ~refused /\ ~interrupted
    BY DEF StatusIsUvs
  <2>1. status = IF interrupted THEN 130 ELSE IF broken THEN 120
                 ELSE IF refused THEN 2 ELSE result % 256
    BY DEF IInv, Ended
  <2>2. reader => ~broken
    BY DEF IInv, Pumping
  <2>3. result % 256 = 0 => result = 0
    <3>1. result \in {0, FailCode, -Signal}
      BY DEF IInv, TypeOK
    <3>2. FailCode % 256 # 0 /\ (-Signal) % 256 # 0
      OBVIOUS
    <3>3. QED
      BY <3>1, <3>2
  <2>4. ~interrupted /\ ~refused => attempt # "none"
    BY DEF IInv, Waiting, After, Pumping
  <2>5. QED
    BY <2>1, <2>2, <2>3, <2>4
<1>2. QED
  BY <1>1, Invariance, PTL

\* The gate leaves its Git shim behind only if an interrupt struck before it was
\* in the charge of the finally that removes it, or in that finally.
THEOREM ShimRemoved == Spec => []ShimIsRemoved
<1>1. IInv => ShimIsRemoved
  BY DEF IInv, Ended, ShimIsRemoved
<1>2. QED
  BY <1>1, Invariance, PTL

\* uv runs online only after one offline run that wrote a miss and whose kept
\* tail shows no stale lock, once, and then stays gone.  A stale lock the tail has
\* lost is not excluded.
THEOREM OnlineProven == Spec => OnlineIsProven
<1> USE DEF request, uv, output, sigint, ending
<1>1. IInv /\ [Next]_vars =>
        [/\ attempt = "online" => attempt' = "online" /\ (child = "gone" => child' = "gone")
         /\ attempt # "online" /\ attempt' = "online" =>
              /\ attempt = "offline"
              /\ subcommand \in {"prepare", "tool"}
              /\ allowed
              /\ result # 0
              /\ ~Shows(LastLines(said), SIGNATURES[1])
              /\ \E n \in DOMAIN SIGNATURES : /\ SIGNATURES[n][1] \in ONLINE_RECOVERABLE
                                              /\ Shows(said, SIGNATURES[n])]_vars
  <2> SUFFICES ASSUME IInv, Next
               PROVE  /\ attempt = "online" =>
                           attempt' = "online" /\ (child = "gone" => child' = "gone")
                      /\ attempt # "online" /\ attempt' = "online" =>
                           /\ attempt = "offline"
                           /\ subcommand \in {"prepare", "tool"}
                           /\ allowed
                           /\ result # 0
                           /\ ~Shows(LastLines(said), SIGNATURES[1])
                           /\ \E n \in DOMAIN SIGNATURES :
                                /\ SIGNATURES[n][1] \in ONLINE_RECOVERABLE
                                /\ Shows(said, SIGNATURES[n])
    BY DEF vars
  <2>1. CASE Spawn
    <3>1. CASE attempt = "none"
      BY <2>1, <3>1 DEF Spawn
    <3>2. CASE attempt # "none"
      <4>1. MayGoOnline /\ pump = "done"
        BY <2>1, <3>2 DEF IInv, Waiting, Spawn, Step
      <4>2. tail = LastLines(said) /\ said \in Seq(Lines)
        BY <4>1, ShownIsSaid DEF IInv, TypeOK
      <4>3. classify(LastLines(said)) \in ONLINE_RECOVERABLE
        BY <4>1, <4>2 DEF MayGoOnline, Retries
      <4>4. PICK n \in DOMAIN SIGNATURES : /\ SIGNATURES[n][1] \in ONLINE_RECOVERABLE
                                           /\ Shows(LastLines(said), SIGNATURES[n])
        BY <4>3, RecoverableShows
      <4>5. Shows(said, SIGNATURES[n])
        BY <4>2, <4>4, ShowsInEnd
      <4>6. ~Shows(LastLines(said), SIGNATURES[1])
        BY <4>3, RecoverableShows
      <4>7. subcommand \in {"prepare", "tool"}
        BY <4>1 DEF MayGoOnline, Retries, IInv, TypeOK
      <4>8. QED
        BY <4>1, <4>4, <4>5, <4>6, <4>7 DEF MayGoOnline, Retries
    <3>3. QED
      BY <3>1, <3>2
  <2>2. CASE Main /\ ~Spawn
    BY <2>2 DEF Main, Refuse, Validate, Locate, Query, QueryTimesOut, QueryDrained,
                ChooseLinkMode, InstallShim, ContextReady, Wait, Join, Decide, Retry, Report,
                Close, Metric, Exit
  <2>3. CASE ~Main
    BY <2>3 DEF Next, Interrupt, Write, Block, End, Release, Pump, PumpEnds, Leave
  <2>4. QED
    BY <2>1, <2>2, <2>3
<1>2. QED
  BY <1>1, Invariance, PTL DEF Spec, OnlineIsProven
================================================================================
