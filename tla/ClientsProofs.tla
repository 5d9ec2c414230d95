-------------------------- MODULE ClientsProofs --------------------------
(* Proofs about the two clients: the ClamAV client (ScanExchange), for    *)
(* any set of scans and any length of a file, and then the web client's   *)
(* navigation (Navigation), for any sets of pages and any length of the   *)
(* history.  The two are extended together and share no variable.         *)
(*                                                                        *)
(* The inductive invariant Inv of ScanExchange says of each scan by       *)
(* itself that an answer other than a failure is clamd's to the whole     *)
(* file, that what is awaited was asked for with the whole file, and that *)
(* an answer that may still fail has a handler unless its scan is sending.*)
(* NavInv, that of Navigation, adds to the agreement of page, list and    *)
(* address that every entry of the history was left showing the page of   *)
(* its address.                                                           *)
EXTENDS Navigation, ScanExchange, SequenceTheorems, TLAPS

Answered == {"OK", "FOUND"}
Resting == {"idle", "ended", "lost"}
Early == {"idle", "fetching", "connecting"}
Unsettled == Exchange \cup Early

ScanSound(scan) ==
  /\ scan \in Scan
  /\ scan.sent <= scan.file.length
  /\ scan.at \in Early => scan.sent = 0 /\ scan.answer = "none"
  /\ scan.at \in Exchange => scan.answer # "none"
  /\ scan.at \in {"terminator", "awaiting"} => WholeFile(scan)
  /\ scan.answer \in Answered => WholeFile(scan) /\ scan.answer = Reply(scan)
  /\ scan.at \in Unsettled => scan.result = "none"
  /\ scan.at = "recording" => scan.result \in Verdicts
  /\ scan.result \in Verdicts => scan.result = Truth(scan.file)
  /\ scan.answer = "none" => ~scan.handled
  /\ scan.answer = "pending" => (scan.handled <=> scan.at \notin Sending)

RowSound(s) ==
  /\ rows[s] \in Verdicts \cup {"none"}
  /\ rows[s] # "none" => scans[s].at = "ended" /\ rows[s] = scans[s].result

Inv ==
  /\ up \in BOOLEAN
  /\ DOMAIN scans = Scans /\ scans = [s \in Scans |-> scans[s]]
  /\ rows = [s \in Scans |-> rows[s]]
  /\ \A s \in Scans : ScanSound(scans[s]) /\ RowSound(s)
  /\ ~up => \A s \in Scans : scans[s].at \in Resting

--------------------------------------------------------------------------
(* Lemmas.                                                                *)

\* The shape of a scan: what its fields are, and what a changed one is.
LEMMA ScanFields ==
  ASSUME NEW scan \in Scan
  PROVE /\ scan.at \in Stages /\ scan.file \in Files
        /\ scan.sent \in 0..MaxChunks /\ scan.answer \in Answers
        /\ scan.handled \in BOOLEAN
        /\ scan.result \in Verdicts \cup Errors \cup {"none"}
        /\ scan.file.length \in Chunks /\ scan.file.infected \in 0..MaxChunks
        /\ scan.file.infected <= scan.file.length
BY DEF Scan, Files

\* The answer to a whole file is the truth, or an error.
LEMMA OutcomeTells ==
  ASSUME NEW scan, ScanSound(scan), scan.answer \in Texts \cup {"timedOut", "broken"}
  PROVE \/ Outcome(scan.answer) \in Errors
        \/ /\ Outcome(scan.answer) \in Verdicts
           /\ Outcome(scan.answer) = Truth(scan.file)
<1>1. scan \in Scan /\ (scan.answer \in Answered =>
        scan.sent = scan.file.length /\ scan.answer = Reply(scan))
  BY DEF ScanSound, WholeFile
<1>2. /\ scan.file.length \in Nat /\ scan.file.infected \in Nat
      /\ scan.file.infected <= scan.file.length
  BY <1>1, ScanFields, MaxChunksAssumption DEF Chunks
<1>3. CASE scan.answer \in {"other", "timedOut", "broken"}
  BY <1>3 DEF Outcome, Parse, Errors
<1>4. CASE scan.answer \in Answered
  <2>1. scan.answer = IF scan.file.infected \in 1..scan.file.length
                      THEN "FOUND" ELSE "OK"
    BY <1>1, <1>4 DEF Reply
  <2>2. scan.file.infected \in 1..scan.file.length <=> scan.file.infected # 0
    BY <1>2
  <2> QED
    BY <2>1, <2>2 DEF Outcome, Parse, Truth, Verdicts
<1> QED
  BY <1>3, <1>4 DEF Texts, Answered

\* A scan settles soundly with an error, or with the truth, if its answer has a
\* handler or needs none.
LEMMA SettledSound ==
  ASSUME NEW scan, ScanSound(scan), NEW handled,
         \/ handled = Caught(scan)
         \/ handled = Awaited(scan) /\ scan.answer # "none"
         \/ handled = scan /\ scan.answer # "pending",
         NEW result,
         result \in Errors \/ (result \in Verdicts /\ result = Truth(scan.file))
  PROVE ScanSound(Settled(handled, result))
        /\ Settled(handled, result).at \in {"recording", "ended"}
<1>1. scan \in Scan
  BY DEF ScanSound
<1>2. result \in Verdicts \cup Errors
  OBVIOUS
<1>3. /\ handled \in Scan /\ handled.file = scan.file /\ handled.sent = scan.sent
      /\ handled.answer = scan.answer
      /\ handled.answer = "pending" => handled.handled
      /\ handled.answer = "none" => ~handled.handled
  BY <1>1 DEF Scan, ScanSound, Caught, Awaited
<1> DEFINE new == Settled(handled, result)
<1>4. /\ new \in Scan
      /\ new.at = IF result \in Verdicts THEN "recording" ELSE "ended"
      /\ new.file = scan.file /\ new.sent = scan.sent
      /\ new.answer = scan.answer /\ new.result = result
      /\ new.answer = "pending" => new.handled
      /\ new.answer = "none" => ~new.handled
  BY <1>2, <1>3 DEF Settled, Scan, Stages
<1> HIDE DEF new
<1>5. WholeFile(new) = WholeFile(scan) /\ Reply(new) = Reply(scan)
  BY <1>4 DEF WholeFile, Reply
<1>6. new.at \in {"recording", "ended"} /\ (new.at = "recording" => result \in Verdicts)
  BY <1>4
<1>7. result \in Verdicts => result = Truth(scan.file)
  BY DEF Errors, Verdicts
<1>8. ScanSound(new)
  BY <1>4, <1>5, <1>6, <1>7 DEF ScanSound, Early, Unsettled, Exchange, Sending, Writes
<1> QED
  BY <1>6, <1>8 DEF new

\* A step of one scan, which is not recorded yet and becomes a sound one.
LEMMA BecomeInv ==
  ASSUME Inv, NEW s \in Scans, NEW scan, ScanSound(scan), Become(s, scan),
         up \/ scan.at \in Resting,
         scans[s].at = "ended" => scan.at = "ended" /\ scan.result = scans[s].result
  PROVE Inv'
<1>1. /\ scans' = [t \in Scans |-> IF t = s THEN scan ELSE scans[t]]
      /\ up' = up /\ rows' = rows
  BY DEF Become, Inv
<1>2. ASSUME NEW t \in Scans
      PROVE ScanSound(scans'[t]) /\ RowSound(t)'
  BY <1>1 DEF Inv, RowSound
<1> QED
  BY <1>1, <1>2 DEF Inv

\* A scan that fails, with whatever error.
LEMMA FailInv ==
  ASSUME Inv, NEW s \in Scans, NEW error \in Errors, Fail(s, error),
         scans[s].at \notin Resting
  PROVE Inv'
<1>1. ScanSound(scans[s]) /\ up
  BY DEF Inv
<1>2. ScanSound(Settled(Caught(scans[s]), error))
  BY <1>1, SettledSound
<1> QED
  BY <1>1, <1>2, BecomeInv DEF Fail, Resting

\* The end of the process leaves verdicts and rows as they are.
LEMMA DieInv ==
  ASSUME Inv, Die
  PROVE Inv'
<1>1. /\ up' = FALSE /\ rows' = rows
      /\ scans' = [s \in Scans |-> scans'[s]]
  BY DEF Die
<1>2. ASSUME NEW s \in Scans
      PROVE /\ ScanSound(scans'[s]) /\ scans'[s].at \in Resting
            /\ RowSound(s)'
  <2>1. scans[s] \in Scan /\ ScanSound(scans[s]) /\ RowSound(s)
    BY DEF Inv, ScanSound
  <2>2. CASE scans[s].at \in Resting
    <3>1. scans'[s] = [scans[s] EXCEPT !.answer = "none", !.handled = FALSE]
      BY <2>2 DEF Die, Resting
    <3>2. /\ scans'[s] \in Scan /\ scans'[s].answer = "none" /\ ~scans'[s].handled
          /\ scans'[s].at = scans[s].at /\ scans'[s].file = scans[s].file
          /\ scans'[s].sent = scans[s].sent /\ scans'[s].result = scans[s].result
      BY <2>1, <3>1 DEF Scan, Answers
    <3> QED
      BY <1>1, <2>1, <2>2, <3>2 DEF ScanSound, RowSound, Resting, Answered, WholeFile, Exchange,
             Sending, Writes
  <2>3. CASE scans[s].at \notin Resting
    <3>1. scans'[s] = [scans[s] EXCEPT !.at = "lost", !.answer = "none", !.handled = FALSE]
      BY <2>3 DEF Die, Resting
    <3>2. /\ scans'[s] \in Scan /\ scans'[s].answer = "none" /\ ~scans'[s].handled
          /\ scans'[s].at = "lost" /\ scans'[s].file = scans[s].file
          /\ scans'[s].sent = scans[s].sent /\ scans'[s].result = scans[s].result
      BY <2>1, <3>1 DEF Scan, Answers, Stages
    <3>3. rows[s] = "none"
      BY <2>1, <2>3 DEF RowSound, Resting
    <3> QED
      BY <1>1, <2>1, <3>2, <3>3
         DEF ScanSound, RowSound, Resting, Answered, Early, Unsettled, Exchange,
             Sending, Writes
  <2> QED
    BY <2>2, <2>3
<1> QED
  BY <1>1, <1>2 DEF Inv

\* A write is issued, or fails because clamd has closed.
LEMMA WrittenInv ==
  ASSUME Inv, NEW s \in Scans, scans[s].at = "reading", NEW scan, NEW what \in Writes,
         ScanSound(scan), scan.at = "reading",
         what = "terminator" => WholeFile(scan), Become(s, Written(scan, what))
  PROVE Inv'
<1>1. up
  BY DEF Inv, Resting
<1>2. CASE scan.answer \in {"pending", "timedOut"}
  <2> DEFINE new == [scan EXCEPT !.at = what]
  <2>1. /\ new \in Scan /\ new.at = what /\ new.file = scan.file
        /\ new.sent = scan.sent /\ new.answer = scan.answer /\ new.result = scan.result
        /\ new.handled = scan.handled
    BY DEF ScanSound, Scan, Stages, Exchange, Sending
  <2>2. WholeFile(new) = WholeFile(scan) /\ scan.result = "none"
    BY <2>1 DEF WholeFile, ScanSound, Unsettled, Exchange, Sending
  <2> HIDE DEF new
  <2>3. ScanSound(new)
    BY <1>2, <2>1, <2>2 DEF ScanSound, Answered, Sending, Writes, Verdicts, Early
  <2>4. Become(s, new)
    BY <1>2 DEF Written, new
  <2> QED
    BY <1>1, <2>3, <2>4, BecomeInv
<1>3. CASE scan.answer \notin {"pending", "timedOut"}
  <2>1. Become(s, Settled(Caught(scan), "ServiceUnavailable"))
    BY <1>3 DEF Written
  <2>2. ScanSound(Settled(Caught(scan), "ServiceUnavailable"))
    BY SettledSound DEF Errors
  <2> QED
    BY <1>1, <2>1, <2>2, BecomeInv
<1> QED
  BY <1>2, <1>3

\* The answer is resolved with a text that is true if it is a verdict.
LEMMA ResolveInv ==
  ASSUME Inv, NEW s \in Scans, scans[s].answer = "pending", scans[s].at \in Exchange,
         NEW text \in Texts, Resolve(s, text),
         text \in Answered => WholeFile(scans[s]) /\ text = Reply(scans[s])
  PROVE Inv'
<1> DEFINE scan == [scans[s] EXCEPT !.answer = text]
<1>1. up /\ ScanSound(scans[s]) /\ scans[s].at \notin Resting
  BY DEF Inv, Resting, Exchange, Sending, Writes
<1>2. /\ scan \in Scan /\ scan.at = scans[s].at /\ scan.file = scans[s].file
      /\ scan.sent = scans[s].sent /\ scan.answer = text
      /\ scan.result = scans[s].result /\ scan.handled = scans[s].handled
  BY <1>1 DEF ScanSound, Scan, Answers
<1>3. WholeFile(scan) = WholeFile(scans[s]) /\ Reply(scan) = Reply(scans[s])
  BY <1>2 DEF WholeFile, Reply
<1>4. Become(s, IF scan.at = "awaiting" THEN Settled(scan, Outcome(text)) ELSE scan)
  BY DEF Resolve
<1> HIDE DEF scan
<1>5. ScanSound(scan)
  BY <1>1, <1>2, <1>3 DEF ScanSound, Texts
<1>6. CASE scan.at = "awaiting"
  <2>1. scan.answer # "pending"
    BY <1>2 DEF Texts
  <2>2. ScanSound(Settled(scan, Outcome(text)))
    BY <1>2, <1>5, <2>1, OutcomeTells, SettledSound
  <2> QED
    BY <1>1, <1>4, <1>6, <2>2, BecomeInv DEF Resting
<1>7. CASE scan.at # "awaiting"
  BY <1>1, <1>4, <1>5, <1>7, BecomeInv DEF Resting
<1> QED
  BY <1>6, <1>7

\* The answer is rejected: the scan stays sound.
LEMMA RejectedSound ==
  ASSUME Inv, NEW s \in Scans, scans[s].answer = "pending",
         NEW reason \in {"timedOut", "broken"}
  PROVE LET scan == [scans[s] EXCEPT !.answer = reason]
        IN /\ ScanSound(scan) /\ scan.at = scans[s].at
           /\ scan.result = scans[s].result /\ scan.answer = reason
<1> DEFINE scan == [scans[s] EXCEPT !.answer = reason]
<1>1. ScanSound(scans[s])
  BY DEF Inv
<1>2. /\ scan \in Scan /\ scan.at = scans[s].at /\ scan.file = scans[s].file
      /\ scan.sent = scans[s].sent /\ scan.answer = reason
      /\ scan.result = scans[s].result /\ scan.handled = scans[s].handled
  BY <1>1 DEF ScanSound, Scan, Answers
<1>3. WholeFile(scan) = WholeFile(scans[s])
  BY <1>2 DEF WholeFile
<1> HIDE DEF scan
<1>4. ScanSound(scan)
  BY <1>1, <1>2, <1>3 DEF ScanSound, Answered
<1> QED
  BY <1>2, <1>4 DEF scan

\* A rejection that ends the scan, the process or nothing.
LEMMA RejectInv ==
  ASSUME Inv, NEW s \in Scans, NEW reason \in {"timedOut", "broken"},
         Reject(s, reason), scans[s].answer = "pending"
  PROVE Inv'
<1> DEFINE scan == [scans[s] EXCEPT !.answer = reason]
<1>1. /\ ScanSound(scan) /\ scan.at = scans[s].at
      /\ scan.result = scans[s].result /\ scan.answer = reason
  BY RejectedSound
<1>2. \/ Die
      \/ Become(s, IF scan.at = "awaiting" THEN Settled(scan, Outcome(reason)) ELSE scan)
  BY DEF Reject
<1> HIDE DEF scan
<1>3. ASSUME scan.at = "awaiting", Become(s, Settled(scan, Outcome(reason)))
      PROVE Inv'
  <2>1. up /\ ScanSound(Settled(scan, Outcome(reason)))
    BY <1>1, <1>3, OutcomeTells, SettledSound DEF Inv, Resting
  <2> QED
    BY <1>1, <1>3, <2>1, BecomeInv DEF Resting
<1>4. ASSUME Become(s, scan)
      PROVE Inv'
  <2>1. up \/ scan.at \in Resting
    BY <1>1 DEF Inv
  <2> QED
    BY <1>1, <1>4, <2>1, BecomeInv DEF Resting
<1> QED
  BY <1>2, <1>3, <1>4, DieInv

--------------------------------------------------------------------------
(* The invariant.                                                         *)

\* Nothing has been asked for in the beginning.
LEMMA InvInit == Init => Inv
<1> SUFFICES ASSUME Init PROVE Inv
  OBVIOUS
<1>1. NoFile \in Files
  BY MaxChunksAssumption DEF NoFile, Files, Chunks
<1>2. Blank \in Scan
  BY <1>1, MaxChunksAssumption DEF Blank, Scan, Stages, Answers
<1>3. ScanSound(Blank)
  BY <1>2 DEF Blank, ScanSound, NoFile, Answered, Unsettled, Verdicts, Exchange, Sending, Writes
<1>4. ASSUME NEW s \in Scans
      PROVE ScanSound(scans[s]) /\ RowSound(s)
  BY <1>3 DEF Init, RowSound
<1> QED
  BY <1>4 DEF Init, Inv

\* A scan goes on to another stage of which nothing is demanded.
LEMMA MoveInv ==
  ASSUME Inv, NEW s \in Scans, scans[s].at \notin Resting,
         NEW at \in {"connecting", "reading"},
         scans[s].at \in Unsettled, at = "connecting" => scans[s].at \in Early,
         at = "reading" => scans[s].at \in Sending,
         Become(s, [scans[s] EXCEPT !.at = at])
  PROVE Inv'
<1> DEFINE scan == [scans[s] EXCEPT !.at = at]
<1>1. up /\ ScanSound(scans[s])
  BY DEF Inv
<1>2. /\ scan \in Scan /\ scan.at = at /\ scan.file = scans[s].file
      /\ scan.sent = scans[s].sent /\ scan.answer = scans[s].answer
      /\ scan.result = scans[s].result /\ scan.handled = scans[s].handled
  BY <1>1 DEF ScanSound, Scan, Stages, Exchange, Sending
<1>3. WholeFile(scan) = WholeFile(scans[s]) /\ Reply(scan) = Reply(scans[s])
  BY <1>2 DEF WholeFile, Reply
<1>4. Become(s, scan)
  OBVIOUS
<1> HIDE DEF scan
<1>5. ScanSound(scan)
  BY <1>1, <1>2, <1>3 DEF ScanSound, Verdicts, Early, Exchange,
     Sending, Writes
<1> QED
  BY <1>1, <1>4, <1>5, BecomeInv DEF Resting

\* A scan begins with nothing sent.
LEMMA BeginInv ==
  ASSUME Inv, NEW s \in Scans, NEW file \in Files, Begin(s, file)
  PROVE Inv'
<1> DEFINE scan == [scans[s] EXCEPT !.at = "fetching", !.file = file]
<1>1. up /\ ScanSound(scans[s]) /\ scans[s].at = "idle"
  BY DEF Inv, Begin
<1>2. /\ scan \in Scan /\ scan.at = "fetching" /\ scan.file = file
      /\ scan.sent = scans[s].sent /\ scan.answer = scans[s].answer
      /\ scan.result = "none" /\ scan.handled = scans[s].handled
  BY <1>1 DEF ScanSound, Scan, Stages, Unsettled, Early
<1>3. Become(s, scan)
  BY DEF Begin
<1>4. scan.sent = 0 /\ scan.answer = "none" /\ ~scan.handled
  BY <1>1, <1>2 DEF ScanSound, Early
<1>5. file.length \in Nat
  BY MaxChunksAssumption DEF Files, Chunks
<1> HIDE DEF scan
<1>6. ScanSound(scan)
  BY <1>2, <1>4, <1>5 DEF ScanSound, Answered, Verdicts, Exchange,
     Sending, Writes
<1> QED
  BY <1>1, <1>3, <1>6, BecomeInv

\* The socket connects: the answer is promised, and nothing sent yet.
LEMMA ConnectsInv ==
  ASSUME Inv, NEW s \in Scans, Connects(s)
  PROVE Inv'
<1> DEFINE scan == [scans[s] EXCEPT !.at = "command", !.answer = "pending"]
<1>1. ScanSound(scans[s]) /\ scans[s].at = "connecting" /\ up
  BY DEF Inv, Connects, Resting
<1>2. /\ scan \in Scan /\ scan.at = "command" /\ scan.file = scans[s].file
      /\ scan.sent = scans[s].sent /\ scan.answer = "pending"
      /\ scan.result = "none" /\ scan.handled = scans[s].handled
  BY <1>1 DEF ScanSound, Scan, Stages, Exchange, Sending, Writes, Answers, Unsettled, Early
<1>3. Become(s, scan)
  BY DEF Connects
<1> HIDE DEF scan
<1>4. ScanSound(scan)
  BY <1>1, <1>2 DEF ScanSound, Answered, Verdicts, Early, Sending, Writes
<1> QED
  BY <1>1, <1>3, <1>4, BecomeInv

\* A chunk is read and written.
LEMMA ReadChunkInv ==
  ASSUME Inv, NEW s \in Scans, ReadChunk(s)
  PROVE Inv'
<1> DEFINE scan == [scans[s] EXCEPT !.sent = @ + 1]
<1>1. /\ ScanSound(scans[s]) /\ scans[s].at = "reading"
      /\ scans[s].sent < scans[s].file.length
  BY DEF Inv, ReadChunk
<1>2. /\ scans[s] \in Scan /\ scans[s].sent \in Nat
      /\ scans[s].file.length \in 1..MaxChunks
  BY <1>1, ScanFields, MaxChunksAssumption DEF ScanSound, Chunks
<1>3. /\ scan.at = scans[s].at /\ scan.file = scans[s].file
      /\ scan.sent = scans[s].sent + 1 /\ scan.answer = scans[s].answer
      /\ scan.result = scans[s].result /\ scan.handled = scans[s].handled
      /\ (scans[s].sent + 1 \in 0..MaxChunks => scan \in Scan)
  BY <1>2 DEF Scan
<1>4. scans[s].sent + 1 \in 0..MaxChunks /\ scans[s].sent + 1 <= scans[s].file.length
  BY <1>1, <1>2, MaxChunksAssumption
<1>5. scans[s].answer \notin Answered
  BY <1>1, <1>2 DEF ScanSound, WholeFile
<1>6. Become(s, Written(scan, "chunk"))
  BY DEF ReadChunk
<1> HIDE DEF scan
<1>7. ScanSound(scan)
  BY <1>1, <1>3, <1>4, <1>5 DEF ScanSound, Early
<1> QED
  BY <1>1, <1>3, <1>6, <1>7, WrittenInv DEF Writes

\* The end of the file is written.
LEMMA ReadEndInv ==
  ASSUME Inv, NEW s \in Scans, ReadEnd(s)
  PROVE Inv'
<1>1. /\ ScanSound(scans[s]) /\ scans[s].at = "reading" /\ WholeFile(scans[s])
      /\ Become(s, Written(scans[s], "terminator"))
  BY DEF Inv, ReadEnd
<1> QED
  BY <1>1, WrittenInv DEF Writes

\* A write is done, the last one with an answer that may be there already.
LEMMA WriteDoneInv ==
  ASSUME Inv, NEW s \in Scans, WriteDone(s)
  PROVE Inv'
<1>1. ScanSound(scans[s])
  BY DEF Inv
<1>2. CASE scans[s].at \in {"command", "chunk"}
  <2>1. Become(s, [scans[s] EXCEPT !.at = "reading"])
    BY <1>2 DEF WriteDone
  <2> QED
    BY <1>2, <2>1, MoveInv DEF Resting, Unsettled, Exchange, Sending, Writes
<1>3. CASE scans[s].at = "terminator" /\ scans[s].answer # "pending"
  <2>1. Become(s, Settled(Awaited(scans[s]), Outcome(scans[s].answer))) /\ up
    BY <1>3 DEF WriteDone, Inv, Resting
  <2>2. scans[s].answer \in Texts \cup {"timedOut", "broken"}
    <3>1. scans[s].answer \in Answers /\ scans[s].answer # "none"
      BY <1>1, <1>3, ScanFields DEF ScanSound, Exchange, Sending, Writes
    <3> QED
      BY <1>3, <3>1 DEF Answers
  <2>3. ScanSound(Settled(Awaited(scans[s]), Outcome(scans[s].answer)))
    <3>1. scans[s].answer # "none"
      BY <2>2 DEF Texts
    <3> QED
      BY <1>1, <2>2, <3>1, OutcomeTells, SettledSound
  <2> QED
    BY <1>3, <2>1, <2>3, BecomeInv
<1>4. CASE scans[s].at = "terminator" /\ scans[s].answer = "pending"
  <2> DEFINE scan == Awaited([scans[s] EXCEPT !.at = "awaiting"])
  <2>1. Become(s, scan) /\ up
    BY <1>4 DEF WriteDone, Inv, Resting
  <2>2. /\ scan \in Scan /\ scan.at = "awaiting" /\ scan.file = scans[s].file
        /\ scan.sent = scans[s].sent /\ scan.answer = scans[s].answer
        /\ scan.result = scans[s].result /\ scan.handled
    BY <1>1 DEF ScanSound, Scan, Stages, Exchange, Awaited
  <2>3. WholeFile(scan) = WholeFile(scans[s]) /\ Reply(scan) = Reply(scans[s])
    BY <2>2 DEF WholeFile, Reply
  <2> HIDE DEF scan
  <2>4. ScanSound(scan)
    BY <1>1, <1>4, <2>2, <2>3
       DEF ScanSound, Early, Unsettled, Exchange, Sending, Writes
  <2> QED
    BY <1>4, <2>1, <2>4, BecomeInv
<1> QED
  BY <1>2, <1>3, <1>4 DEF WriteDone

\* clamd answers with a verdict on the whole stream, or hangs up with none.
LEMMA ClamdInv ==
  ASSUME Inv, NEW s \in Scans, ClamdAnswers(s) \/ ClamdHangsUp(s)
  PROVE Inv'
<1>1. ASSUME ClamdAnswers(s)
      PROVE Inv'
  <2>1. WholeFile(scans[s]) /\ Resolve(s, Reply(scans[s]))
    BY <1>1 DEF Inv, ScanSound, ClamdAnswers
  <2>2. /\ Reply(scans[s]) \in Texts /\ scans[s].at \in Exchange
        /\ scans[s].answer = "pending"
    BY <1>1 DEF Reply, Texts, ClamdAnswers, Exchange, Sending, Writes
  <2> QED
    BY <2>1, <2>2, ResolveInv
<1>2. ASSUME ClamdHangsUp(s)
      PROVE Inv'
  BY <1>2, ResolveInv DEF ClamdHangsUp, Texts, Answered
<1> QED
  BY <1>1, <1>2

\* The socket breaks.
LEMMA SocketBreaksInv ==
  ASSUME Inv, NEW s \in Scans, SocketBreaks(s)
  PROVE Inv'
<1> DEFINE scan == [scans[s] EXCEPT !.answer = "broken"]
<1>1. ASSUME Become(s, Settled(Caught(scan), "ServiceUnavailable")), scans[s].at \in Writes
      PROVE Inv'
  <2>1. up
    BY <1>1 DEF Inv, Resting, Writes
  <2>2. ScanSound(scan)
    BY RejectedSound DEF SocketBreaks
  <2>3. ScanSound(Settled(Caught(scan), "ServiceUnavailable"))
    BY <2>2, SettledSound DEF Errors
  <2> QED
    BY <1>1, <2>1, <2>3, BecomeInv DEF Writes
<1> QED
  BY <1>1, RejectInv DEF SocketBreaks

\* The verdict of a rescan is stored once, or not at all.
LEMMA RecordInv ==
  ASSUME Inv, NEW s \in Scans, RecordScan(s) \/ RecordFails(s)
  PROVE Inv'
<1> DEFINE scan == [scans[s] EXCEPT !.at = "ended"]
<1>1. up /\ ScanSound(scans[s]) /\ RowSound(s) /\ scans[s].at = "recording"
  BY DEF Inv, RecordScan, RecordFails, Resting
<1>2. /\ scan \in Scan /\ scan.at = "ended" /\ scan.file = scans[s].file
      /\ scan.sent = scans[s].sent /\ scan.answer = scans[s].answer
      /\ scan.result = scans[s].result /\ scan.handled = scans[s].handled
      /\ scans[s].answer # "pending" \/ scans[s].handled
  BY <1>1 DEF ScanSound, Scan, Stages, Sending, Writes
<1>3. WholeFile(scan) = WholeFile(scans[s]) /\ Reply(scan) = Reply(scans[s])
  BY <1>2 DEF WholeFile, Reply
<1>4. ASSUME RecordFails(s) PROVE Become(s, scan)
  BY <1>4 DEF RecordFails
<1>5. ASSUME RecordScan(s)
      PROVE /\ scans' = [scans EXCEPT ![s] = scan] /\ up' = up
            /\ rows' = [rows EXCEPT ![s] = scans[s].result]
  BY <1>5 DEF RecordScan
<1> HIDE DEF scan
<1>6. ScanSound(scan)
  BY <1>1, <1>2, <1>3 DEF ScanSound, Early, Unsettled, Exchange, Sending, Writes
<1>7. CASE RecordFails(s)
  BY <1>1, <1>4, <1>6, <1>7, BecomeInv
<1>8. CASE RecordScan(s)
  <2>1. /\ scans' = [t \in Scans |-> IF t = s THEN scan ELSE scans[t]]
        /\ rows' = [t \in Scans |-> IF t = s THEN scans[s].result ELSE rows[t]]
    BY <1>5, <1>8 DEF Inv
  <2>2. ASSUME NEW t \in Scans
        PROVE ScanSound(scans'[t]) /\ RowSound(t)'
    <3>1. CASE t = s
      BY <1>1, <1>2, <1>6, <2>1, <3>1 DEF RowSound, ScanSound
    <3>2. CASE t # s
      BY <2>1, <3>2 DEF Inv, RowSound
    <3> QED
      BY <3>1, <3>2
  <2> QED
    BY <1>1, <1>5, <1>8, <2>1, <2>2 DEF Inv
<1> QED
  BY <1>7, <1>8

\* Every step of one scan.
LEMMA ScanStepInv ==
  ASSUME Inv, NEW s \in Scans, ScanStep(s)
  PROVE Inv'
<1>1. ASSUME FetchAnswers(s)
      PROVE Inv'
  BY <1>1, MoveInv DEF FetchAnswers, Resting, Unsettled, Early
<1>2. ASSUME FetchFails(s) \/ ConnectFails(s) \/ ConnectTimesOut(s) \/ ReadFails(s)
               \/ WriteTimesOut(s) \/ WriteFails(s)
      PROVE Inv'
  BY <1>2, FailInv DEF FetchFails, ConnectFails, ConnectTimesOut, ReadFails,
     WriteTimesOut, WriteExpires, WriteFails, Writes, Resting, Errors
<1>3. ASSUME AnswerTimesOut(s)
      PROVE Inv'
  BY <1>3, RejectInv DEF AnswerTimesOut
<1> QED
  BY <1>1, <1>2, <1>3, ConnectsInv, ReadChunkInv, ReadEndInv, WriteDoneInv, ClamdInv,
     SocketBreaksInv, RecordInv DEF ScanStep

\* Every step.
LEMMA InvNext == Inv /\ [Next]_vars => Inv'
<1> SUFFICES ASSUME Inv, [Next]_vars PROVE Inv'
  OBVIOUS
<1>1. ASSUME Restart
      PROVE Inv'
  BY <1>1 DEF Restart, Inv, RowSound
<1>2. CASE UNCHANGED vars
  BY <1>2 DEF vars, Inv, RowSound
<1> QED
  BY <1>1, <1>2, BeginInv, ScanStepInv DEF Next

\* The invariant holds in every reachable state.
THEOREM Invariance == Spec => []Inv
BY InvInit, InvNext, PTL DEF Spec

\* Scans keep their shape, and none is under way while the process is down.
THEOREM TypeCorrect == Spec => []TypeOK
<1>1. Inv => TypeOK
  BY DEF Inv, ScanSound, RowSound, TypeOK, Resting
<1> QED
  BY <1>1, Invariance, PTL

\* No verdict but the truth about the whole file is returned or stored,
\* whatever breaks off, answers too early or times out.
THEOREM VerdictsAreTrue == Spec => []VerdictOfWholeFile
<1>1. Inv => VerdictOfWholeFile
  BY DEF Inv, ScanSound, RowSound, VerdictOfWholeFile
<1> QED
  BY <1>1, Invariance, PTL

\* The answers that may end the process are those of the scans that are sending,
\* however scans fail, settle or are cut short.
THEOREM ExposureIsSending == Spec => []ExposedWhileSending
<1>1. Inv => ExposedWhileSending
  BY DEF Inv, ScanSound, ExposedWhileSending
<1> QED
  BY <1>1, Invariance, PTL

--------------------------------------------------------------------------
(* ScanExchange: what ends a scan.                                        *)

\* Every scan is on its way to an end: how many stages are before it at most.
StagesLeft(scan) ==
  CASE scan.at = "idle"       -> 2 * MaxChunks + 9
    [] scan.at = "fetching"   -> 2 * MaxChunks + 8
    [] scan.at = "connecting" -> 2 * MaxChunks + 7
    [] scan.at = "command"    -> 2 * MaxChunks + 6
    [] scan.at = "chunk"      -> 2 * (MaxChunks - scan.sent) + 5
    [] scan.at = "reading"    -> 2 * (MaxChunks - scan.sent) + 4
    [] scan.at = "terminator" -> 3
    [] scan.at = "awaiting"   -> 2
    [] scan.at = "recording"  -> 1
    [] OTHER                  -> 0

\* The promise of the answer is made once and settled once.
AnswerLeft(scan) ==
  IF scan.answer = "pending" THEN 2 ELSE IF scan.answer = "none" THEN 0 ELSE 1

Rank(scan) == 3 * StagesLeft(scan) + AnswerLeft(scan)

\* A step changes a scan only by bringing it nearer to its end.
ScansRunDown ==
  [][\A s \in Scans : scans'[s] = scans[s] \/ Rank(scans'[s]) < Rank(scans[s])]_vars

\* Nothing waits without a time limit: of every scan under way, one of the
\* steps of Fairness has its guard satisfied (FetchFails, ConnectTimesOut,
\* ReadFails and RecordScan, WriteTimesOut, AnswerTimesOut).
EveryWaitIsTimed ==
  \A s \in Scans :
    scans[s].at \notin Resting =>
      \/ scans[s].at \in {"fetching", "connecting", "reading", "recording"}
      \/ WriteExpires(scans[s])
      \/ scans[s].answer = "pending"

\* The stages in which something is awaited that may fail.
Busy == Exchange \cup {"fetching", "connecting"}

\* A scan that is nearer to its end and awaits no answer that has come.
Advances(new, scan) ==
  /\ Rank(new) < Rank(scan)
  /\ new.at = "awaiting" => new.answer = "pending"

AwaitsPending == \A s \in Scans : scans[s].at = "awaiting" => scans[s].answer = "pending"

LEMMA RankNat ==
  ASSUME NEW scan \in Scan
  PROVE /\ StagesLeft(scan) \in Nat /\ AnswerLeft(scan) \in 0..2
        /\ Rank(scan) = 3 * StagesLeft(scan) + AnswerLeft(scan) /\ Rank(scan) \in Nat
        /\ scan.at \in Busy => StagesLeft(scan) >= 2
        /\ scan.at = "recording" => StagesLeft(scan) = 1
        /\ scan.at \in {"ended", "lost"} => StagesLeft(scan) = 0
<1>1. scan.sent \in Nat /\ MaxChunks \in Nat /\ scan.sent <= MaxChunks /\ scan.at \in Stages
  BY ScanFields, MaxChunksAssumption
<1>2. AnswerLeft(scan) \in 0..2
  BY DEF AnswerLeft
<1>3. /\ StagesLeft(scan) \in Nat
      /\ scan.at \in Busy => StagesLeft(scan) >= 2
      /\ scan.at = "recording" => StagesLeft(scan) = 1
      /\ scan.at \in {"ended", "lost"} => StagesLeft(scan) = 0
  BY <1>1 DEF StagesLeft, Stages, Busy, Exchange, Sending, Writes
<1> QED BY <1>2, <1>3 DEF Rank

\* Whatever the answer, a scan that goes on by one stage is nearer to its end.
LEMMA StagesDescend ==
  ASSUME NEW scan \in Scan, NEW new \in Scan, StagesLeft(new) < StagesLeft(scan)
  PROVE Rank(new) < Rank(scan)
BY RankNat

\* A scan that settles is at its end or one stage from it.
LEMMA SettledAdvances ==
  ASSUME NEW scan \in Scan, scan.at \in Busy, NEW new \in Scan,
         new.at \in {"recording", "ended"}
  PROVE Advances(new, scan)
BY RankNat, StagesDescend DEF Advances

LEMMA SettledScan ==
  ASSUME NEW scan \in Scan, NEW result \in Verdicts \cup Errors
  PROVE Settled(scan, result) \in Scan /\ Settled(scan, result).at \in {"recording", "ended"}
BY DEF Settled, Scan, Stages

LEMMA HandledScan ==
  ASSUME NEW scan \in Scan
  PROVE Caught(scan) \in Scan /\ Awaited(scan) \in Scan
BY DEF Caught, Awaited, Scan

LEMMA OutcomeKnown ==
  ASSUME NEW answer
  PROVE Outcome(answer) \in Verdicts \cup Errors
BY DEF Outcome, Parse, Verdicts, Errors

LEMMA FailAdvances ==
  ASSUME Inv, NEW s \in Scans, scans[s].at \in Busy, NEW error \in Errors, Fail(s, error)
  PROVE \E new : Become(s, new) /\ Advances(new, scans[s])
<1>1. scans[s] \in Scan
  BY DEF Inv, ScanSound
<1>2. Caught(scans[s]) \in Scan
  BY <1>1, HandledScan
<1> QED BY <1>1, <1>2, SettledScan, SettledAdvances DEF Fail

\* A write is issued, one stage on from what was read, or the scan fails.
LEMMA WrittenAdvances ==
  ASSUME NEW s \in Scans, scans[s] \in Scan, scans[s].at = "reading",
         NEW scan \in Scan, scan.at = "reading", scan.answer = scans[s].answer,
         NEW what \in {"chunk", "terminator"}, Become(s, Written(scan, what)),
         what = "chunk" => scan.sent = scans[s].sent + 1
  PROVE \E new : Become(s, new) /\ Advances(new, scans[s])
<1>1. CASE scan.answer \in {"pending", "timedOut"}
  <2> DEFINE new == [scan EXCEPT !.at = what]
  <2>1. new \in Scan /\ new.at = what /\ new.sent = scan.sent
    BY DEF Scan, Stages, Exchange, Sending, Writes
  <2>2. Become(s, new)
    BY <1>1 DEF Written
  <2> HIDE DEF new
  <2>3. StagesLeft(new) < StagesLeft(scans[s])
    BY <2>1, ScanFields, MaxChunksAssumption DEF StagesLeft
  <2> QED BY <2>1, <2>2, <2>3, StagesDescend DEF Advances
<1>2. CASE scan.answer \notin {"pending", "timedOut"}
  <2>1. Become(s, Settled(Caught(scan), "ServiceUnavailable"))
    BY <1>2 DEF Written
  <2>2. /\ Settled(Caught(scan), "ServiceUnavailable") \in Scan
        /\ Settled(Caught(scan), "ServiceUnavailable").at \in {"recording", "ended"}
    BY HandledScan, SettledScan DEF Errors
  <2> QED BY <2>1, <2>2, SettledAdvances DEF Busy, Exchange, Sending
<1> QED BY <1>1, <1>2

\* The answer is settled: the scan that awaits it ends, another goes on with it.
LEMMA AnswerAdvances ==
  ASSUME Inv, NEW s \in Scans, scans[s].answer = "pending",
         NEW answer \in Texts \cup {"timedOut", "broken"}
  PROVE LET scan == [scans[s] EXCEPT !.answer = answer]
        IN  /\ scan \in Scan /\ scan.at = scans[s].at
            /\ scan.at # "awaiting" => Advances(scan, scans[s])
            /\ scan.at = "awaiting" => Advances(Settled(scan, Outcome(answer)), scans[s])
<1> DEFINE scan == [scans[s] EXCEPT !.answer = answer]
<1>1. scans[s] \in Scan
  BY DEF Inv, ScanSound
<1>2. /\ scan \in Scan /\ scan.at = scans[s].at /\ scan.sent = scans[s].sent
      /\ scan.answer = answer
  BY <1>1 DEF Scan, Answers
<1> HIDE DEF scan
<1>3. StagesLeft(scan) = StagesLeft(scans[s])
  BY <1>2 DEF StagesLeft
<1>4. AnswerLeft(scan) = 1 /\ AnswerLeft(scans[s]) = 2
  BY <1>2 DEF AnswerLeft, Texts
<1>5. Rank(scan) < Rank(scans[s])
  BY <1>1, <1>2, <1>3, <1>4, RankNat
<1>6. scan.at = "awaiting" => Advances(Settled(scan, Outcome(answer)), scans[s])
  BY <1>1, <1>2, OutcomeKnown, SettledScan, SettledAdvances DEF Busy, Exchange
<1> QED BY <1>2, <1>5, <1>6 DEF Advances, scan

LEMMA RejectAdvances ==
  ASSUME Inv, NEW s \in Scans, scans[s].answer = "pending",
         NEW reason \in {"timedOut", "broken"}, Reject(s, reason)
  PROVE Die \/ \E new : Become(s, new) /\ Advances(new, scans[s])
<1> DEFINE scan == [scans[s] EXCEPT !.answer = reason]
<1>1. /\ scan.at # "awaiting" => Advances(scan, scans[s])
      /\ scan.at = "awaiting" => Advances(Settled(scan, Outcome(reason)), scans[s])
  BY AnswerAdvances
<1>2. \/ Die
      \/ Become(s, IF scan.at = "awaiting" THEN Settled(scan, Outcome(reason)) ELSE scan)
  BY DEF Reject
<1> HIDE DEF scan
<1> QED BY <1>1, <1>2

LEMMA ResolveAdvances ==
  ASSUME Inv, NEW s \in Scans, scans[s].answer = "pending", NEW text \in Texts,
         Resolve(s, text)
  PROVE \E new : Become(s, new) /\ Advances(new, scans[s])
<1> DEFINE scan == [scans[s] EXCEPT !.answer = text]
<1>1. /\ scan.at # "awaiting" => Advances(scan, scans[s])
      /\ scan.at = "awaiting" => Advances(Settled(scan, Outcome(text)), scans[s])
  BY AnswerAdvances
<1>2. Become(s, IF scan.at = "awaiting" THEN Settled(scan, Outcome(text)) ELSE scan)
  BY DEF Resolve
<1> HIDE DEF scan
<1> QED BY <1>1, <1>2

\* A scan moves to the next stage.
LEMMA MoveAdvances ==
  ASSUME Inv, NEW s \in Scans, NEW at, NEW answer,
         \/ at = "fetching" /\ scans[s].at = "idle"
         \/ at = "connecting" /\ scans[s].at = "fetching"
         \/ at = "command" /\ scans[s].at = "connecting"
         \/ at = "reading" /\ scans[s].at \in {"command", "chunk"}
         \/ at = "awaiting" /\ scans[s].at = "terminator"
         \/ at = "ended" /\ scans[s].at = "recording",
         at = "awaiting" => answer = "pending", answer \in Answers,
         NEW new \in Scan, new.at = at, new.sent = scans[s].sent, new.answer = answer
  PROVE Advances(new, scans[s])
<1>1. scans[s] \in Scan
  BY DEF Inv, ScanSound
<1>2. StagesLeft(new) < StagesLeft(scans[s])
  BY <1>1, ScanFields, MaxChunksAssumption DEF StagesLeft
<1> QED BY <1>1, <1>2, StagesDescend DEF Advances

LEMMA ScanStepAdvances ==
  ASSUME Inv, NEW s \in Scans, ScanStep(s) \/ \E file \in Files : Begin(s, file)
  PROVE \/ Die
        \/ \E new : /\ scans' = [scans EXCEPT ![s] = new] /\ Advances(new, scans[s])
<1> DEFINE scan == scans[s]
           Goal == \E new : scans' = [scans EXCEPT ![s] = new] /\ Advances(new, scan)
<1>1. scan \in Scan /\ scan.answer \in Answers
  BY ScanFields DEF Inv, ScanSound
<1>2. ASSUME NEW file \in Files, Begin(s, file)  PROVE Goal
  <2> DEFINE new == [scan EXCEPT !.at = "fetching", !.file = file]
  <2>1. new \in Scan /\ new.at = "fetching" /\ new.sent = scan.sent /\ new.answer = scan.answer
    BY <1>1 DEF Scan, Stages
  <2>2. scans' = [scans EXCEPT ![s] = new] /\ scan.at = "idle"
    BY <1>2 DEF Begin, Become
  <2> HIDE DEF new
  <2> QED BY <1>1, <2>1, <2>2, MoveAdvances
<1>3. ASSUME FetchAnswers(s)  PROVE Goal
  <2> DEFINE new == [scan EXCEPT !.at = "connecting"]
  <2>1. new \in Scan /\ new.at = "connecting" /\ new.sent = scan.sent /\ new.answer = scan.answer
    BY <1>1 DEF Scan, Stages
  <2>2. scans' = [scans EXCEPT ![s] = new] /\ scan.at = "fetching"
    BY <1>3 DEF FetchAnswers, Become
  <2> HIDE DEF new
  <2> QED BY <1>1, <2>1, <2>2, MoveAdvances
<1>4. ASSUME Connects(s)  PROVE Goal
  <2> DEFINE new == [scan EXCEPT !.at = "command", !.answer = "pending"]
  <2>1. /\ new \in Scan /\ new.at = "command" /\ new.sent = scan.sent
        /\ new.answer = "pending" /\ "pending" \in Answers
    BY <1>1 DEF Scan, Stages, Exchange, Sending, Writes, Answers
  <2>2. scans' = [scans EXCEPT ![s] = new] /\ scan.at = "connecting"
    BY <1>4 DEF Connects, Become
  <2> HIDE DEF new
  <2> QED BY <2>1, <2>2, MoveAdvances
<1>5. ASSUME \/ FetchFails(s) \/ ConnectFails(s) \/ ConnectTimesOut(s) \/ ReadFails(s)
             \/ WriteTimesOut(s) \/ WriteFails(s)
      PROVE  Goal
  <2>1. scan.at \in Busy /\ \E error \in Errors : Fail(s, error)
    BY <1>5 DEF FetchFails, ConnectFails, ConnectTimesOut, ReadFails, WriteTimesOut,
         WriteExpires, WriteFails, Errors, Busy, Exchange, Sending, Writes
  <2> QED BY <2>1, FailAdvances DEF Become
<1>6. ASSUME ReadChunk(s)  PROVE Goal
  <2> DEFINE next == [scan EXCEPT !.sent = @ + 1]
  <2>1. scan.at = "reading" /\ scan.sent < scan.file.length /\ Become(s, Written(next, "chunk"))
    BY <1>6 DEF ReadChunk
  <2>2. scan.sent + 1 \in 0..MaxChunks
    BY <1>1, <2>1, ScanFields, MaxChunksAssumption DEF Chunks
  <2>3. /\ next \in Scan /\ next.at = "reading" /\ next.sent = scan.sent + 1
        /\ next.answer = scan.answer
    BY <1>1, <2>1, <2>2 DEF Scan
  <2> HIDE DEF next
  <2> QED BY <1>1, <2>1, <2>3, WrittenAdvances DEF Become
<1>7. ASSUME ReadEnd(s)  PROVE Goal
  <2>1. scan.at = "reading" /\ Become(s, Written(scan, "terminator"))
    BY <1>7 DEF ReadEnd
  <2> QED BY <1>1, <2>1, WrittenAdvances DEF Become
<1>8. ASSUME WriteDone(s)  PROVE Goal
  <2>1. CASE scan.at \in {"command", "chunk"}
    <3> DEFINE new == [scan EXCEPT !.at = "reading"]
    <3>1. new \in Scan /\ new.at = "reading" /\ new.sent = scan.sent /\ new.answer = scan.answer
      BY <1>1 DEF Scan, Stages, Exchange, Sending
    <3>2. scans' = [scans EXCEPT ![s] = new]
      BY <1>8, <2>1 DEF WriteDone, Become
    <3> HIDE DEF new
    <3> QED BY <1>1, <2>1, <3>1, <3>2, MoveAdvances
  <2>2. CASE scan.at = "terminator" /\ scan.answer = "pending"
    <3> DEFINE new == Awaited([scan EXCEPT !.at = "awaiting"])
    <3>1. new \in Scan /\ new.at = "awaiting" /\ new.sent = scan.sent /\ new.answer = "pending"
      BY <1>1, <2>2 DEF Awaited, Scan, Stages, Exchange
    <3>2. scans' = [scans EXCEPT ![s] = new]
      BY <1>8, <2>2 DEF WriteDone, Become
    <3> HIDE DEF new
    <3> QED BY <1>1, <2>2, <3>1, <3>2, MoveAdvances
  <2>3. CASE scan.at = "terminator" /\ scan.answer # "pending"
    <3>1. Become(s, Settled(Awaited(scan), Outcome(scan.answer)))
      BY <1>8, <2>3 DEF WriteDone
    <3>2. Awaited(scan) \in Scan
      BY <1>1, HandledScan
    <3> QED BY <1>1, <2>3, <3>1, <3>2, OutcomeKnown, SettledScan, SettledAdvances
         DEF Become, Busy, Exchange, Sending, Writes
  <2> QED BY <1>8, <2>1, <2>2, <2>3 DEF WriteDone
<1>9. ASSUME ClamdAnswers(s) \/ ClamdHangsUp(s)  PROVE Goal
  <2>1. scan.answer = "pending" /\ \E text \in Texts : Resolve(s, text)
    BY <1>9 DEF ClamdAnswers, ClamdHangsUp, Reply, Texts
  <2> QED BY <2>1, ResolveAdvances DEF Become
<1>10. ASSUME SocketBreaks(s)  PROVE Die \/ Goal
  <2> DEFINE broken == [scan EXCEPT !.answer = "broken"]
  <2>1. CASE Reject(s, "broken")
    BY <1>10, <2>1, RejectAdvances DEF SocketBreaks, Become
  <2>2. CASE scan.at \in Writes /\ Become(s, Settled(Caught(broken), "ServiceUnavailable"))
    <3>1. Caught(broken) \in Scan
      BY <1>1 DEF Caught, Scan, Answers
    <3>2. /\ Settled(Caught(broken), "ServiceUnavailable") \in Scan
          /\ Settled(Caught(broken), "ServiceUnavailable").at \in {"recording", "ended"}
      BY <3>1, SettledScan DEF Errors
    <3> QED BY <1>1, <2>2, <3>2, SettledAdvances DEF Become, Busy, Exchange, Sending
  <2> QED BY <1>10, <2>1, <2>2 DEF SocketBreaks
<1>11. ASSUME AnswerTimesOut(s)  PROVE Die \/ Goal
  BY <1>11, RejectAdvances DEF AnswerTimesOut, Become
<1>12. ASSUME RecordScan(s) \/ RecordFails(s)  PROVE Goal
  <2> DEFINE new == [scan EXCEPT !.at = "ended"]
  <2>1. new \in Scan /\ new.at = "ended" /\ new.sent = scan.sent /\ new.answer = scan.answer
    BY <1>1 DEF Scan, Stages
  <2>2. scans' = [scans EXCEPT ![s] = new] /\ scan.at = "recording"
    BY <1>12 DEF RecordScan, RecordFails, Become
  <2> HIDE DEF new
  <2> QED BY <1>1, <2>1, <2>2, MoveAdvances
<1> QED BY <1>2, <1>3, <1>4, <1>5, <1>6, <1>7, <1>8, <1>9, <1>10, <1>11, <1>12 DEF ScanStep

\* The end of the process ends the scans under way and takes their answers.
LEMMA DieAdvances ==
  ASSUME Inv, Die, NEW s \in Scans
  PROVE /\ scans'[s].at # "awaiting"
        /\ scans'[s] = scans[s] \/ Rank(scans'[s]) < Rank(scans[s])
<1>1. scans[s] \in Scan /\ scans[s].answer \in Answers /\ scans[s].at \in Stages
  BY ScanFields DEF Inv, ScanSound
<1>2. CASE scans[s].at \in Resting
  <2> DEFINE new == [scans[s] EXCEPT !.answer = "none", !.handled = FALSE]
  <2>1. scans'[s] = new
    BY <1>2 DEF Die, Resting
  <2>2. /\ new \in Scan /\ new.at = scans[s].at /\ new.sent = scans[s].sent
        /\ new.answer = "none"
        /\ scans[s].answer = "none" => new = scans[s]
    BY <1>1 DEF Scan, Answers, Inv, ScanSound
  <2> HIDE DEF new
  <2>3. StagesLeft(new) = StagesLeft(scans[s])
    BY <2>2 DEF StagesLeft
  <2>4. AnswerLeft(new) = 0 /\ (scans[s].answer # "none" => AnswerLeft(scans[s]) >= 1)
    BY <2>2 DEF AnswerLeft
  <2>5. new = scans[s] \/ Rank(new) < Rank(scans[s])
    BY <1>1, <2>2, <2>3, <2>4, RankNat
  <2> QED BY <1>2, <2>1, <2>2, <2>5 DEF Resting
<1>3. CASE scans[s].at \notin Resting
  <2> DEFINE new == [scans[s] EXCEPT !.at = "lost", !.answer = "none", !.handled = FALSE]
  <2>1. scans'[s] = new
    BY <1>3 DEF Die, Resting
  <2>2. new \in Scan /\ new.at = "lost"
    BY <1>1 DEF Scan, Stages, Answers
  <2> HIDE DEF new
  <2>3. StagesLeft(new) = 0 /\ StagesLeft(scans[s]) >= 1
    BY <1>1, <1>3, <2>2, RankNat DEF Stages, Resting, Busy
  <2> QED BY <1>1, <2>1, <2>2, <2>3, RankNat, StagesDescend
<1> QED BY <1>2, <1>3

\* What a step does to each scan.
LEMMA EveryScanAdvances ==
  ASSUME Inv, Next, NEW t \in Scans
  PROVE /\ scans'[t] = scans[t] \/ Rank(scans'[t]) < Rank(scans[t])
        /\ (scans[t].at = "awaiting" => scans[t].answer = "pending")
             => (scans'[t].at = "awaiting" => scans'[t].answer = "pending")
<1>1. CASE Restart
  BY <1>1 DEF Restart
<1>2. CASE Die
  BY <1>2, DieAdvances
<1>3. ASSUME NEW s \in Scans, NEW new, scans' = [scans EXCEPT ![s] = new],
             Advances(new, scans[s])
      PROVE  /\ scans'[t] = scans[t] \/ Rank(scans'[t]) < Rank(scans[t])
             /\ (scans[t].at = "awaiting" => scans[t].answer = "pending")
                  => (scans'[t].at = "awaiting" => scans'[t].answer = "pending")
  <2>1. scans' = [r \in Scans |-> IF r = s THEN new ELSE scans[r]]
    BY <1>3 DEF Inv
  <2> QED BY <1>3, <2>1 DEF Advances
<1> QED BY <1>1, <1>2, <1>3, ScanStepAdvances DEF Next

\* No scan steps for ever: whatever happens to it brings it nearer to its end,
\* of which it begins at most 6 * MaxChunks + 27 steps away.
THEOREM ScansRunOut == Spec => ScansRunDown
<1> DEFINE Down == \A s \in Scans : scans'[s] = scans[s] \/ Rank(scans'[s]) < Rank(scans[s])
<1>1. Inv /\ [Next]_vars => [Down]_vars
  BY EveryScanAdvances
<1> QED BY <1>1, Invariance, PTL DEF Spec, ScansRunDown

\* No scan waits for what may never come: of every one under way, a step that
\* Fairness makes happen has its guard satisfied.
THEOREM WaitsAreTimed == Spec => []EveryWaitIsTimed
<1>1. Init => AwaitsPending
  BY DEF Init, AwaitsPending, Blank
<1>2. Inv /\ AwaitsPending /\ [Next]_vars => AwaitsPending'
  <2>1. ASSUME Inv, AwaitsPending, Next  PROVE AwaitsPending'
    BY <2>1, EveryScanAdvances DEF AwaitsPending
  <2>2. AwaitsPending /\ UNCHANGED vars => AwaitsPending'
    BY DEF AwaitsPending, vars
  <2> QED BY <2>1, <2>2
<1>3. Inv /\ AwaitsPending => EveryWaitIsTimed
  <2> SUFFICES ASSUME Inv, AwaitsPending, NEW s \in Scans, scans[s].at \notin Resting,
                      scans[s].at \notin {"fetching", "connecting", "reading", "recording"},
                      scans[s].answer # "pending"
               PROVE  WriteExpires(scans[s])
    BY DEF EveryWaitIsTimed
  <2>1. scans[s].at \in Stages
    BY ScanFields DEF Inv, ScanSound
  <2> QED BY <2>1 DEF AwaitsPending, WriteExpires, Stages, Exchange, Sending, Resting
<1> QED BY <1>1, <1>2, <1>3, Invariance, PTL DEF Spec

--------------------------------------------------------------------------
(* Navigation.                                                            *)

\* What the parts of an address may be.  Only a list's address names a project.
Paths ==
  [kind: {"list"}, id: Types] \cup [kind: {"static"}, id: StaticViews]
    \cup [kind: {"user"}, id: Users] \cup [kind: {"organization"}, id: Organizations]
    \cup [kind: {"collection"}, id: Collections] \cup [kind: {"edit"}, id: Targets]

Urls ==
  {url \in [path: Paths, project: Projects \cup {None}, tab: {"description", "versions"},
            version: Versions \cup {None}, section: Sections] :
     url.project # None => url.path.kind = "list"}

Shells ==
  [project: Projects \cup {None}, username: Users \cup {None},
   organization: Organizations \cup {None}, collection: Collections \cup {None},
   edit: Targets \cup {None},
   view: StaticViews \cup {"discover", "profile", "collections", "organization"},
   type: Types]

\* An entry of the history was left showing what its address would.
Entries == {[url |-> url, shown |-> Page(ShellAt(url))] : url \in Urls}

NavInv ==
  /\ shell \in Shells
  /\ search \in Versions \cup {None}
  /\ history \in Seq(Entries)
  /\ pos \in 1..Len(history)
  /\ ShownIsAddressed
  /\ SearchIsAddressed

\* A state that an address agrees with: the address shows its page and, where
\* its page is a list, that list with the filter v.
Agrees(s, v, url) ==
  /\ Page(s) = Page(ShellAt(url))
  /\ Synced(s) => v = SearchAt(url) /\ s.type = TypeAt(url)

\* What a handler may leave to the effect: the address shows the state's page,
\* or it is the list's, whose effect writes the address.
MayWrite(s, url) == Synced(s) \/ Page(s) = Page(ShellAt(url))

--------------------------------------------------------------------------
(* Lemmas about addresses and pages.                                      *)

LEMMA PathKinds ==
  ASSUME NEW path \in Paths
  PROVE /\ path = Place(path.kind, path.id)
        /\ path.kind \in {"list", "static", "user", "organization", "collection", "edit"}
        /\ path.kind = "list" => path.id \in Types
        /\ path.kind = "static" => path.id \in StaticViews
        /\ path.kind = "user" => path.id \in Users
        /\ path.kind = "organization" => path.id \in Organizations
        /\ path.kind = "collection" => path.id \in Collections
        /\ path.kind = "edit" => path.id \in Targets
BY DEF Paths, Place

LEMMA PlacePaths ==
  /\ \A t \in Types : Place("list", t) \in Paths
  /\ \A view \in StaticViews : Place("static", view) \in Paths
  /\ \A u \in Users : Place("user", u) \in Paths
  /\ \A o \in Organizations : Place("organization", o) \in Paths
  /\ \A c \in Collections : Place("collection", c) \in Paths
  /\ \A e \in Targets : Place("edit", e) \in Paths
BY DEF Paths, Place

LEMMA UrlFields ==
  ASSUME NEW url \in Urls
  PROVE /\ url.path \in Paths /\ url.project \in Projects \cup {None}
        /\ url.tab \in {"description", "versions"} /\ url.version \in Versions \cup {None}
        /\ url.section \in Sections
        /\ url.project # None => url.path.kind = "list"
BY DEF Urls

LEMMA ShellFields ==
  ASSUME NEW s \in Shells
  PROVE /\ s.project \in Projects \cup {None} /\ s.username \in Users \cup {None}
        /\ s.organization \in Organizations \cup {None}
        /\ s.collection \in Collections \cup {None} /\ s.edit \in Targets \cup {None}
        /\ s.view \in StaticViews \cup {"discover", "profile", "collections", "organization"}
        /\ s.type \in Types
BY DEF Shells

\* Every address written by a writer of routing.ts is one a reader knows.
LEMMA WritersWriteAddresses ==
  ASSUME NEW url \in Urls, NEW path \in Paths, NEW version \in Versions \cup {None},
         NEW x \in Sections
  PROVE /\ [ClearProjectSearchParams(url) EXCEPT !.path = path, !.section = x] \in Urls
        /\ [ClearProjectSearchParams(url) EXCEPT !.path = path] \in Urls
        /\ [[ClearProjectSearchParams(url) EXCEPT !.path = path]
              EXCEPT !.version = version] \in Urls
BY UrlFields DEF Urls, ClearProjectSearchParams

LEMMA PaneWritersWriteAddresses ==
  ASSUME NEW url \in Urls, NEW tab \in {"description", "versions"},
         NEW version \in Versions \cup {None}
  PROVE /\ WriteProjectTab(url, tab) \in Urls
        /\ WriteSelectedVersion(url, version) \in Urls
BY UrlFields DEF Urls, WriteProjectTab, WriteSelectedVersion

\* Loading an address makes a state of the shell.
LEMMA LoadedShell ==
  ASSUME NEW url \in Urls
  PROVE ShellAt(url) \in Shells
<1>1. ViewOf(url.path) \in StaticViews \cup {"discover", "profile", "collections", "organization"}
  BY UrlFields, PathKinds, ShapeAssumption DEF ViewOf
<1>2. TypeAt(url) \in Types
  BY UrlFields, PathKinds, ShapeAssumption DEF TypeAt
<1>3. /\ ItemAt(url, "user") \in Users \cup {None}
      /\ ItemAt(url, "organization") \in Organizations \cup {None}
      /\ ItemAt(url, "collection") \in Collections \cup {None}
      /\ ItemAt(url, "edit") \in Targets \cup {None}
  BY UrlFields, PathKinds DEF ItemAt
<1> QED BY <1>1, <1>2, <1>3, UrlFields DEF ShellAt, Shells

\* The page of a list that follows the address, and of a state with a project.
LEMMA ListPage ==
  ASSUME NEW s, Synced(s)
  PROVE Page(s) = Place("list", s.type)
BY DEF Synced, Page

LEMMA ProjectPage ==
  ASSUME NEW s, s.project # None
  PROVE Page(s) = Place("project", s.project)
BY DEF Page, Synced

\* An address shows the project it names and, without one, the page of its path.
LEMMA PageOfAddress ==
  ASSUME NEW url \in Urls
  PROVE Page(ShellAt(url)) = IF url.project # None THEN Place("project", url.project)
                             ELSE url.path
<1> DEFINE s == ShellAt(url)
<1>1. /\ s.project = url.project /\ s.username = ItemAt(url, "user")
      /\ s.organization = ItemAt(url, "organization")
      /\ s.collection = ItemAt(url, "collection") /\ s.edit = ItemAt(url, "edit")
      /\ s.type = TypeAt(url)
      /\ url.project = None => s.view = ViewOf(url.path)
      /\ url.project # None => s.view = "discover"
  BY DEF ShellAt
<1> HIDE DEF s
<1>2. CASE url.project # None
  BY <1>1, <1>2, ProjectPage DEF s
<1>3. CASE url.project = None /\ url.path.kind = "list"
  <2>1. Page(s) = Place("list", url.path.id)
    BY <1>1, <1>3 DEF Page, Synced, ViewOf, TypeAt, ItemAt
  <2> QED BY <2>1, <1>3, UrlFields, PathKinds DEF s
<1>4. CASE url.project = None /\ url.path.kind = "static"
  <2>1. url.path.id \in StaticViews /\ url.path.id \notin {"discover", "profile"}
    BY <1>4, UrlFields, PathKinds, SelectionAssumption
  <2>2. Page(s) = Place("static", url.path.id)
    BY <1>1, <1>4, <2>1 DEF Page, Synced, ViewOf, ItemAt
  <2> QED BY <2>2, <1>4, UrlFields, PathKinds DEF s
<1>5. CASE url.project = None /\ url.path.kind \in {"user", "organization", "collection", "edit"}
  <2>1. url.path.id # None
    BY <1>5, UrlFields, PathKinds, SelectionAssumption
  <2> SUFFICES Page(s) = Place(url.path.kind, url.path.id)
    BY <1>5, UrlFields, PathKinds DEF s
  <2>2. CASE url.path.kind = "user"
    BY <1>1, <1>5, <2>1, <2>2 DEF Page, Synced, ViewOf, ItemAt
  <2>3. CASE url.path.kind = "organization"
    BY <1>1, <1>5, <2>1, <2>3 DEF Page, Synced, ViewOf, ItemAt
  <2>4. CASE url.path.kind = "collection"
    BY <1>1, <1>5, <2>1, <2>4 DEF Page, Synced, ViewOf, ItemAt
  <2>5. CASE url.path.kind = "edit"
    BY <1>1, <1>5, <2>1, <2>5 DEF Page, Synced, ViewOf, ItemAt
  <2> QED BY <2>2, <2>3, <2>4, <2>5, <1>5
<1> QED BY <1>2, <1>3, <1>4, <1>5, UrlFields, PathKinds DEF s

LEMMA WorkspaceHasNoProject ==
  ASSUME NEW s, OnWorkspace(s)
  PROVE s.project = None /\ ~Synced(s)
BY ProjectPage, ListPage DEF OnWorkspace, Place

\* What the effect leaves in the address agrees with the state.
LEMMA WrittenAgrees ==
  ASSUME NEW s \in Shells, NEW v \in Versions \cup {None}, NEW url \in Urls,
         MayWrite(s, url)
  PROVE /\ WrittenBack(url, s, v) \in Urls
        /\ Agrees(s, v, WrittenBack(url, s, v))
<1> DEFINE w == WrittenBack(url, s, v)
<1>1. CASE Synced(s)
  <2>1. /\ w.path = Place("list", s.type) /\ w.project = None /\ w.version = v
        /\ w = [[ClearProjectSearchParams(url) EXCEPT !.path = Place("list", s.type)]
                  EXCEPT !.version = v]
    BY <1>1, UrlFields DEF WrittenBack, WriteDiscover, WriteProjectList,
         ClearProjectSearchParams, Urls
  <2>2. w \in Urls
    <3>1. Place("list", s.type) \in Paths
      BY ShellFields, PlacePaths
    <3>2. \A path \in Paths : [[ClearProjectSearchParams(url) EXCEPT !.path = path]
                                EXCEPT !.version = v] \in Urls
      BY WritersWriteAddresses, ShapeAssumption
    <3> QED BY <3>1, <3>2, <2>1
  <2>3. Page(ShellAt(w)) = Page(s)
    BY <1>1, <2>1, <2>2, PageOfAddress, ListPage
  <2>4. SearchAt(w) = v /\ TypeAt(w) = s.type
    BY <2>1 DEF SearchAt, TypeAt, Place
  <2> QED BY <2>2, <2>3, <2>4 DEF Agrees
<1>2. CASE ~Synced(s)
  BY <1>2 DEF WrittenBack, MayWrite, Agrees
<1> QED BY <1>1, <1>2

--------------------------------------------------------------------------
(* Lemmas about the history and the handlers.                             *)

LEMMA EntryMade ==
  ASSUME NEW url \in Urls, NEW page, page = Page(ShellAt(url))
  PROVE [url |-> url, shown |-> page] \in Entries
BY DEF Entries

LEMMA EntryFields ==
  ASSUME NEW e \in Entries
  PROVE e.url \in Urls /\ e.shown = Page(ShellAt(e.url)) /\ e = [url |-> e.url, shown |-> e.shown]
BY DEF Entries

LEMMA HereIsAddress ==
  ASSUME NavInv
  PROVE Here \in Urls /\ pos \in Nat /\ Len(history) \in Nat
<1>1. history[pos] \in Entries
  BY ElementOfSeq DEF NavInv
<1> QED BY <1>1, EntryFields, LenProperties DEF Here, NavInv

\* An entry that is pushed is the current one.
LEMMA Pushed ==
  ASSUME NavInv, NEW url \in Urls, NEW s, Page(s) = Page(ShellAt(url)), PushEntry(url, s)
  PROVE /\ history' \in Seq(Entries) /\ pos' \in 1..Len(history')
        /\ Here' = url
<1> DEFINE kept == SubSeq(history, 1, pos)
           e == [url |-> url, shown |-> Page(s)]
<1>1. e \in Entries
  BY EntryMade
<1>2. pos \in Nat /\ Len(history) \in Nat /\ pos >= 1 /\ pos <= Len(history)
  BY HereIsAddress DEF NavInv
<1>3. \A i \in 1..pos : history[i] \in Entries
  BY <1>2, ElementOfSeq DEF NavInv
<1>4. kept \in Seq(Entries) /\ Len(kept) = pos
  <2> HIDE DEF kept
  <2>1. /\ SubSeq(history, 1, pos) \in Seq(Entries)
        /\ Len(SubSeq(history, 1, pos)) = IF 1 <= pos THEN pos - 1 + 1 ELSE 0
    BY <1>2, <1>3, SubSeqProperties
  <2> QED BY <2>1, <1>2 DEF kept
<1>5. history' = Append(kept, e) /\ pos' = pos + 1
  BY DEF PushEntry
<1> HIDE DEF kept, e
<1>6. /\ history' \in Seq(Entries) /\ Len(history') = pos + 1
      /\ history'[pos + 1] = e
  BY <1>1, <1>4, <1>5, AppendProperties
<1> QED BY <1>2, <1>5, <1>6 DEF Here, e

\* An entry that is rewritten in place keeps the others.
LEMMA Rewritten ==
  ASSUME NavInv, NEW n \in 1..Len(history), NEW url \in Urls, NEW page,
         page = Page(ShellAt(url)),
         history' = [history EXCEPT ![n] = [url |-> url, shown |-> page]], pos' = n
  PROVE /\ history' \in Seq(Entries) /\ pos' \in 1..Len(history')
        /\ Here' = url
<1> DEFINE e == [url |-> url, shown |-> page]
<1>1. e \in Entries
  BY EntryMade
<1>2. history \in Seq(Entries)
  BY DEF NavInv
<1>3. history' = [history EXCEPT ![n] = e]
  OBVIOUS
<1> HIDE DEF e
<1>4. /\ history' \in Seq(Entries) /\ Len(history') = Len(history)
      /\ history'[n] = e
  BY <1>1, <1>2, <1>3, ExceptSeq
<1> QED BY <1>4 DEF Here, e

\* A step that leaves the address agreeing with the state keeps the invariant.
LEMMA AgreeingStep ==
  ASSUME shell' \in Shells, search' \in Versions \cup {None},
         history' \in Seq(Entries), pos' \in 1..Len(history'),
         Agrees(shell', search', Here')
  PROVE NavInv'
BY DEF NavInv, ShownIsAddressed, SearchIsAddressed, Agrees

\* A handler that sets a state to which its address may be written.
LEMMA Went ==
  ASSUME NavInv, NEW s \in Shells, NEW v \in Versions \cup {None}, NEW url \in Urls,
         MayWrite(s, url), Go(s, v, url)
  PROVE NavInv' /\ shell' = s /\ Here' = WrittenBack(url, s, v)
<1> DEFINE w == WrittenBack(url, s, v)
<1>1. w \in Urls /\ Agrees(s, v, w)
  BY WrittenAgrees
<1>2. shell' = s /\ search' = v /\ PushEntry(w, s)
  BY DEF Go
<1> HIDE DEF w
<1>3. /\ history' \in Seq(Entries) /\ pos' \in 1..Len(history')
      /\ Here' = w
  BY <1>1, <1>2, Pushed DEF Agrees
<1> QED BY <1>1, <1>2, <1>3, AgreeingStep DEF w

LEMMA ResetShell ==
  ASSUME NavInv, NEW view \in StaticViews \cup {"discover", "profile", "collections", "organization"}
  PROVE ResetSelection(view) \in Shells
BY ShellFields DEF ResetSelection, Shells, NavInv

LEMMA ResetFields ==
  ASSUME NEW view
  PROVE /\ ResetSelection(view).project = None /\ ResetSelection(view).username = None
        /\ ResetSelection(view).organization = None /\ ResetSelection(view).collection = None
        /\ ResetSelection(view).edit = None /\ ResetSelection(view).view = view
        /\ ResetSelection(view).type = shell.type
BY DEF ResetSelection

\* Every link names an address.
LEMMA PlainLinksAreAddresses ==
  ASSUME NEW url \in Links
  PROVE url \in Urls
<1>1. \A path \in Paths : Address(path) \in Urls
  BY ShapeAssumption DEF Address, Urls
<1>2. CASE url \in ListLinks
  <2>1. PICK t \in Types, v \in Versions \cup {None} :
          url = [Address(Place("list", t)) EXCEPT !.version = v]
    BY <1>2 DEF ListLinks
  <2>2. url = [path |-> Place("list", t), project |-> None, tab |-> "description",
               version |-> v, section |-> Overview]
    BY <2>1 DEF Address
  <2> QED BY <2>2, PlacePaths, ShapeAssumption DEF Urls
<1>3. CASE url \in StaticLinks
  BY <1>1, <1>3, PlacePaths, ShapeAssumption DEF StaticLinks, Address, Urls
<1>4. CASE url \in ItemLinks
  BY <1>1, <1>4, PlacePaths DEF ItemLinks
<1>5. CASE url \in ProjectLinks
  <2>1. \A p \in Projects : ProjectPath(p) \in Urls
    <3> TAKE p \in Projects
    <3> DEFINE path == Place("list", TypeOf(p))
    <3>1. path \in Paths /\ path.kind = "list"
      BY PlacePaths, ShapeAssumption DEF Place
    <3>2. [Address(path) EXCEPT !.project = p] =
            [path |-> path, project |-> p, tab |-> "description",
             version |-> None, section |-> Overview]
      BY DEF Address
    <3> HIDE DEF path
    <3>3. [path |-> path, project |-> p, tab |-> "description",
           version |-> None, section |-> Overview]
             \in [path: Paths, project: Projects \cup {None}, tab: {"description", "versions"},
                 version: Versions \cup {None}, section: Sections]
      BY <3>1, ShapeAssumption
    <3>4. [path |-> path, project |-> p, tab |-> "description",
           version |-> None, section |-> Overview] \in Urls
      BY <3>1, <3>3 DEF Urls
    <3> QED BY <3>2, <3>4 DEF path, ProjectPath
  <2>2. \A link \in Urls, v \in Versions : WriteSelectedVersion(link, v) \in Urls
    BY PaneWritersWriteAddresses
  <2> QED BY <2>1, <2>2, <1>5 DEF ProjectLinks
<1> QED BY <1>2, <1>3, <1>4, <1>5 DEF Links

LEMMA LinksAreAddresses ==
  ASSUME NavInv, NEW url \in Links \cup VersionLinks
  PROVE url \in Urls
<1>1. CASE url \in VersionLinks
  BY <1>1, HereIsAddress, PaneWritersWriteAddresses DEF VersionLinks
<1> QED BY <1>1, PlainLinksAreAddresses

\* What a handler that leaves its page does: Go, to a state and an address of
\* the shapes they may have.
Handled(s, v, url) ==
  /\ s \in Shells /\ v \in Versions \cup {None} /\ url \in Urls
  /\ MayWrite(s, url)
  /\ Go(s, v, url)

LEMMA StaticOpened ==
  ASSUME NavInv, NEW view \in StaticViews, OpenStatic(view)
  PROVE \E s, v, url : /\ Handled(s, v, url) /\ s.project = None
                       /\ Page(s) = Place("static", view)
<1> DEFINE s == ResetSelection(view)
           url == WriteStaticView(Here, view)
<1>1. s \in Shells /\ search \in Versions \cup {None}
  BY ResetShell DEF NavInv
<1>2. url \in Urls /\ url.path = Place("static", view) /\ url.project = None
  <2>1. url \in Urls
    BY HereIsAddress, PlacePaths, WritersWriteAddresses, ShapeAssumption DEF WriteStaticView
  <2> QED BY <2>1, HereIsAddress, UrlFields
       DEF WriteStaticView, ClearProjectSearchParams, Urls
<1>3. s.project = None /\ Page(s) = Place("static", view)
  BY ResetFields, SelectionAssumption DEF Page, Synced
<1>4. Page(ShellAt(url)) = Place("static", view)
  BY <1>2, PageOfAddress
<1> QED BY <1>1, <1>2, <1>3, <1>4 DEF OpenStatic, Handled, MayWrite

LEMMA EditOpened ==
  ASSUME NavInv, NEW target \in Targets, OpenDashboardEdit(target)
  PROVE \E s, v, url : /\ Handled(s, v, url) /\ s.project = None
                       /\ Page(s) = Place("edit", target)
<1> DEFINE r == ResetSelection("dashboard")
           s == [r EXCEPT !.edit = target]
           url == WriteDashboardEdit(Here, target)
<1>1. r \in Shells /\ search \in Versions \cup {None}
  BY ResetShell, ShapeAssumption DEF NavInv
<1>2. s \in Shells /\ s.edit = target /\ s.view = "dashboard" /\ s.project = None
  <2>1. r.view = "dashboard" /\ r.project = None
    BY ResetFields
  <2> HIDE DEF r
  <2> QED BY <1>1, <2>1 DEF Shells
<1>3. url \in Urls /\ url.path = Place("edit", target) /\ url.project = None
  <2>1. url \in Urls
    BY HereIsAddress, PlacePaths, WritersWriteAddresses, ShapeAssumption DEF WriteDashboardEdit
  <2> QED BY <2>1, HereIsAddress, UrlFields
       DEF WriteDashboardEdit, ClearProjectSearchParams, Urls
<1>4. Go(s, search, url)
  BY DEF OpenDashboardEdit
<1> HIDE DEF s, url
<1>5. Page(s) = Place("edit", target)
  BY <1>2, SelectionAssumption DEF Page, Synced
<1>6. Page(ShellAt(url)) = Place("edit", target)
  BY <1>3, PageOfAddress
<1> QED BY <1>1, <1>2, <1>3, <1>4, <1>5, <1>6 DEF Handled, MayWrite

\* The four buttons to a list leave the address to its effect.
LEMMA ListOpened ==
  ASSUME NavInv,
         \/ OpenDiscover \/ CloseProject
         \/ \E type \in Types : ChangeProjectType(type)
         \/ \E type \in Types, version \in Versions \cup {None} : SearchByTag(type, version)
  PROVE \E s, v, url : Handled(s, v, url) /\ Synced(s)
<1> DEFINE r == ResetSelection("discover")
<1>1. /\ r \in Shells /\ r.view = "discover" /\ r.project = None
      /\ search \in Versions \cup {None} /\ shell.type \in Types
      /\ r.type = shell.type
  BY ResetShell, ResetFields, ShellFields DEF NavInv
<1>2. \A type \in Types : WriteProjectList(Here, type) \in Urls
  BY HereIsAddress, PlacePaths, WritersWriteAddresses, ShapeAssumption DEF WriteProjectList
<1>3. \A type \in Types : LET s == [r EXCEPT !.type = type] IN s \in Shells /\ Synced(s)
  <2> HIDE DEF r
  <2> QED BY <1>1 DEF Shells, Synced
<1>4. CASE OpenDiscover
  BY <1>1, <1>2, <1>3, <1>4, ShapeAssumption DEF OpenDiscover, Handled, MayWrite
<1>5. CASE CloseProject
  BY <1>1, <1>2, <1>5 DEF CloseProject, Handled, MayWrite, Synced
<1>6. ASSUME NEW type \in Types, ChangeProjectType(type)
      PROVE  \E s, v, url : Handled(s, v, url) /\ Synced(s)
  BY <1>2, <1>3, <1>6 DEF ChangeProjectType, Handled, MayWrite
<1>7. ASSUME NEW type \in Types, NEW version \in Versions \cup {None},
             SearchByTag(type, version)
      PROVE  \E s, v, url : Handled(s, v, url) /\ Synced(s)
  BY <1>2, <1>3, <1>7 DEF SearchByTag, Handled, MayWrite
<1> QED BY <1>4, <1>5, <1>6, <1>7

\* Following a link selects what loading its address would.
LEMMA LinkFollowed ==
  ASSUME NavInv, NEW url \in Links \cup VersionLinks
  PROVE /\ Followed(url) \in Shells /\ Followed(url).project = url.project
        /\ Page(Followed(url)) = Page(ShellAt(url))
<1> DEFINE s == Followed(url)
<1>1. /\ url \in Urls /\ url.path \in Paths
      /\ url.project # None => url.path.kind = "list"
      /\ url.project \in Projects \cup {None}
  BY LinksAreAddresses, UrlFields
<1>2. \A view \in StaticViews \cup {"discover", "profile", "collections", "organization"} :
        /\ ResetSelection(view) \in Shells
        /\ ResetSelection(view).project = None
        /\ ResetSelection(view).view = view
  BY ResetShell, ResetFields
<1>3. CASE url.path.kind = "edit"
  <2> DEFINE r == ResetSelection("dashboard")
  <2>1. url.path.id \in Targets /\ url.project = None /\ url.path = Place("edit", url.path.id)
    BY <1>1, <1>3, PathKinds
  <2>2. r \in Shells /\ r.project = None /\ r.view = "dashboard"
    BY <1>2, ShapeAssumption
  <2>3. s = [r EXCEPT !.edit = url.path.id]
    BY <1>3 DEF Followed
  <2> HIDE DEF r, s
  <2>4. s \in Shells /\ s.project = None /\ s.view = "dashboard" /\ s.edit = url.path.id
    BY <2>1, <2>2, <2>3 DEF Shells
  <2>5. Page(s) = Place("edit", url.path.id)
    BY <2>1, <2>4, SelectionAssumption DEF Page, Synced
  <2> QED BY <1>1, <2>1, <2>4, <2>5, PageOfAddress DEF s
<1>4. CASE url.project # None
  <2>1. s = [shell EXCEPT !.project = url.project, !.username = None, !.organization = None,
                          !.collection = None, !.view = "discover", !.type = TypeAt(url)]
    BY <1>1, <1>4 DEF Followed
  <2>2. TypeAt(url) \in Types /\ shell \in Shells
    BY <1>1, <1>4, PathKinds DEF TypeAt, NavInv
  <2> HIDE DEF s
  <2>3. s \in Shells /\ s.project = url.project
    BY <1>1, <2>1, <2>2 DEF Shells
  <2> QED BY <1>1, <1>4, <2>3, ProjectPage, PageOfAddress DEF s
<1>5. CASE url.path.kind # "edit" /\ url.project = None
  <2> DEFINE r == ResetSelection(ViewOf(url.path))
  <2>1. /\ ViewOf(url.path) \in StaticViews \cup {"discover", "profile", "collections", "organization"}
        /\ ItemAt(url, "user") \in Users \cup {None}
        /\ ItemAt(url, "organization") \in Organizations \cup {None}
        /\ ItemAt(url, "collection") \in Collections \cup {None}
        /\ url.path.kind = "list" => url.path.id \in Types
    BY <1>1, <1>5, PathKinds DEF ViewOf, ItemAt
  <2>2. r \in Shells /\ r.project = None /\ r.view = ViewOf(url.path) /\ r.edit = None
    BY <1>2, <2>1, ResetFields
  <2>3. s = [r EXCEPT !.collection = ItemAt(url, "collection"),
                      !.username = ItemAt(url, "user"),
                      !.organization = ItemAt(url, "organization"),
                      !.type = IF url.path.kind = "list" THEN url.path.id ELSE @]
    BY <1>5 DEF Followed
  <2> HIDE DEF r, s
  <2>4. /\ s \in Shells /\ s.project = None /\ s.view = ViewOf(url.path) /\ s.edit = None
        /\ s.collection = ItemAt(url, "collection") /\ s.username = ItemAt(url, "user")
        /\ s.organization = ItemAt(url, "organization")
        /\ url.path.kind = "list" => s.type = url.path.id
    <3> DEFINE type == IF url.path.kind = "list" THEN url.path.id ELSE r.type
               user == ItemAt(url, "user")
               organization == ItemAt(url, "organization")
               collection == ItemAt(url, "collection")
    <3>1. type \in Types /\ (url.path.kind = "list" => type = url.path.id)
      BY <2>1, <2>2, ShellFields
    <3>2. /\ user \in Users \cup {None} /\ organization \in Organizations \cup {None}
          /\ collection \in Collections \cup {None}
      BY <2>1
    <3>3. s = [r EXCEPT !.collection = collection, !.username = user,
                        !.organization = organization, !.type = type]
      BY <2>3
    <3> HIDE DEF type, user, organization, collection
    <3>4. s = [project |-> r.project, username |-> user, organization |-> organization,
               collection |-> collection, edit |-> r.edit, view |-> r.view, type |-> type]
      BY <2>2, <3>3 DEF Shells
    <3>5. s \in Shells
      BY <2>2, <3>1, <3>2, <3>4, ShellFields DEF Shells
    <3> QED BY <2>2, <3>1, <3>4, <3>5 DEF user, organization, collection
  <2>5. Page(s) = url.path
    <3> SUFFICES Page(s) = Place(url.path.kind, url.path.id)
      BY <1>1, PathKinds
    <3>1. CASE url.path.kind = "list"
      BY <2>4, <3>1 DEF Page, Synced, ViewOf, ItemAt
    <3>2. CASE url.path.kind = "static"
      <4>1. url.path.id \in StaticViews
        BY <1>1, <3>2, PathKinds
      <4> QED BY <2>4, <3>2, <4>1, SelectionAssumption DEF Page, Synced, ViewOf, ItemAt
    <3>3. CASE url.path.kind = "user"
      <4>1. url.path.id # None
        BY <1>1, <3>3, PathKinds, SelectionAssumption
      <4> QED BY <2>4, <3>3, <4>1 DEF Page, Synced, ViewOf, ItemAt
    <3>4. CASE url.path.kind = "organization"
      <4>1. url.path.id # None
        BY <1>1, <3>4, PathKinds, SelectionAssumption
      <4> QED BY <2>4, <3>4, <4>1 DEF Page, Synced, ViewOf, ItemAt
    <3>5. CASE url.path.kind = "collection"
      <4>1. url.path.id # None
        BY <1>1, <3>5, PathKinds, SelectionAssumption
      <4> QED BY <2>4, <3>5, <4>1 DEF Page, Synced, ViewOf, ItemAt
    <3> QED BY <1>1, <1>5, <3>1, <3>2, <3>3, <3>4, <3>5, PathKinds
  <2> QED BY <1>1, <1>5, <2>4, <2>5, PageOfAddress DEF s
<1> QED BY <1>3, <1>4, <1>5

LEMMA LinkHandled ==
  ASSUME NavInv, NEW url \in Links \cup VersionLinks, NavigateToUrl(url)
  PROVE \E v : Handled(Followed(url), v, url)
<1>1. url \in Urls /\ SearchAt(url) \in Versions \cup {None} /\ search \in Versions \cup {None}
  BY LinksAreAddresses, UrlFields DEF SearchAt, NavInv
<1> QED BY <1>1, LinkFollowed DEF NavigateToUrl, Handled, MayWrite

\* The steps that stay on the page: the address keeps its page.
LEMMA PageKept ==
  ASSUME NavInv, NEW url \in Urls, ShellAt(url) = ShellAt(Here), ~Synced(shell),
         PushEntry(url, shell), UNCHANGED <<shell, search>>
  PROVE NavInv' /\ Here' = url
<1>1. Page(shell) = Page(ShellAt(url))
  BY DEF NavInv, ShownIsAddressed
<1>2. /\ history' \in Seq(Entries) /\ pos' \in 1..Len(history')
      /\ Here' = url
  BY <1>1, Pushed
<1> QED BY <1>1, <1>2, AgreeingStep DEF NavInv, Agrees

LEMMA TabSelected ==
  ASSUME NavInv, NEW tab \in {"description", "versions"}, SelectTab(tab)
  PROVE NavInv' /\ Here' = WriteProjectTab(Here, tab)
<1> DEFINE url == WriteProjectTab(Here, tab)
<1>1. Here \in Urls
  BY HereIsAddress
<1>2. url \in Urls /\ url.path = Here.path /\ url.project = Here.project
  <2>1. url \in Urls
    BY <1>1, UrlFields, PaneWritersWriteAddresses
  <2>2. url.path = Here.path /\ url.project = Here.project
    BY <1>1 DEF WriteProjectTab, Urls
  <2> QED BY <2>1, <2>2
<1>3. ShellAt(url) = ShellAt(Here)
  <2> HIDE DEF url
  <2> QED BY <1>2 DEF ShellAt, ItemAt, TypeAt
<1>4. ~Synced(shell) /\ PushEntry(url, shell) /\ UNCHANGED <<shell, search>>
  BY DEF SelectTab, Synced
<1> QED BY <1>2, <1>3, <1>4, PageKept

LEMMA VersionSelected ==
  ASSUME NavInv, NEW version \in Versions \cup {None}, SelectVersion(version)
  PROVE NavInv' /\ Here' = WriteSelectedVersion(Here, version)
<1> DEFINE url == WriteSelectedVersion(Here, version)
<1>1. Here \in Urls
  BY HereIsAddress
<1>2. url \in Urls /\ url.path = Here.path /\ url.project = Here.project
  BY <1>1, UrlFields, PaneWritersWriteAddresses DEF WriteSelectedVersion, Urls
<1>3. ShellAt(url) = ShellAt(Here)
  <2> HIDE DEF url
  <2> QED BY <1>2 DEF ShellAt, ItemAt, TypeAt
<1>4. ~Synced(shell) /\ PushEntry(url, shell) /\ UNCHANGED <<shell, search>>
  BY DEF SelectVersion, Synced
<1> QED BY <1>2, <1>3, <1>4, PageKept

LEMMA SectionSelected ==
  ASSUME NavInv, NEW x \in Sections, SelectSection(x)
  PROVE NavInv' /\ Here' = [Here EXCEPT !.section = x]
<1> DEFINE url == [Here EXCEPT !.section = x]
<1>1. Here \in Urls
  BY HereIsAddress
<1>2. url \in Urls /\ url.path = Here.path /\ url.project = Here.project
  BY <1>1, UrlFields DEF Urls
<1>3. ShellAt(url) = ShellAt(Here)
  <2> HIDE DEF url
  <2> QED BY <1>2 DEF ShellAt, ItemAt, TypeAt
<1>4. ~Synced(shell) /\ PushEntry(url, shell) /\ UNCHANGED <<shell, search>>
  BY WorkspaceHasNoProject DEF SelectSection
<1> QED BY <1>2, <1>3, <1>4, PageKept

\* The steps that rewrite an entry of the history.
LEMMA SearchEdited ==
  ASSUME NavInv, NEW version \in Versions \cup {None}, EditSearch(version)
  PROVE NavInv'
<1> DEFINE w == WrittenBack(Here, shell, version)
           e == history[pos]
<1>1. e \in Entries /\ Here \in Urls /\ e.url = Here
  BY HereIsAddress, ElementOfSeq DEF NavInv, Here
<1>2. w \in Urls /\ Agrees(shell, version, w)
  BY <1>1, WrittenAgrees DEF EditSearch, MayWrite, NavInv
<1>3. e.shown = Page(ShellAt(w))
  BY <1>1, <1>2, EntryFields DEF Agrees, NavInv, ShownIsAddressed
<1>4. [e EXCEPT !.url = w] = [url |-> w, shown |-> e.shown]
  <2> HIDE DEF w
  <2> QED BY <1>1, EntryFields
<1>5. /\ history' = [history EXCEPT ![pos] = [url |-> w, shown |-> e.shown]]
      /\ pos' = pos /\ shell' = shell /\ search' = version
  <2>1. history' = [history EXCEPT ![pos] = [e EXCEPT !.url = w]]
    BY <1>1 DEF EditSearch
  <2> QED BY <2>1, <1>4 DEF EditSearch
<1> HIDE DEF w, e
<1>6. history' \in Seq(Entries) /\ pos' \in 1..Len(history') /\ Here' = w
  BY <1>2, <1>3, <1>5, Rewritten DEF NavInv
<1> QED BY <1>2, <1>5, <1>6, AgreeingStep DEF NavInv

LEMMA DocumentLoaded ==
  ASSUME NEW url \in Urls
  PROVE LET l == Loaded(url)
        IN  /\ l.shell \in Shells /\ l.search \in Versions \cup {None} /\ l.url \in Urls
            /\ Agrees(l.shell, l.search, l.url)
<1>1. ShellAt(url) \in Shells /\ SearchAt(url) \in Versions \cup {None}
  BY LoadedShell, UrlFields DEF SearchAt
<1>2. LET w == WrittenBack(url, ShellAt(url), SearchAt(url))
      IN  w \in Urls /\ Agrees(ShellAt(url), SearchAt(url), w)
  BY <1>1, WrittenAgrees DEF MayWrite
<1> QED BY <1>1, <1>2 DEF Loaded

LEMMA Reloaded ==
  ASSUME NavInv, Reload
  PROVE NavInv' /\ Here' = Loaded(Here).url
<1> DEFINE l == Loaded(Here)
<1>1. /\ l.shell \in Shells /\ l.search \in Versions \cup {None} /\ l.url \in Urls
      /\ Agrees(l.shell, l.search, l.url)
  BY HereIsAddress, DocumentLoaded
<1>2. /\ shell' = l.shell /\ search' = l.search /\ pos' = pos
      /\ history' = [history EXCEPT ![pos] = [url |-> l.url, shown |-> Page(l.shell)]]
  BY DEF Reload
<1> HIDE DEF l
<1>3. history' \in Seq(Entries) /\ pos' \in 1..Len(history') /\ Here' = l.url
  BY <1>1, <1>2, Rewritten DEF NavInv, Agrees
<1> QED BY <1>1, <1>2, <1>3, AgreeingStep DEF l

\* A step through the history: the address that the entry is left with, and
\* that the shell then shows its page; the shell itself read the address that
\* was there, unless the list wrote its own over it.
LEMMA Popped ==
  ASSUME NavInv, NEW n \in 1..Len(history), PopState(n)
  PROVE /\ NavInv'
        /\ history[n].url \in Urls
        /\ history[n].shown = Page(ShellAt(history[n].url))
        /\ \/ /\ shell' = ShellAt(history[n].url)
              /\ Here' = history[n].url \/ Synced(shell')
           \/ ListIsFirst /\ Synced(shell')
<1> DEFINE url == history[n].url
<1>1. history[n] \in Entries
  BY ElementOfSeq DEF NavInv
<1>2. url \in Urls /\ history[n].shown = Page(ShellAt(url))
  BY <1>1, EntryFields
<1>3. SearchAt(url) \in Versions \cup {None} /\ search \in Versions \cup {None}
  BY <1>2, UrlFields DEF SearchAt, NavInv
<1>4. pos' = n
  BY DEF PopState
<1>5. CASE ListIsFirst
  <2> DEFINE w == WrittenBack(url, shell, SearchAt(url))
  <2>1. /\ shell' = ShellAt(w) /\ search' = SearchAt(url)
        /\ history' = [history EXCEPT ![n] = [url |-> w, shown |-> Page(ShellAt(w))]]
    BY <1>5 DEF PopState, ListListensFirst
  <2>2. w \in Urls /\ Agrees(shell, SearchAt(url), w) /\ Synced(shell)
    BY <1>2, <1>3, <1>5, WrittenAgrees DEF ListIsFirst, MayWrite, NavInv
  <2>3. w.path.kind = "list" /\ w.project = None
    BY <2>2, <1>2, UrlFields DEF WrittenBack, WriteDiscover, WriteProjectList,
         ClearProjectSearchParams, Urls, Place
  <2> HIDE DEF w
  <2>4. ShellAt(w) \in Shells /\ Synced(ShellAt(w)) /\ ShellAt(w).type = TypeAt(w)
    BY <2>2, <2>3, LoadedShell DEF ShellAt, Synced, ViewOf
  <2>5. history' \in Seq(Entries) /\ pos' \in 1..Len(history') /\ Here' = w
    BY <2>1, <2>2, <1>4, Rewritten
  <2>6. NavInv'
    BY <2>1, <2>2, <2>4, <2>5, <1>3, AgreeingStep DEF Agrees
  <2> QED BY <1>2, <1>5, <2>1, <2>4, <2>6
<1>6. CASE ~ListIsFirst
  <2> DEFINE s == ShellAt(url)
  <2>1. PICK v \in Versions \cup {None} :
          /\ shell' = s /\ search' = v
          /\ history' = [history EXCEPT ![n] = [url |-> WrittenBack(url, s, v), shown |-> Page(s)]]
    BY <1>3, <1>6 DEF PopState, ShellListensFirst
  <2> DEFINE w == WrittenBack(url, s, v)
  <2>2. s \in Shells /\ w \in Urls /\ Agrees(s, v, w)
    BY <1>2, LoadedShell, WrittenAgrees DEF MayWrite
  <2>3. w = url \/ Synced(s)
    BY DEF WrittenBack
  <2>4. /\ shell' = s /\ search' = v
        /\ history' = [history EXCEPT ![n] = [url |-> w, shown |-> Page(s)]]
    BY <2>1
  <2> HIDE DEF w
  <2>5. history' \in Seq(Entries) /\ pos' \in 1..Len(history') /\ Here' = w
    BY <2>2, <2>4, <1>4, Rewritten DEF Agrees
  <2>6. NavInv'
    BY <2>2, <2>4, <2>5, AgreeingStep
  <2> QED BY <1>2, <2>3, <2>4, <2>5, <2>6
<1> QED BY <1>5, <1>6

\* Back and Forward go to an entry.
LEMMA StepsThroughHistory ==
  ASSUME NavInv, Back \/ Forward
  PROVE \E n \in 1..Len(history) : PopState(n)
<1>1. pos \in Nat /\ Len(history) \in Nat /\ pos >= 1 /\ pos <= Len(history)
  BY HereIsAddress DEF NavInv
<1>2. CASE Back
  <2>1. pos - 1 \in 1..Len(history) /\ PopState(pos - 1)
    BY <1>1, <1>2 DEF Back
  <2> QED BY <2>1
<1>3. CASE Forward
  <2>1. pos + 1 \in 1..Len(history) /\ PopState(pos + 1)
    BY <1>1, <1>3 DEF Forward
  <2> QED BY <2>1
<1> QED BY <1>2, <1>3

--------------------------------------------------------------------------
(* Navigation: the invariant and the theorems.                            *)

LEMMA NavInitial ==
  ASSUME NavInit
  PROVE NavInv
<1>1. PICK url \in Links :
        LET l == Loaded(url)
        IN  /\ shell = l.shell /\ search = l.search
            /\ history = <<[url |-> l.url, shown |-> Page(l.shell)]>>
            /\ pos = 1
  BY DEF NavInit
<1> DEFINE l == Loaded(url)
           e == [url |-> l.url, shown |-> Page(l.shell)]
<1>2. /\ l.shell \in Shells /\ l.search \in Versions \cup {None} /\ l.url \in Urls
      /\ Agrees(l.shell, l.search, l.url)
  BY PlainLinksAreAddresses, DocumentLoaded
<1>3. /\ shell = l.shell /\ search = l.search /\ history = <<e>> /\ pos = 1
  BY <1>1
<1>4. e \in Entries /\ e.url = l.url
  BY <1>2, EntryMade DEF Agrees
<1> HIDE DEF l, e
<1>5. history \in Seq(Entries) /\ pos \in 1..Len(history) /\ Here = l.url
  BY <1>3, <1>4 DEF Here
<1> QED BY <1>2, <1>3, <1>5 DEF NavInv, ShownIsAddressed, SearchIsAddressed, Agrees

LEMMA NavStep ==
  ASSUME NavInv, [NavNext]_navVars
  PROVE NavInv'
<1> USE DEF Handled
<1>1. ASSUME NEW view \in StaticViews, OpenStatic(view)  PROVE NavInv'
  BY <1>1, StaticOpened, Went
<1>2. ASSUME NEW target \in Targets, OpenDashboardEdit(target)  PROVE NavInv'
  BY <1>2, EditOpened, Went
<1>3. CASE \/ OpenDiscover \/ CloseProject
           \/ \E type \in Types : ChangeProjectType(type)
           \/ \E type \in Types, version \in Versions \cup {None} : SearchByTag(type, version)
  BY <1>3, ListOpened, Went
<1>4. ASSUME NEW version \in Versions \cup {None}, EditSearch(version)  PROVE NavInv'
  BY <1>4, SearchEdited
<1>5. ASSUME NEW tab \in {"description", "versions"}, SelectTab(tab)  PROVE NavInv'
  BY <1>5, TabSelected
<1>6. ASSUME NEW version \in Versions \cup {None}, SelectVersion(version)  PROVE NavInv'
  BY <1>6, VersionSelected
<1>7. ASSUME NEW x \in Sections, SelectSection(x)  PROVE NavInv'
  BY <1>7, SectionSelected
<1>8. ASSUME NEW url \in Links \cup VersionLinks, NavigateToUrl(url)  PROVE NavInv'
  BY <1>8, LinkHandled, Went
<1>9. CASE Back \/ Forward
  BY <1>9, StepsThroughHistory, Popped
<1>10. CASE Reload
  BY <1>10, Reloaded
<1>11. CASE CatalogAnswers \/ UNCHANGED navVars
  BY <1>11 DEF CatalogAnswers, navVars, NavInv, ShownIsAddressed, SearchIsAddressed, Here
<1> QED BY <1>1, <1>2, <1>3, <1>4, <1>5, <1>6, <1>7, <1>8, <1>9, <1>10, <1>11 DEF NavNext

\* Every entry of the history was left showing the page of its address, and
\* the state of the shell and the list agree with the current one.
THEOREM NavInvariance == NavSpec => []NavInv
<1> QED BY NavInitial, NavStep, PTL DEF NavSpec

\* The page shown is the one that loading its address would show.
THEOREM PageIsItsAddress == NavSpec => []ShownIsAddressed
<1>1. NavInv => ShownIsAddressed
  BY DEF NavInv
<1> QED BY <1>1, NavInvariance, PTL

\* A list that is shown is filtered as its address says.
THEOREM ListIsItsAddress == NavSpec => []SearchIsAddressed
<1>1. NavInv => SearchIsAddressed
  BY DEF NavInv
<1> QED BY <1>1, NavInvariance, PTL

\* Back and Forward show the page that was left at the entry they come to, once
\* the list was rendered twice.
THEOREM StepsShowTheirEntry == NavSpec => StepsShowWhatWasLeft
<1> DEFINE Shows == rerendered /\ (Back \/ Forward) => Page(shell') = history[pos'].shown
<1>1. ASSUME NavInv, [NavNext]_navVars  PROVE [Shows]_navVars
  <2> SUFFICES ASSUME rerendered, Back \/ Forward
               PROVE Page(shell') = history[pos'].shown
    OBVIOUS
  <2>1. PICK n \in 1..Len(history) : PopState(n)
    BY <1>1, StepsThroughHistory
  <2>2. pos' = n /\ ~ListIsFirst
    BY <2>1 DEF PopState, ListIsFirst
  <2>3. /\ history[n].shown = Page(ShellAt(history[n].url))
        /\ shell' = ShellAt(history[n].url)
    BY <1>1, <2>1, <2>2, Popped
  <2> QED BY <2>2, <2>3
<1> QED BY <1>1, NavInvariance, PTL DEF NavSpec, StepsShowWhatWasLeft

--------------------------------------------------------------------------
(* Navigation: what the project page and the dashboard read late.         *)

\* A handler parts the project page from its address only if it selects the
\* project that is selected, and the dashboard only if it stays there.
LEMMA WentParts ==
  ASSUME NavInv, NEW s, NEW v, NEW url, Handled(s, v, url)
  PROVE /\ ~PaneIsAddressed' => s.project # None /\ s.project = shell.project
        /\ ~SectionIsAddressed' => OnWorkspace(s) /\ OnWorkspace(shell)
<1>1. shell' = s /\ Here' = WrittenBack(url, s, v)
  BY Went DEF Handled
<1>2. pane' = PaneOf(s, url) /\ section' = SectionOf(s, url)
  BY DEF Handled, Go
<1>3. ASSUME s.project # None, s.project # shell.project  PROVE PaneIsAddressed'
  <2>1. Here' = url
    BY <1>1, <1>3 DEF WrittenBack, Synced
  <2>2. pane' = PaneAt(url)
    BY <1>2, <1>3 DEF PaneOf
  <2> QED BY <2>1, <2>2 DEF PaneIsAddressed
<1>4. ASSUME OnWorkspace(s), ~OnWorkspace(shell)  PROVE SectionIsAddressed'
  <2>1. Here' = url
    BY <1>1, <1>4, WorkspaceHasNoProject DEF WrittenBack
  <2>2. section' = url.section
    BY <1>2, <1>4 DEF SectionOf
  <2> QED BY <2>1, <2>2 DEF SectionIsAddressed
<1>5. s.project = None => PaneIsAddressed'
  BY <1>1 DEF PaneIsAddressed
<1>6. ~OnWorkspace(s) => SectionIsAddressed'
  BY <1>1 DEF SectionIsAddressed
<1> QED BY <1>3, <1>4, <1>5, <1>6

\* A step through the history, and loading the document, make both read it.
LEMMA PoppedParts ==
  ASSUME NavInv, NEW n \in 1..Len(history), PopState(n)
  PROVE PaneIsAddressed' /\ SectionIsAddressed'
<1> DEFINE url == history[n].url
<1>1. /\ pane' = IF shell'.project = None THEN PaneOf(shell', url) ELSE PaneAt(url)
      /\ section' = IF OnWorkspace(shell') THEN url.section ELSE Overview
  BY DEF PopState
<1>2. Here' = url \/ Synced(shell')
  BY Popped
<1>3. CASE Synced(shell')
  BY <1>3, WorkspaceHasNoProject DEF PaneIsAddressed, SectionIsAddressed, Synced
<1>4. CASE Here' = url
  BY <1>1, <1>4 DEF PaneIsAddressed, SectionIsAddressed
<1> QED BY <1>2, <1>3, <1>4

LEMMA ReloadedParts ==
  ASSUME NavInv, Reload
  PROVE PaneIsAddressed' /\ SectionIsAddressed'
<1> DEFINE s == ShellAt(Here)
           w == WrittenBack(Here, s, SearchAt(Here))
<1>1. /\ shell' = s /\ Here' = w
      /\ pane' = IF s.project # None THEN PaneAt(Here)
                 ELSE PaneAt(Address(Place("static", "home")))
      /\ section' = IF OnWorkspace(s) THEN Here.section ELSE Overview
  BY Reloaded DEF Reload, Loaded
<1>2. w = Here \/ Synced(s)
  BY DEF WrittenBack
<1> HIDE DEF s, w
<1>3. CASE Synced(s)
  BY <1>1, <1>3, WorkspaceHasNoProject DEF PaneIsAddressed, SectionIsAddressed, Synced
<1>4. CASE w = Here
  BY <1>1, <1>4 DEF PaneIsAddressed, SectionIsAddressed
<1> QED BY <1>2, <1>3, <1>4

\* Choosing a tab, a release or a section writes it where it is read.
LEMMA SelectedParts ==
  ASSUME NavInv,
         \/ \E tab \in {"description", "versions"} : SelectTab(tab)
         \/ \E version \in Versions \cup {None} : SelectVersion(version)
         \/ \E x \in Sections : SelectSection(x)
  PROVE /\ PaneIsAddressed => PaneIsAddressed'
        /\ SectionIsAddressed => SectionIsAddressed'
<1>1. /\ Here.tab \in {"description", "versions"}
      /\ Here = [path |-> Here.path, project |-> Here.project, tab |-> Here.tab,
                 version |-> Here.version, section |-> Here.section]
  BY HereIsAddress, UrlFields DEF Urls
<1>2. ASSUME NEW tab \in {"description", "versions"}, SelectTab(tab)
      PROVE  /\ PaneIsAddressed => PaneIsAddressed'
             /\ SectionIsAddressed => SectionIsAddressed'
  <2>1. shell' = shell /\ shell.project # None /\ Here' = WriteProjectTab(Here, tab)
    BY <1>2, TabSelected DEF SelectTab
  <2>2. pane' = [tab |-> tab, version |-> IF tab = "versions" THEN pane.version ELSE None]
    BY <1>2 DEF SelectTab
  <2>3. /\ WriteProjectTab(Here, tab).tab = tab
        /\ WriteProjectTab(Here, tab).version = IF tab = "versions" THEN Here.version ELSE None
    BY <1>1 DEF WriteProjectTab
  <2>4. PaneIsAddressed => pane' = PaneAt(WriteProjectTab(Here, tab))
    BY <2>1, <2>2, <2>3 DEF PaneIsAddressed, PaneAt
  <2>5. ~OnWorkspace(shell)
    BY <2>1, WorkspaceHasNoProject
  <2> QED BY <2>1, <2>4, <2>5 DEF PaneIsAddressed, SectionIsAddressed
<1>3. ASSUME NEW version \in Versions \cup {None}, SelectVersion(version)
      PROVE  /\ PaneIsAddressed => PaneIsAddressed'
             /\ SectionIsAddressed => SectionIsAddressed'
  <2>1. shell' = shell /\ shell.project # None /\ Here' = WriteSelectedVersion(Here, version)
    BY <1>3, VersionSelected DEF SelectVersion
  <2>2. pane' = [tab |-> "versions", version |-> version]
    BY <1>3 DEF SelectVersion
  <2>3. pane' = PaneAt(WriteSelectedVersion(Here, version))
    BY <1>1, <2>2 DEF WriteSelectedVersion, PaneAt
  <2>4. ~OnWorkspace(shell)
    BY <2>1, WorkspaceHasNoProject
  <2> QED BY <2>1, <2>3, <2>4 DEF PaneIsAddressed, SectionIsAddressed
<1>4. ASSUME NEW x \in Sections, SelectSection(x)
      PROVE  /\ PaneIsAddressed => PaneIsAddressed'
             /\ SectionIsAddressed => SectionIsAddressed'
  <2>1. /\ shell' = shell /\ shell.project = None /\ section' = x
        /\ Here' = [Here EXCEPT !.section = x]
    BY <1>4, SectionSelected, WorkspaceHasNoProject DEF SelectSection
  <2>2. [Here EXCEPT !.section = x].section = x
    BY <1>1
  <2> QED BY <2>1, <2>2 DEF PaneIsAddressed, SectionIsAddressed
<1> QED BY <1>2, <1>3, <1>4

\* Which links name a project, and which the dashboard.
LEMMA LinkShapes ==
  /\ \A url \in ListLinks : url.project = None /\ url.path.kind = "list"
  /\ \A url \in StaticLinks : url.project = None
  /\ \A url \in ItemLinks :
       url.project = None /\ url.path.kind \in {"user", "organization", "collection", "edit"}
  /\ \A url \in ProjectLinks : url.path.kind = "list"
<1>1. \A path : Address(path).project = None /\ Address(path).path = path
  BY DEF Address
<1>2. ASSUME NEW url \in ListLinks  PROVE url.project = None /\ url.path.kind = "list"
  <2>1. PICK t \in Types, v \in Versions \cup {None} :
          url = [Address(Place("list", t)) EXCEPT !.version = v]
    BY <1>2 DEF ListLinks
  <2> QED BY <2>1 DEF Address, Place
<1>3. ASSUME NEW url \in StaticLinks  PROVE url.project = None
  <2>1. \/ \E view \in StaticViews : url = Address(Place("static", view))
        \/ \E x \in Sections : url = [Address(Place("static", "dashboard")) EXCEPT !.section = x]
    BY <1>3 DEF StaticLinks
  <2>2. \A x : [Address(Place("static", "dashboard")) EXCEPT !.section = x].project = None
    BY DEF Address
  <2> QED BY <1>1, <2>1, <2>2
<1>4. ASSUME NEW url \in ItemLinks
      PROVE  url.project = None /\ url.path.kind \in {"user", "organization", "collection", "edit"}
  <2>1. PICK kind \in {"user", "organization", "collection", "edit"},
             id \in Users \cup Organizations \cup Collections \cup Targets :
          url = Address(Place(kind, id))
    BY <1>4 DEF ItemLinks
  <2>2. Place(kind, id).kind = kind
    BY DEF Place
  <2> QED BY <1>1, <2>1, <2>2
<1>5. ASSUME NEW url \in ProjectLinks  PROVE url.path.kind = "list"
  <2>1. PICK p \in Projects : \/ url = ProjectPath(p)
                              \/ \E v \in Versions : url = WriteSelectedVersion(ProjectPath(p), v)
    BY <1>5 DEF ProjectLinks
  <2>2. ProjectPath(p) = [path |-> Place("list", TypeOf(p)), project |-> p,
                          tab |-> "description", version |-> None, section |-> Overview]
    BY DEF ProjectPath, Address
  <2>3. url.path = Place("list", TypeOf(p))
    <3> DEFINE link == ProjectPath(p)
    <3>1. link.path = Place("list", TypeOf(p)) /\ DOMAIN link = {"path", "project", "tab", "version", "section"}
      BY <2>2
    <3> HIDE DEF link
    <3>2. \A v : WriteSelectedVersion(link, v).path = Place("list", TypeOf(p))
      BY <3>1 DEF WriteSelectedVersion
    <3> QED BY <2>1, <3>1, <3>2 DEF link
  <2> QED BY <2>3 DEF Place
<1> QED BY <1>2, <1>3, <1>4, <1>5

LEMMA LinksToProjects ==
  ASSUME NEW url \in Links \cup VersionLinks, url.project # None
  PROVE url \in VersionLinks \cup ProjectLinks
BY LinkShapes DEF Links

LEMMA LinksToWorkspace ==
  ASSUME NavInv, NEW url \in Links \cup VersionLinks, url.project = None,
         url.path = Place("static", "dashboard")
  PROVE url \in StaticLinks
<1>1. url.path.kind = "static"
  BY DEF Place
<1>2. url \notin ListLinks \cup ItemLinks \cup ProjectLinks
  BY <1>1, LinkShapes
<1>4. CASE url \in VersionLinks
  <2>1. PICK v \in Versions : url = WriteSelectedVersion(Here, v) /\ shell.project # None
    BY <1>4 DEF VersionLinks
  <2>2. Page(ShellAt(Here)) = Place("project", shell.project)
    BY <2>1, ProjectPage DEF NavInv, ShownIsAddressed
  <2>3. Page(ShellAt(Here)) = Here.path /\ Here.path.kind # "project"
    <3>1. url.project = Here.project
      BY <2>1, HereIsAddress, UrlFields DEF WriteSelectedVersion, Urls
    <3> QED BY <3>1, HereIsAddress, PageOfAddress, UrlFields, PathKinds
  <2> QED BY <2>2, <2>3 DEF Place
<1> QED BY <1>2, <1>4 DEF Links

\* Only a step to where one already is parts the project page or the dashboard
\* from its address.
THEOREM OwnLinksPart == NavSpec => OnlyOwnLinksPart
<1> DEFINE ToOwnProject == \E url \in VersionLinks \cup ProjectLinks :
                             url.project = shell.project /\ NavigateToUrl(url)
           ToOwnSection == /\ OnWorkspace(shell)
                           /\ \/ \E url \in StaticLinks : NavigateToUrl(url)
                              \/ OpenStatic("dashboard")
           Parts == /\ PaneIsAddressed /\ ~PaneIsAddressed' => ToOwnProject
                    /\ SectionIsAddressed /\ ~SectionIsAddressed' => ToOwnSection
<1>1. ASSUME NavInv, NavNext  PROVE Parts
  <2>1. ASSUME NEW view \in StaticViews, OpenStatic(view)  PROVE Parts
    <3>1. PICK s, v, url : Handled(s, v, url) /\ s.project = None
                           /\ Page(s) = Place("static", view)
      BY <1>1, <2>1, StaticOpened
    <3>2. PaneIsAddressed'
      BY <1>1, <3>1, WentParts
    <3>3. ~SectionIsAddressed' => OnWorkspace(shell) /\ view = "dashboard"
      BY <1>1, <3>1, WentParts DEF OnWorkspace, Place
    <3> QED BY <2>1, <3>2, <3>3
  <2>2. ASSUME NEW target \in Targets, OpenDashboardEdit(target)  PROVE Parts
    <3>1. PICK s, v, url : Handled(s, v, url) /\ s.project = None
                           /\ Page(s) = Place("edit", target)
      BY <1>1, <2>2, EditOpened
    <3>2. ~OnWorkspace(s)
      BY <3>1 DEF OnWorkspace, Place
    <3> QED BY <1>1, <3>1, <3>2, WentParts
  <2>3. CASE \/ OpenDiscover \/ CloseProject
             \/ \E type \in Types : ChangeProjectType(type)
             \/ \E type \in Types, version \in Versions \cup {None} : SearchByTag(type, version)
    <3>1. PICK s, v, url : Handled(s, v, url) /\ Synced(s)
      BY <1>1, <2>3, ListOpened
    <3>2. ~OnWorkspace(s) /\ s.project = None
      BY <3>1, WorkspaceHasNoProject DEF Synced
    <3> QED BY <1>1, <3>1, <3>2, WentParts
  <2>4. ASSUME NEW version \in Versions \cup {None}, EditSearch(version)  PROVE Parts
    <3>1. shell' = shell /\ Synced(shell)
      BY <2>4 DEF EditSearch
    <3>2. ~OnWorkspace(shell) /\ shell.project = None
      BY <3>1, WorkspaceHasNoProject DEF Synced
    <3> QED BY <3>1, <3>2 DEF PaneIsAddressed, SectionIsAddressed
  <2>5. CASE \/ \E tab \in {"description", "versions"} : SelectTab(tab)
             \/ \E version \in Versions \cup {None} : SelectVersion(version)
             \/ \E x \in Sections : SelectSection(x)
    BY <1>1, <2>5, SelectedParts
  <2>6. ASSUME NEW url \in Links \cup VersionLinks, NavigateToUrl(url)  PROVE Parts
    <3>1. PICK v : Handled(Followed(url), v, url)
      BY <1>1, <2>6, LinkHandled
    <3>2. /\ ~PaneIsAddressed' => url.project # None /\ url.project = shell.project
          /\ ~SectionIsAddressed' => OnWorkspace(Followed(url)) /\ OnWorkspace(shell)
      BY <1>1, <3>1, LinkFollowed, WentParts
    <3>3. ~PaneIsAddressed' => ToOwnProject
      BY <2>6, <3>2, LinksToProjects
    <3>4. OnWorkspace(Followed(url)) => url \in StaticLinks
      <4> SUFFICES ASSUME OnWorkspace(Followed(url))  PROVE url \in StaticLinks
        OBVIOUS
      <4>1. url.project = None
        BY <1>1, LinkFollowed, WorkspaceHasNoProject
      <4>2. Page(ShellAt(url)) = Place("static", "dashboard")
        BY <1>1, LinkFollowed DEF OnWorkspace
      <4>3. url.path = Place("static", "dashboard")
        BY <1>1, <4>1, <4>2, LinksAreAddresses, PageOfAddress
      <4> QED BY <1>1, <4>1, <4>3, LinksToWorkspace
    <3> QED BY <2>6, <3>2, <3>3, <3>4
  <2>7. CASE Back \/ Forward
    BY <1>1, <2>7, StepsThroughHistory, PoppedParts
  <2>8. CASE Reload
    BY <1>1, <2>8, ReloadedParts
  <2>9. CASE CatalogAnswers
    BY <2>9 DEF CatalogAnswers, PaneIsAddressed, SectionIsAddressed, Here
  <2> QED BY <1>1, <2>1, <2>2, <2>3, <2>4, <2>5, <2>6, <2>7, <2>8, <2>9 DEF NavNext
<1>2. NavInv /\ [NavNext]_navVars => [Parts]_navVars
  BY <1>1
<1> QED BY <1>2, NavInvariance, PTL DEF NavSpec, OnlyOwnLinksPart

==========================================================================
