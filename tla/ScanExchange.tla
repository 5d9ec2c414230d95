-------------------------- MODULE ScanExchange ---------------------------
(* A virus scan: the API downloads a file and streams it to clamd over a  *)
(* socket (clamav-scanner service), and records the verdict of a rescan   *)
(* (version-file-scans service).                                          *)
(*                                                                        *)
(* The answer of clamd is a promise made before anything is sent, with a  *)
(* timer that runs from then on; it is awaited after everything is sent.  *)
(* When it is rejected while nothing awaits it, the runtime may end the   *)
(* process, and with it every scan under way (Node.js does), or report it *)
(* and go on (Bun's emulation of it, which the container image brings).   *)
(* Time is abstract: a timer may expire at any moment of the wait it      *)
(* belongs to.  All have one length, so that the answer's, which is       *)
(* started first, expires before that of a write.                         *)
EXTENDS Naturals

CONSTANTS
  Scans,     \* the scans that may be asked for
  MaxChunks  \* bound: chunks of the longest file

ASSUME MaxChunksAssumption == MaxChunks \in Nat \ {0}

VARIABLES
  up,     \* does the API process run?
  scans,  \* the scans, with what each has sent and been answered
  rows    \* the verdict that each scan has left in the table file_scans

vars == <<up, scans, rows>>

--------------------------------------------------------------------------
(* Data.  A file is a number of chunks, one of which may be infected.     *)

Chunks == 1..MaxChunks
Files == {f \in [length: Chunks, infected: 0..MaxChunks] :
            f.infected <= f.length}

Writes == {"command", "chunk", "terminator"}
Sending == Writes \cup {"reading"}
Exchange == Sending \cup {"awaiting"}
Stages == Exchange \cup
  {"idle", "fetching", "connecting", "recording", "ended", "lost"}

Verdicts == {"CLEAN", "MALWARE"}
Errors == {"BadGateway", "GatewayTimeout", "ServiceUnavailable"}

\* The promise of the answer, with the text it was resolved with or the reason
\* of its rejection.
Texts == {"OK", "FOUND", "other"}
Answers == {"none", "pending", "timedOut", "broken"} \cup Texts

\* "handled" says that a handler for its rejection has been attached to the
\* promise of the answer.
Scan == [at: Stages, file: Files, sent: 0..MaxChunks, answer: Answers,
         handled: BOOLEAN, result: Verdicts \cup Errors \cup {"none"}]

NoFile == [length |-> 1, infected |-> 0]
Blank == [at |-> "idle", file |-> NoFile, sent |-> 0, answer |-> "none",
          handled |-> FALSE, result |-> "none"]

\* What a scan of a whole file should say.
Truth(file) == IF file.infected = 0 THEN "CLEAN" ELSE "MALWARE"

\* clamd's answer to the chunks it was sent.
Reply(scan) ==
  IF scan.file.infected \in 1..scan.sent THEN "FOUND" ELSE "OK"

--------------------------------------------------------------------------
(* Helpers.  A "variant" is a plausible mistake in the code that nothing  *)
(* uses; in place of the helper after it, it must break a property.       *)

\* parseClamavResponse.
Parse(text) ==
  CASE text = "OK" -> "CLEAN"
    [] text = "FOUND" -> "MALWARE"
    [] OTHER -> "BadGateway"

\* What awaiting the settled promise of the answer gives.
Outcome(answer) ==
  CASE answer = "timedOut" -> "GatewayTimeout"
    [] answer = "broken" -> "ServiceUnavailable"
    [] OTHER -> Parse(answer)

\* scanUrl throws, or returns the verdict to its caller.
Settled(scan, result) ==
  [scan EXCEPT !.result = result,
               !.at = IF result \in Verdicts THEN "recording" ELSE "ended"]

\* Variant: the catch block attaches no handler to the answer.
Uncaught(scan) == scan

\* The catch block attaches one to an answer that has been promised.
Caught(scan) == [scan EXCEPT !.handled = scan.answer # "none"]

\* So does awaiting the answer.
Awaited(scan) == [scan EXCEPT !.handled = TRUE]

\* Variant: only the connection and the answer have a time limit.
UntimedWrite(scan) == FALSE

\* May the timer of a pending write expire?  Not while the answer's runs.
WriteExpires(scan) == scan.at \in Writes /\ scan.answer # "pending"

\* A write after clamd has closed its side, or the socket broke, fails at once.
Written(scan, what) ==
  IF scan.answer \in {"pending", "timedOut"} THEN [scan EXCEPT !.at = what]
  ELSE Settled(Caught(scan), "ServiceUnavailable")

\* Variant: an error of the download ends the file.
DownloadEnds(scan) == TRUE

\* Has the download given its last chunk?
WholeFile(scan) == scan.sent = scan.file.length

--------------------------------------------------------------------------
Init ==
  /\ up = TRUE
  /\ scans = [s \in Scans |-> Blank]
  /\ rows = [s \in Scans |-> "none"]

Become(s, scan) ==
  /\ scans' = [scans EXCEPT ![s] = scan]
  /\ UNCHANGED <<up, rows>>

\* catch in scanReadableStream: the socket is destroyed, the scan fails.
Fail(s, error) == Become(s, Settled(Caught(scans[s]), error))

\* A rejection without a handler: the process ends, with its sockets,
\* promises and requests.
Die ==
  /\ up' = FALSE
  /\ scans' = [s \in Scans |->
       IF scans[s].at \in {"idle", "ended", "lost"}
       THEN [scans[s] EXCEPT !.answer = "none", !.handled = FALSE]
       ELSE [scans[s] EXCEPT !.at = "lost", !.answer = "none", !.handled = FALSE]]
  /\ UNCHANGED rows

\* The container runtime starts the API again (restart: unless-stopped).
Restart ==
  /\ ~up
  /\ up' = TRUE
  /\ UNCHANGED <<scans, rows>>

Begin(s, file) ==
  /\ up /\ scans[s].at = "idle"
  /\ Become(s, [scans[s] EXCEPT !.at = "fetching", !.file = file])

\* The headers of the download arrive, or fetch gives up.
FetchAnswers(s) ==
  /\ scans[s].at = "fetching"
  /\ Become(s, [scans[s] EXCEPT !.at = "connecting"])

FetchFails(s) ==
  /\ scans[s].at = "fetching"
  /\ Fail(s, "BadGateway")

\* The socket connects: the answer is promised, then the command is sent.
Connects(s) ==
  /\ scans[s].at = "connecting"
  /\ Become(s, [scans[s] EXCEPT !.at = "command", !.answer = "pending"])

ConnectFails(s) ==
  /\ scans[s].at = "connecting"
  /\ Fail(s, "ServiceUnavailable")

ConnectTimesOut(s) ==
  /\ scans[s].at = "connecting"
  /\ Fail(s, "GatewayTimeout")

\* The next chunk of the download is sent: its size, then its bytes.
ReadChunk(s) ==
  LET scan == scans[s]
  IN /\ scan.at = "reading" /\ scan.sent < scan.file.length
     /\ Become(s, Written([scan EXCEPT !.sent = @ + 1], "chunk"))

\* The download is complete: the empty chunk is sent.
ReadEnd(s) ==
  LET scan == scans[s]
  IN /\ scan.at = "reading" /\ WholeFile(scan)
     /\ Become(s, Written(scan, "terminator"))

\* The download breaks off, or fetch's own limit ends a stalled one.
ReadFails(s) ==
  /\ scans[s].at = "reading"
  /\ Fail(s, "ServiceUnavailable")

\* The callback of a write; after the last one the answer is awaited.
WriteDone(s) ==
  LET scan == scans[s]
  IN /\ scan.answer # "broken"
     /\ \/ /\ scan.at \in {"command", "chunk"}
           /\ Become(s, [scan EXCEPT !.at = "reading"])
        \/ /\ scan.at = "terminator"
           /\ Become(s, IF scan.answer = "pending"
                        THEN Awaited([scan EXCEPT !.at = "awaiting"])
                        ELSE Settled(Awaited(scan), Outcome(scan.answer)))

WriteTimesOut(s) ==
  /\ WriteExpires(scans[s])
  /\ Fail(s, "GatewayTimeout")

\* A pending write fails after the answer was settled: clamd closed its side
\* or the socket broke.
WriteFails(s) ==
  /\ scans[s].at \in Writes /\ scans[s].answer # "pending"
  /\ Fail(s, "ServiceUnavailable")

\* The promise of the answer is resolved with a text.
Resolve(s, text) ==
  LET scan == [scans[s] EXCEPT !.answer = text]
  IN Become(s, IF scan.at = "awaiting" THEN Settled(scan, Outcome(text))
               ELSE scan)

\* clamd has the whole stream, answers and closes.
ClamdAnswers(s) ==
  LET scan == scans[s]
  IN /\ scan.answer = "pending" /\ scan.at \in {"terminator", "awaiting"}
     /\ Resolve(s, Reply(scan))

\* clamd closes early: the stream is too long for it, or it stops.
ClamdHangsUp(s) ==
  /\ scans[s].answer = "pending" /\ scans[s].at \in Exchange
  /\ Resolve(s, "other")

\* The promise of the answer is rejected.
Reject(s, reason) ==
  LET scan == [scans[s] EXCEPT !.answer = reason]
  IN \/ ~scan.handled /\ Die
     \/ Become(s, IF scan.at = "awaiting" THEN Settled(scan, Outcome(reason))
                  ELSE scan)

\* The socket reports an error.  When it also fails the write that is
\* pending, the catch block is there before the rejection is looked at.
SocketBreaks(s) ==
  /\ scans[s].answer = "pending" /\ scans[s].at \in Exchange
  /\ \/ Reject(s, "broken")
     \/ /\ scans[s].at \in Writes
        /\ Become(s, Settled(Caught([scans[s] EXCEPT !.answer = "broken"]),
                             "ServiceUnavailable"))

\* The timer of the answer, which also outlives a scan that has failed.
AnswerTimesOut(s) ==
  /\ scans[s].answer = "pending"
  /\ Reject(s, "timedOut")

\* scanVersionFile: the verdict of a rescan is stored, unless the file is
\* gone.
RecordScan(s) ==
  /\ scans[s].at = "recording"
  /\ scans' = [scans EXCEPT ![s].at = "ended"]
  /\ rows' = [rows EXCEPT ![s] = scans[s].result]
  /\ UNCHANGED up

RecordFails(s) ==
  /\ scans[s].at = "recording"
  /\ Become(s, [scans[s] EXCEPT !.at = "ended"])

ScanStep(s) ==
  \/ FetchAnswers(s) \/ FetchFails(s)
  \/ Connects(s) \/ ConnectFails(s) \/ ConnectTimesOut(s)
  \/ ReadChunk(s) \/ ReadEnd(s) \/ ReadFails(s)
  \/ WriteDone(s) \/ WriteTimesOut(s) \/ WriteFails(s)
  \/ ClamdAnswers(s) \/ ClamdHangsUp(s)
  \/ SocketBreaks(s) \/ AnswerTimesOut(s)
  \/ RecordScan(s) \/ RecordFails(s)

Next ==
  \/ \E s \in Scans : (\E file \in Files : Begin(s, file)) \/ ScanStep(s)
  \/ Restart

\* What happens although nobody else does anything: timers expire (those of
\* the service, and those of fetch for headers and body), the database
\* answers, the container is restarted.  Neither clamd, nor the store, nor
\* the socket ever has to say anything.
Fairness ==
  /\ WF_vars(Restart)
  /\ \A s \in Scans :
       /\ WF_vars(FetchFails(s))
       /\ WF_vars(ConnectTimesOut(s))
       /\ WF_vars(ReadFails(s))
       /\ WF_vars(WriteTimesOut(s))
       /\ WF_vars(AnswerTimesOut(s))
       /\ WF_vars(RecordScan(s))

Spec == Init /\ [][Next]_vars /\ Fairness

--------------------------------------------------------------------------
(* Properties.                                                            *)

\* Every variable has its type, and nothing of a scan is under way while
\* the process is down.
TypeOK ==
  /\ up \in BOOLEAN
  /\ scans \in [Scans -> Scan]
  /\ rows \in [Scans -> Verdicts \cup {"none"}]
  /\ ~up => \A s \in Scans : scans[s].at \in {"idle", "ended", "lost"}

\* A verdict, returned or on record, is the truth about the whole file:
\* no stream that broke off, answer that was cut short or file that was
\* sent in part passes as scanned (scanReadableStream, parseClamavResponse).
VerdictOfWholeFile ==
  \A s \in Scans :
    /\ scans[s].result \in Verdicts => scans[s].result = Truth(scans[s].file)
    /\ rows[s] # "none" => rows[s] = scans[s].result

\* Of all answers that may still be rejected, those of the scans that are
\* sending, and no others, have nobody to handle it and may end the process
\* with every scan in it: not that of a scan that waits for it, and not the
\* timer that a failed scan leaves behind, whatever it failed of and however
\* long ago its caller was told (the catch block of scanReadableStream).
ExposedWhileSending ==
  \A s \in Scans : scans[s].answer = "pending" =>
    (scans[s].handled <=> scans[s].at \notin Sending)

\* Every scan ends, whatever the store and clamd do or fail to do: with a
\* verdict, with an error, or with the process, which comes back.
EveryScanEnds ==
  \A s \in Scans : scans[s].at = "fetching"
                     ~> (up /\ scans[s].at \in {"ended", "lost"})
==========================================================================
