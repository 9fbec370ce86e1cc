--------------------------- MODULE DownloadServer ---------------------------
(***************************************************************************)
(* The backend's side of a model download (setup/download.py,               *)
(* downloader.py): HuggingFace's threads report progress, a worker thread   *)
(* puts events on a queue, event_stream takes them off and sends each as a  *)
(* frame of a Server-Sent-Events response.                                  *)
(***************************************************************************)
EXTENDS Naturals, SequencesExt

CONSTANTS
    Starts,     \* the downloads that may be started, numbered from 1
    Threads,    \* HuggingFace's threads of one download
    Styles,     \* how frames are delimited, see Style
    MaxPings    \* bound: keep-alive comments sent

(* Line ends of CR LF or LF alone; the last frame may lack its blank line.   *)
Style == [crlf : BOOLEAN, blankAtEnd : BOOLEAN]
ASSUME DownloadAssumption ==
    /\ IsFiniteSet(Starts) /\ Starts = 1..Cardinality(Starts)
    /\ IsFiniteSet(Threads)
    /\ Styles \subseteq Style
    /\ MaxPings \in Nat

VARIABLES
    style,     \* the delimiters in use
    fetch,     \* fetch[r][h]: what thread h of download r is at
    accrued,   \* accrued[r]: the bytes counted under the lock
    worker,    \* worker[r]: "none", "running", "told" or "over"
    queue,     \* queue[r]: the events on their way to event_stream
    stream,    \* stream[r]: "none", "open", "ended" or "broken"
    wire,      \* wire[r]: the symbols sent to the browser
    frames,    \* history: the events that were sent, and where their frames end
    pings

downloadVars == <<style, fetch, accrued, worker, queue, stream, wire, frames, pings>>

(* Each thread reports one piece; the snapshot it took counts what all of    *)
(* them had by then, in pieces.                                              *)
Waiting == 0
Total == Cardinality(Threads)
Reported == Total + 1

Progress(n) == [type |-> "progress", percent |-> n]
Done == [type |-> "done"]
Failure == [type |-> "error"]
Messages == {Progress(n) : n \in 1..Total} \cup {Done, Failure}
Sentinel == [type |-> "sentinel"]

(* What travels: the two halves of a data line, a comment, and line ends.    *)
Data(e, half) == [is |-> "data", event |-> e, half |-> half]
Comment == [is |-> "comment"]
CR == [is |-> "cr"]
LF == [is |-> "lf"]
LineEnd == IF style.crlf THEN <<CR, LF>> ELSE <<LF>>
IsLast(e) == e \in {Done, Failure}
Frame(e) ==
    <<Data(e, 1), Data(e, 2)>> \o LineEnd
        \o (IF IsLast(e) /\ ~style.blankAtEnd THEN <<>> ELSE LineEnd)

DownloadInit ==
    /\ style \in Styles
    /\ fetch = [r \in Starts |-> [h \in Threads |-> Waiting]]
    /\ accrued = [r \in Starts |-> 0]
    /\ worker = [r \in Starts |-> "none"]
    /\ queue = [r \in Starts |-> <<>>]
    /\ stream = [r \in Starts |-> "none"]
    /\ wire = [r \in Starts |-> <<>>]
    /\ frames = [r \in Starts |-> <<>>]
    /\ pings = 0

(* post_download: the response is opened and the worker thread started.      *)
PostDownload(r) ==
    /\ stream' = [stream EXCEPT ![r] = "open"]
    /\ worker' = [worker EXCEPT ![r] = "running"]
    /\ UNCHANGED <<style, fetch, accrued, queue, wire, frames, pings>>

Put(r, e) == queue' = [queue EXCEPT ![r] = Append(@, e)]

(* _ProgressTqdm.update adds its bytes and reads the sum under the lock ...  *)
Count(r, h) ==
    /\ worker[r] = "running" /\ fetch[r][h] = Waiting
    /\ accrued' = [accrued EXCEPT ![r] = @ + 1]
    /\ fetch' = [fetch EXCEPT ![r][h] = accrued[r] + 1]
    /\ UNCHANGED <<style, worker, queue, stream, wire, frames, pings>>

(* ... and calls back after it: on_progress may see the sums out of order.   *)
Report(r, h) ==
    /\ fetch[r][h] \in 1..Total
    /\ Put(r, Progress(fetch[r][h]))
    /\ fetch' = [fetch EXCEPT ![r][h] = Reported]
    /\ UNCHANGED <<style, accrued, worker, stream, wire, frames, pings>>

(* snapshot_download has joined its threads when it returns or raises.       *)
Tell(r, e) ==
    /\ worker[r] = "running"
    /\ Put(r, e)
    /\ worker' = [worker EXCEPT ![r] = "told"]
    /\ UNCHANGED <<style, fetch, accrued, stream, wire, frames, pings>>

(* Fault: success is told while threads still report.                        *)
SucceedEarly(r) == Tell(r, Done)

Succeed(r) == (\A h \in Threads : fetch[r][h] = Reported) /\ Tell(r, Done)

(* Fault: an exception is not reported, only the sentinel.                   *)
FailSilently(r) ==
    /\ \A h \in Threads : fetch[r][h] \in {Waiting, Reported}
    /\ worker[r] = "running"
    /\ worker' = [worker EXCEPT ![r] = "told"]
    /\ UNCHANGED <<style, fetch, accrued, queue, stream, wire, frames, pings>>

Fail(r) ==
    /\ \A h \in Threads : fetch[r][h] \in {Waiting, Reported}
    /\ Tell(r, Failure)

Close(r) ==
    /\ worker[r] = "told"
    /\ Put(r, Sentinel)
    /\ worker' = [worker EXCEPT ![r] = "over"]
    /\ UNCHANGED <<style, fetch, accrued, stream, wire, frames, pings>>

(* event_stream: the next event becomes a frame, the sentinel ends it.       *)
Forward(r) ==
    /\ stream[r] = "open" /\ queue[r] # <<>>
    /\ queue' = [queue EXCEPT ![r] = Tail(@)]
    /\ IF Head(queue[r]) = Sentinel
       THEN /\ stream' = [stream EXCEPT ![r] = "ended"]
            /\ UNCHANGED <<wire, frames>>
       ELSE /\ wire' = [wire EXCEPT ![r] = @ \o Frame(Head(queue[r]))]
            /\ frames' = [frames EXCEPT ![r] =
                  Append(@, [event |-> Head(queue[r]), end |-> Len(wire'[r])])]
            /\ UNCHANGED stream
    /\ UNCHANGED <<style, fetch, accrued, worker, pings>>

(* EventSourceResponse sends comments to keep the connection alive.          *)
Ping(r) ==
    /\ stream[r] = "open" /\ pings < MaxPings
    /\ frames[r] # <<>> /\ IsLast(Last(frames[r]).event) => style.blankAtEnd
    /\ wire' = [wire EXCEPT ![r] = @ \o <<Comment>> \o LineEnd \o LineEnd]
    /\ pings' = pings + 1
    /\ UNCHANGED <<style, fetch, accrued, worker, queue, stream, frames>>

(* The connection breaks: event_stream is cancelled, the worker goes on.     *)
Break(r) ==
    /\ stream[r] = "open"
    /\ stream' = [stream EXCEPT ![r] = "broken"]
    /\ UNCHANGED <<style, fetch, accrued, worker, queue, wire, frames, pings>>

Work(r) ==
    \/ \E h \in Threads : Count(r, h) \/ Report(r, h)
    \/ Succeed(r) \/ Fail(r) \/ Close(r)
=============================================================================
