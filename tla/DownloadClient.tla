--------------------------- MODULE DownloadClient ---------------------------
(***************************************************************************)
(* The browser's side of a model download: downloadModel in api.js, which   *)
(* parses the response as it arrives, and StepDownload in steps.jsx, which  *)
(* shows it. A response is cut into chunks anywhere, line ends included.    *)
(***************************************************************************)
EXTENDS DownloadServer

CONSTANT MaxCuts    \* bound: chunks that end inside a frame
ASSUME ClientAssumption == MaxCuts \in Nat

VARIABLES
    reader,    \* reader[r]: "none", "asking", "reading" or "over"
    taken,     \* taken[r]: how many symbols of wire[r] have been read
    buffer,    \* buffer[r]: what was read and not yet emitted
    handled,   \* handled[r]: the events given to onEvent
    cuts,      \* the chunks that ended inside a frame
    view,      \* StepDownload's state and percentage
    hasty      \* history: a download was started before the last was over

clientVars == <<reader, taken, buffer, handled, cuts, view, hasty>>

ClientInit ==
    /\ reader = [r \in Starts |-> "none"]
    /\ taken = [r \in Starts |-> 0]
    /\ buffer = [r \in Starts |-> <<>>]
    /\ handled = [r \in Starts |-> <<>>]
    /\ cuts = 0
    /\ view = [state |-> "idle", percent |-> 0]
    /\ hasty = FALSE

-----------------------------------------------------------------------------
(* A block whose data lines are one whole event.                             *)
Carries(block, e) ==
    \E i, k \in DOMAIN block :
        /\ i < k /\ block[i] = Data(e, 1) /\ block[k] = Data(e, 2)
        /\ \A n \in DOMAIN block \ {i, k} : block[n].is # "data"

(* emit: the event of a block; comments and what does not parse are passed   *)
(* over.                                                                     *)
Parsed(block) ==
    IF \E e \in Messages : Carries(block, e)
    THEN <<CHOOSE e \in Messages : Carries(block, e)>>
    ELSE <<>>

(* Where blank lines end; three line ends in a row are never sent.           *)
BlanksRaw(b) == {i \in DOMAIN b : i > 1 /\ b[i] = LF /\ b[i - 1] = LF}
Blanks(b) ==
    BlanksRaw(b) \cup
    {i \in DOMAIN b : i > 2 /\ b[i] = LF /\ b[i - 1] = CR /\ b[i - 2] = LF}

(* Where the block starts that position i belongs to or ends.                *)
BlockStart(blanks, i) == Max({0} \cup {k \in blanks : k < i}) + 1

(* The events of the blocks that ended up to each position of b.             *)
Emitted(b, blanks) ==
    LET emitted[i \in 0..Len(b)] ==
            IF i = 0 THEN <<>>
            ELSE emitted[i - 1] \o
                 (IF i \in blanks THEN Parsed(SubSeq(b, BlockStart(blanks, i), i)) ELSE <<>>)
    IN emitted

(* drain: the events of the blocks that ended, and what stays in the buffer. *)
DrainAt(b, blanks) ==
    [events |-> Emitted(b, blanks)[Len(b)],
     rest |-> SubSeq(b, BlockStart(blanks, Len(b) + 1), Len(b))]

(* Fault: CR LF is not taken for a line end.                                 *)
DrainRaw(b) == DrainAt(b, BlanksRaw(b))

Drain(b) == DrainAt(b, Blanks(b))

(* What the end of the stream leaves in the buffer is a block, too.          *)
Flush(b) == Parsed(b)

(* What one event shows.                                                     *)
Show(v, e) ==
    CASE e.type = "progress" -> [v EXCEPT !.percent = e.percent]
      [] e.type = "done" -> [state |-> "done", percent |-> Total]
      [] e.type = "error" -> [v EXCEPT !.state = "error"]

(* What is shown after each of some events.                                  *)
Showing(v, events) ==
    LET showing[n \in 0..Len(events)] ==
            IF n = 0 THEN v ELSE Show(showing[n - 1], events[n])
    IN showing
ShowAll(v, events) == Showing(v, events)[Len(events)]

-----------------------------------------------------------------------------
(* The button is enabled again as soon as the last event has been shown.     *)
Start(r) ==
    /\ view.state # "running"
    /\ reader[r] = "none" /\ \A q \in Starts : q < r => reader[q] # "none"
    /\ reader' = [reader EXCEPT ![r] = "asking"]
    /\ view' = [state |-> "running", percent |-> 0]
    /\ hasty' = (hasty \/ \E q \in Starts : q < r /\ reader[q] # "over")
    /\ UNCHANGED <<downloadVars, taken, buffer, handled, cuts>>

Opened(r) ==
    /\ reader[r] = "asking"
    /\ reader' = [reader EXCEPT ![r] = "reading"]
    /\ PostDownload(r)
    /\ UNCHANGED <<taken, buffer, handled, cuts, view, hasty>>

(* A chunk: what was sent up to the end of a frame or, a few times, up to    *)
(* anywhere.                                                                 *)
Read(r) ==
    /\ reader[r] = "reading"
    /\ \E n \in (taken[r] + 1)..Len(wire[r]) :
       \E drained \in {Drain(buffer[r] \o SubSeq(wire[r], taken[r] + 1, n))} :
          LET whole == n = Len(wire[r]) \/ \E i \in DOMAIN frames[r] : frames[r][i].end = n
          IN /\ whole \/ cuts < MaxCuts
             /\ cuts' = IF whole THEN cuts ELSE cuts + 1
             /\ taken' = [taken EXCEPT ![r] = n]
             /\ buffer' = [buffer EXCEPT ![r] = drained.rest]
             /\ handled' = [handled EXCEPT ![r] = @ \o drained.events]
             /\ view' = ShowAll(view, drained.events)
    /\ UNCHANGED <<downloadVars, reader, hasty>>

(* The stream is over: what is left is flushed, and a download that is still *)
(* shown as running is shown as done.                                        *)
EndOfStream(r) ==
    LET shown == ShowAll(view, Flush(buffer[r]))
    IN /\ reader[r] = "reading"
       /\ stream[r] = "ended" /\ taken[r] = Len(wire[r])
       /\ reader' = [reader EXCEPT ![r] = "over"]
       /\ buffer' = [buffer EXCEPT ![r] = <<>>]
       /\ handled' = [handled EXCEPT ![r] = @ \o Flush(buffer[r])]
       /\ view' = [shown EXCEPT !.state = IF @ = "running" THEN "done" ELSE @]
       /\ UNCHANGED <<downloadVars, taken, cuts, hasty>>

(* The request is refused, or the connection breaks under the reader.        *)
Gone(r) ==
    /\ \/ reader[r] = "asking"
       \/ reader[r] = "reading" /\ stream[r] = "broken"
    /\ reader' = [reader EXCEPT ![r] = "over"]
    /\ buffer' = [buffer EXCEPT ![r] = <<>>]
    /\ UNCHANGED <<downloadVars, taken, handled, cuts, hasty>>

(* Fault: a download that breaks is not caught.                              *)
ThrowUnseen(r) == Gone(r) /\ UNCHANGED view

Throw(r) == Gone(r) /\ view' = [view EXCEPT !.state = "error"]
=============================================================================
