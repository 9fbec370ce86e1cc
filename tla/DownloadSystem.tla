--------------------------- MODULE DownloadSystem ---------------------------
(***************************************************************************)
(* A model download from the button to the files and back to the screen.    *)
(***************************************************************************)
EXTENDS DownloadClient

allDownloadVars == <<downloadVars, clientVars>>

SystemInit == DownloadInit /\ ClientInit

(* What the program does by itself.                                          *)
Run(r) ==
    \/ (Work(r) \/ Forward(r)) /\ UNCHANGED clientVars
    \/ Opened(r) \/ EndOfStream(r) \/ Throw(r) \/ Read(r)

DownloadNext ==
    \E r \in Starts :
        \/ Start(r)
        \/ Run(r)
        \/ (Ping(r) \/ Break(r)) /\ UNCHANGED clientVars

(* Neither the browser nor the backend stops for good while a download has   *)
(* a step to take, HuggingFace's part of it included, which succeeds or      *)
(* fails; nobody has to press the button.                                    *)
DownloadSpec ==
    /\ SystemInit
    /\ [][DownloadNext]_allDownloadVars
    /\ WF_allDownloadVars(\E r \in Starts : Run(r))

DownloadTypeOK ==
    /\ style \in Styles
    /\ fetch \in [Starts -> [Threads -> 0..Reported]]
    /\ accrued \in [Starts -> 0..Total]
    /\ worker \in [Starts -> {"none", "running", "told", "over"}]
    /\ \A r \in Starts : \A i \in DOMAIN queue[r] :
          /\ queue[r][i] \in Messages \cup {Sentinel}
          /\ queue[r][i] = Sentinel => i = Len(queue[r])
    /\ stream \in [Starts -> {"none", "open", "ended", "broken"}]
    /\ pings \in 0..MaxPings /\ cuts \in 0..MaxCuts
    /\ reader \in [Starts -> {"none", "asking", "reading", "over"}]
    /\ \A r \in Starts :
          /\ taken[r] \in 0..Len(wire[r]) /\ Len(buffer[r]) <= taken[r]
          /\ reader[r] # "reading" => buffer[r] = <<>>
          /\ reader[r] \in {"none", "asking"} => wire[r] = <<>>
    /\ view \in [state : {"idle", "running", "done", "error"}, percent : 0..Total]
    /\ hasty \in BOOLEAN

-----------------------------------------------------------------------------
(* The events whose frames have been read to the end.                        *)
Due(r) ==
    LET arrived == {i \in DOMAIN frames[r] : frames[r][i].end <= taken[r]}
    IN [i \in arrived |-> frames[r][i].event]

(* Whatever the chunks and the line ends, each event is handled once, in     *)
(* order, when the last symbol of its frame has been read; only a last frame *)
(* without its blank line waits for the end of the stream (api.js:61-64).    *)
EventsHandledOnce ==
    \A r \in Starts :
        \/ handled[r] = Due(r)
        \/ /\ reader[r] # "over" \/ stream[r] # "ended"
           /\ ~style.blankAtEnd /\ Due(r) # <<>>
           /\ IsLast(Last(Due(r))) /\ handled[r] = Front(Due(r))

(* "done" is shown only for a download that put its model on disk, with the  *)
(* bar at its end whatever order the snapshots came in, as long as the next  *)
(* download waits for the end of the stream.                                 *)
DoneMeansDownloaded ==
    view.state = "done" /\ ~hasty =>
        /\ view.percent = Total
        /\ \E r \in Starts :
              /\ reader[r] # "none" /\ \A q \in Starts : q > r => reader[q] = "none"
              /\ \A h \in Threads : fetch[r][h] = Reported
              /\ worker[r] \in {"told", "over"}

(* Every download that was started stops being shown as running.             *)
DownloadSettles == view.state = "running" ~> view.state # "running"
=============================================================================
