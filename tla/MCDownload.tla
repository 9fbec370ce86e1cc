----------------------------- MODULE MCDownload -----------------------------
(***************************************************************************)
(* Two downloads, of which the second may be started before the first one's *)
(* stream has ended, for TLC.                                               *)
(***************************************************************************)
EXTENDS DownloadSystem

CONSTANT h1   \* model value

(* What sse-starlette sends, and the other extreme api.js provides for.      *)
MCStyles == {[crlf |-> TRUE, blankAtEnd |-> TRUE], [crlf |-> FALSE, blankAtEnd |-> FALSE]}

(* Bound: only the first download gets keep-alives and chunks that end       *)
(* inside a frame; the two share nothing but the screen.                     *)
FirstDisturbed ==
    /\ pings' # pings => wire'[2] = wire[2]
    /\ cuts' # cuts => taken'[2] = taken[2]
=============================================================================
