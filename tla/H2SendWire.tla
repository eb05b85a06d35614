----------------------------- MODULE H2SendWire -----------------------------
(***************************************************************************)
(* H2Connection shown to implement H2Wire.                                 *)
(*                                                                         *)
(* A SETTINGS frame that lowers the initial window lowers the windows of   *)
(* the open streams, but a task that has asked the connection for window   *)
(* before it hears of that gets what it asked for and sends it             *)
(* (send_body, stream.rs 418-437, looks at available_window alone), so the *)
(* window of a stream may be overdrawn.  What the peer can rely on is the  *)
(* highest window it has given the stream; the history variable "lowered"  *)
(* says how far below it the window is.                                    *)
(***************************************************************************)
EXTENDS H2SendWindow

VARIABLE lowered

\* What is left of n after a change by dif: a window that is raised again has
\* less to catch up with, and never more than its highest.
Below(n, dif) == IF dif < n THEN n - dif ELSE 0

HistoryInit == Init /\ lowered = [id \in StreamIds |-> 0]

\* Only SETTINGS change initial_window_size, and with it the windows of the
\* streams that have a handle (or none, when a stream of them is gone).
HistoryNext ==
    /\ Next
    /\ lowered' = [id \in StreamIds |->
           IF streams[id] # NoTask /\ Running'
           THEN Below(lowered[id], initial_window_size' - initial_window_size)
           ELSE lowered[id]]

HistorySpec == HistoryInit /\ [][HistoryNext]_<<vars, lowered>>

HighestCredit == [id \in StreamIds |-> stream_credit[id] + lowered[id]]

Wire == INSTANCE H2Wire WITH open <- Running, stream_credit <- HighestCredit

\* The connection keeps the promise of H2Wire to its peer: whatever the tasks
\* and the connection do between them, DATA stays within the window of the
\* connection and the highest window of its stream, and the frames of a response
\* come in order.
WireSpec == Wire!Spec
=============================================================================
