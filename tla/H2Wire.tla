------------------------------- MODULE H2Wire -------------------------------
(***************************************************************************)
(* What an HTTP/2 connection promises its peer about the responses, in     *)
(* terms of the frames on the wire and nothing else: a response is HEADERS,*)
(* DATA and an END_STREAM in that order, nothing follows an END_STREAM but *)
(* RST_STREAM, and DATA is only written within the window the peer has     *)
(* granted the connection and the window it has granted the stream.        *)
(* H2Connection is shown to implement it.                                  *)
(***************************************************************************)
EXTENDS Integers

CONSTANT StreamIds

VARIABLES
    open,           \* the connection handles frames
    credit,         \* connection window: granted minus written
    stream_credit,  \* stream windows: granted minus written
    wire            \* the kinds of frames written for each stream

vars == <<open, credit, stream_credit, wire>>

Init ==
    /\ open = TRUE
    /\ credit \in Nat
    /\ stream_credit \in [StreamIds -> Nat]
    /\ wire = [id \in StreamIds |-> {}]

Add(id, frames) == wire' = [wire EXCEPT ![id] = @ \cup frames]

\* The peer grants connection window.
Grant ==
    /\ open
    /\ credit' > credit
    /\ UNCHANGED <<open, stream_credit, wire>>

\* The peer sets the windows of new streams or raises the windows of old ones.
GrantStreams ==
    /\ open
    /\ stream_credit' \in [StreamIds -> Int]
    /\ \A id \in StreamIds : "headers" \in wire[id] => stream_credit'[id] >= stream_credit[id]
    /\ UNCHANGED <<open, credit, wire>>

Headers(id, end) ==
    /\ open
    /\ "headers" \notin wire[id]
    /\ Add(id, {"headers"} \cup end)
    /\ UNCHANGED <<open, credit, stream_credit>>

Data(id, n, end) ==
    /\ open
    /\ "headers" \in wire[id] /\ "end_stream" \notin wire[id]
    /\ n > 0 => n <= credit /\ n <= stream_credit[id]
    /\ credit' = credit - n
    /\ stream_credit' = [stream_credit EXCEPT ![id] = @ - n]
    /\ Add(id, {"data"} \cup end)
    /\ UNCHANGED open

Rst(id) ==
    /\ open
    /\ Add(id, {"rst"})
    /\ open' \in BOOLEAN   \* the last stream of a shutdown may be a failed one
    /\ UNCHANGED <<credit, stream_credit>>

Close ==
    /\ open
    /\ ~open'
    /\ UNCHANGED <<credit, stream_credit, wire>>

Next ==
    \/ Grant \/ GrantStreams \/ Close
    \/ \E id \in StreamIds, end \in {{}, {"end_stream"}} :
           Headers(id, end) \/ Data(id, credit - credit', end) \/ Rst(id)

Spec == Init /\ [][Next]_vars
=============================================================================
