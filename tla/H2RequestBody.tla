--------------------------- MODULE H2RequestBody ---------------------------
(***************************************************************************)
(* The receiving half of an HTTP/2 connection: the DATA frames of request  *)
(* bodies and the windows the server grants for them.                      *)
(*                                                                         *)
(*   peer --DATA--> main_loop --rx[id]--> Stream --background[id]-->       *)
(*        BackgroundRead (the body the handler reads) --window_rx[id]-->   *)
(*        Stream --UpdatePeerWindow--> main_loop --WINDOW_UPDATE--> peer   *)
(*                                                                         *)
(* A byte of data travels this circle once: its window comes back when the *)
(* frame it came with has been read to the end (or dropped).  The padding  *)
(* of a frame does not: the peer pays for it, but it is cut off before the *)
(* frame is counted, and nobody ever gives its window back.                *)
(* Streams are opened and closed as in H2Connection, of which only what    *)
(* concerns a body is kept: whether the task still serves, has returned    *)
(* from main, or has exited, and whether the connection has its handle.    *)
(* Nothing is said of what happens after main_loop has returned, nor before *)
(* the peer has processed the server's SETTINGS: until then it counts       *)
(* 65,535 for each stream.                                                 *)
(***************************************************************************)
EXTENDS Integers, Sequences, FiniteSets, Sums

CONSTANTS
    StreamIds,
    GlobalPeerWindow,  \* h2_initial_global_window_size
    PeerWindow,        \* local_settings.initial_window_size
    MaxInt,            \* i32::MAX
    Sizes,             \* content-length of requests
    NoSize,            \* a body without content-length
    Frames,            \* DATA frames: <<length of the data, of the padding>>
    MaxRead,           \* the largest buffer a reader of a body offers
    Overdraft,         \* how far the peer goes beyond its windows
    MaxPadding,        \* bound: padding of all frames together
    MaxQueued          \* bound: messages on their way when the peer sends more

ASSUME RequestBodyAssumption ==
    /\ IsFiniteSet(StreamIds)
    /\ MaxInt \in Nat
    /\ GlobalPeerWindow \in 0..MaxInt /\ PeerWindow \in 0..MaxInt
    /\ Sizes \subseteq Nat /\ NoSize \notin Nat
    /\ Frames \subseteq Nat \X Nat
    /\ MaxRead \in Nat /\ MaxPadding \in Nat /\ Overdraft \in Nat /\ MaxQueued \in Nat

VARIABLES
    \* The connection task.
    exit, peer_window,
    streams,        \* the ids with a handle
    conn_rx,        \* the requests of the stream tasks that concern bodies
    \* The stream tasks.
    task, rx, window_rx,
    \* The request bodies, in the hands of the handlers.
    body, background,
    \* The peer.
    credit, stream_credit,
    overdrawn,      \* it has sent more than it was granted
    padding         \* history: what it has paid for padding

connVars == <<exit, peer_window, streams>>
bodyVars == <<body, background>>
peerVars == <<credit, stream_credit, overdrawn, padding>>
vars == <<connVars, conn_rx, task, rx, window_rx, bodyVars, peerVars>>

Running == exit = "running"

Serving(id) == task[id].at = "serving"
Exited(id) == task[id].at = "exited"

\* BackgroundRead.update_window: lost when the stream task has gone.
UpdateWindow(id, n) ==
    window_rx' = [window_rx EXCEPT ![id] = IF Exited(id) THEN @ ELSE Append(@, n)]

NoBody == [state |-> "none", size |-> NoSize, read |-> 0, len |-> 0, unread |-> 0]

Init ==
    /\ exit = "running" /\ peer_window = GlobalPeerWindow
    /\ streams = {} /\ conn_rx = << >>
    /\ task = [id \in StreamIds |-> [at |-> "unused", peer_window |-> 0, error |-> "none"]]
    /\ rx = [id \in StreamIds |-> << >>]
    /\ window_rx = [id \in StreamIds |-> << >>]
    /\ body = [id \in StreamIds |-> NoBody]
    /\ background = [id \in StreamIds |-> << >>]
    /\ credit = GlobalPeerWindow
    /\ stream_credit = [id \in StreamIds |-> PeerWindow]
    /\ overdrawn = FALSE /\ padding = [id \in StreamIds |-> 0]

-----------------------------------------------------------------------------
(* The connection task. *)

\* A request that announces a body, or one that does not: Body::default().
OpenStream(id) ==
    /\ Running /\ task[id].at = "unused"
    /\ streams' = streams \cup {id}
    /\ task' = [task EXCEPT ![id].at = "serving", ![id].peer_window = PeerWindow]
    /\ \/ \E size \in Sizes \cup {NoSize} :
              body' = [body EXCEPT ![id].state = "held", ![id].size = size]
       \/ UNCHANGED body
    /\ UNCHANGED <<exit, peer_window, conn_rx, rx, window_rx, background, peerVars>>

\* The data arm, after its checks.
Receive(id, n) ==
    /\ rx' = [rx EXCEPT ![id] = Append(@, n)]
    /\ peer_window' = peer_window - n
    /\ UNCHANGED exit

Refuse(how) == exit' = how /\ UNCHANGED <<peer_window, rx>>

\* Window the peer has paid for padding.
Spoilt == Over(StreamIds, padding)

\* What the peer counts is the whole payload of the frame: "pad" is its padding with
\* the byte for its length.
Pay(id, n, pad) ==
    /\ Spoilt + pad <= MaxPadding
    /\ n + pad <= credit + Overdraft /\ n + pad <= stream_credit[id] + Overdraft
    /\ overdrawn' = (overdrawn \/ n + pad > credit \/ n + pad > stream_credit[id])
    /\ credit' = credit - (n + pad)
    /\ stream_credit' = [stream_credit EXCEPT ![id] = @ - (n + pad)]
    /\ padding' = [padding EXCEPT ![id] = @ + pad]

\* Mutant: the window of the connection is not checked.
RecvData_Unchecked(id, n, pad) ==
    /\ Running /\ task[id].at # "unused"
    /\ MaxQueued > Len(rx[id]) + Len(background[id]) + Cardinality({body[id].len} \ {0})
                       + Len(window_rx[id]) + Len(conn_rx)
    /\ Pay(id, n, pad)
    /\ IF id \notin streams THEN Refuse("stream closed")
       ELSE IF Exited(id) THEN Refuse("stream error")
       ELSE Receive(id, n)
    /\ UNCHANGED <<streams, conn_rx, task, window_rx, bodyVars>>

\* A DATA frame: of a stream without a handle, beyond the window, of a task that
\* has exited, or for the task.  from_header_and_payload has cut its padding off.
RecvData(id, n, pad) ==
    /\ Running /\ task[id].at # "unused"
    /\ MaxQueued > Len(rx[id]) + Len(background[id]) + Cardinality({body[id].len} \ {0})
                       + Len(window_rx[id]) + Len(conn_rx)
    /\ Pay(id, n, pad)
    /\ IF id \notin streams THEN Refuse("stream closed")
       ELSE IF n > peer_window THEN Refuse("flow control")
       ELSE IF Exited(id) THEN Refuse("stream error")
       ELSE Receive(id, n)
    /\ UNCHANGED <<streams, conn_rx, task, window_rx, bodyVars>>

\* UpdatePeerWindow: WINDOW_UPDATE frames for the connection and for the stream.
UpdatePeerWindow ==
    LET req == Head(conn_rx) IN
    /\ Running /\ conn_rx # << >> /\ req.kind = "UpdatePeerWindow"
    /\ conn_rx' = Tail(conn_rx)
    /\ IF peer_window + req.amount > MaxInt
       THEN exit' = "overflow" /\ UNCHANGED <<peer_window, credit, stream_credit>>
       ELSE /\ peer_window' = peer_window + req.amount
            /\ credit' = credit + req.amount
            /\ stream_credit' = [stream_credit EXCEPT ![req.id] = @ + req.amount]
            /\ UNCHANGED exit
    /\ UNCHANGED <<streams, task, rx, window_rx, bodyVars, overdrawn, padding>>

\* StreamClosing with a connection error.
StreamFailed ==
    /\ Running /\ conn_rx # << >> /\ Head(conn_rx).kind = "StreamClosing"
    /\ conn_rx' = Tail(conn_rx)
    /\ exit' = task[Head(conn_rx).id].error
    /\ UNCHANGED <<peer_window, streams, task, rx, window_rx, bodyVars, peerVars>>

StreamClosed ==
    /\ Running /\ conn_rx # << >> /\ Head(conn_rx).kind = "StreamClosed"
    /\ conn_rx' = Tail(conn_rx)
    /\ streams' = streams \ {Head(conn_rx).id}
    /\ UNCHANGED <<exit, peer_window, task, rx, window_rx, bodyVars, peerVars>>

-----------------------------------------------------------------------------
(* The stream task: main_select while main runs. *)

Fails(id, error) ==
    /\ task' = [task EXCEPT ![id].at = "ending", ![id].error = error]
    /\ UNCHANGED background

\* Mutant: the window of the stream is not charged.
PassOn_Uncharged(id, n) ==
    /\ background' = [background EXCEPT ![id] = Append(@, n)]
    /\ UNCHANGED task

\* To the BackgroundRead.  (The send cannot fail: whoever drops the body leaves
\* a task behind that keeps the receiver as long as the sender lives.)
PassOn(id, n) ==
    /\ background' = [background EXCEPT ![id] = Append(@, n)]
    /\ task' = [task EXCEPT ![id].peer_window = @ - n]

\* handle_req, RequestBody.
HandleRequestBody(id) ==
    LET n == Head(rx[id]) IN
    /\ Running /\ Serving(id) /\ rx[id] # << >>
    /\ rx' = [rx EXCEPT ![id] = Tail(@)]
    /\ IF body[id].state = "none" THEN Fails(id, "no body")
       ELSE IF n > task[id].peer_window THEN Fails(id, "flow control")
       ELSE PassOn(id, n)
    /\ UNCHANGED <<connVars, conn_rx, window_rx, body, peerVars>>

\* Mutant: the stream forgets what it has granted.
ForwardWindow_Stale(id) ==
    LET n == Head(window_rx[id]) IN
    /\ Running /\ Serving(id) /\ window_rx[id] # << >>
    /\ window_rx' = [window_rx EXCEPT ![id] = Tail(@)]
    /\ conn_rx' = Append(conn_rx, [kind |-> "UpdatePeerWindow", id |-> id, amount |-> n])
    /\ UNCHANGED <<connVars, task, rx, bodyVars, peerVars>>

\* Mutant: the connection is not told.
ForwardWindow_Silent(id) ==
    LET n == Head(window_rx[id]) IN
    /\ Running /\ Serving(id) /\ window_rx[id] # << >>
    /\ window_rx' = [window_rx EXCEPT ![id] = Tail(@)]
    /\ task' = [task EXCEPT ![id].peer_window = @ + n]
    /\ UNCHANGED <<connVars, conn_rx, rx, bodyVars, peerVars>>

\* Window that comes back from the body.
ForwardWindow(id) ==
    LET n == Head(window_rx[id]) IN
    /\ Running /\ Serving(id) /\ window_rx[id] # << >>
    /\ window_rx' = [window_rx EXCEPT ![id] = Tail(@)]
    /\ task' = [task EXCEPT ![id].peer_window = @ + n]
    /\ conn_rx' = Append(conn_rx, [kind |-> "UpdatePeerWindow", id |-> id, amount |-> n])
    /\ UNCHANGED <<connVars, rx, bodyVars, peerVars>>

\* main returns: the response is sent, whether the body was read or not.
Finish(id) ==
    /\ Running /\ Serving(id)
    /\ task' = [task EXCEPT ![id].at = "ending"]
    /\ UNCHANGED <<connVars, conn_rx, rx, window_rx, bodyVars, peerVars>>

\* The end of run_inner: StreamClosing, StreamClosed, and the receivers go.
\* (A StreamClosing without an error is left to H2Connection.)
Exit(id) ==
    /\ Running /\ task[id].at = "ending"
    /\ task' = [task EXCEPT ![id].at = "exited"]
    /\ conn_rx' = conn_rx \o
           (IF task[id].error = "none" THEN << >>
            ELSE <<[kind |-> "StreamClosing", id |-> id, amount |-> 0]>>)
           \o <<[kind |-> "StreamClosed", id |-> id, amount |-> 0]>>
    /\ rx' = [rx EXCEPT ![id] = << >>]
    /\ window_rx' = [window_rx EXCEPT ![id] = << >>]
    /\ UNCHANGED <<connVars, bodyVars, peerVars>>

-----------------------------------------------------------------------------
(* The handler and its body: LimitReader around BackgroundRead. *)

Remaining(id, want) ==
    IF body[id].size = NoSize \/ want <= body[id].size - body[id].read THEN want
    ELSE body[id].size - body[id].read

\* Hand out up to "want" bytes of a frame; its window goes back with its last.
HandOut(id, len, unread, want) ==
    LET amount == IF unread < Remaining(id, want) THEN unread ELSE Remaining(id, want)
        done == amount = unread
    IN /\ body' = [body EXCEPT ![id].read = IF body[id].size = NoSize THEN 0 ELSE @ + amount,
                               ![id].len = IF done THEN 0 ELSE len,
                               ![id].unread = unread - amount]
       /\ IF done THEN UpdateWindow(id, len) ELSE UNCHANGED window_rx

\* poll_read: from the frame at hand, else from the next one.  An empty frame
\* returns no bytes and no window.  At the limit nothing is polled any more.
Read(id, want) ==
    /\ Running /\ body[id].state \in {"held", "returned"} /\ Remaining(id, want) > 0
    /\ IF body[id].unread > 0
       THEN HandOut(id, body[id].len, body[id].unread, want) /\ UNCHANGED background
       ELSE /\ background[id] # << >>
            /\ background' = [background EXCEPT ![id] = Tail(@)]
            /\ LET n == Head(background[id]) IN
               IF n > 0 THEN HandOut(id, n, n, want) ELSE UNCHANGED <<body, window_rx>>
    /\ UNCHANGED <<connVars, conn_rx, task, rx, peerVars>>

\* The body is the body of the response: send_body reads it as far as the send
\* window allows.
ReturnBody(id) ==
    /\ Running /\ Serving(id) /\ body[id].state = "held"
    /\ body' = [body EXCEPT ![id].state = "returned"]
    /\ UNCHANGED <<connVars, conn_rx, task, rx, window_rx, background, peerVars>>

\* Mutant: the frame at hand is not given back.
DropBody_Leak(id) ==
    /\ Running /\ body[id].state \in {"held", "returned"}
    /\ body' = [body EXCEPT ![id].state = "draining", ![id].len = 0, ![id].unread = 0]
    /\ UNCHANGED window_rx
    /\ UNCHANGED <<connVars, conn_rx, task, rx, background, peerVars>>

\* BackgroundRead's drop: the frame at hand, then a task for those to come.
DropBody(id) ==
    /\ Running /\ body[id].state \in {"held", "returned"}
    /\ body' = [body EXCEPT ![id].state = "draining", ![id].len = 0, ![id].unread = 0]
    /\ IF body[id].unread > 0 THEN UpdateWindow(id, body[id].len) ELSE UNCHANGED window_rx
    /\ UNCHANGED <<connVars, conn_rx, task, rx, background, peerVars>>

Drain(id) ==
    /\ Running /\ body[id].state = "draining" /\ background[id] # << >>
    /\ background' = [background EXCEPT ![id] = Tail(@)]
    /\ UpdateWindow(id, Head(background[id]))
    /\ UNCHANGED <<connVars, conn_rx, task, rx, body, peerVars>>

-----------------------------------------------------------------------------

Connection == UpdatePeerWindow \/ StreamFailed \/ StreamClosed

Stream(id) == HandleRequestBody(id) \/ ForwardWindow(id) \/ Finish(id) \/ Exit(id)

Consume(id) == (\E want \in 1..MaxRead : Read(id, want)) \/ DropBody(id)

Handler(id) == Consume(id) \/ ReturnBody(id)

Next ==
    \/ \E id \in StreamIds : \/ OpenStream(id)
                             \/ \E f \in Frames : RecvData(id, f[1], f[2])
                             \/ Stream(id) \/ Handler(id) \/ Drain(id)
    \/ Connection

Spec == Init /\ [][Next]_vars

\* The runtime passes over no task that is ready.  The handler goes on reading
\* its body or drops it, at the latest when handler_timeout drops the handler (a
\* body it has moved to a task of its own is not modelled).  Nothing makes
\* send_body go on reading a body that is returned: its peer may grant no window.
Fairness ==
    /\ WF_vars(Connection)
    /\ \A id \in StreamIds :
           /\ WF_vars(HandleRequestBody(id)) /\ WF_vars(ForwardWindow(id))
           /\ WF_vars(body[id].state = "held" /\ Consume(id)) /\ WF_vars(Drain(id))

FairSpec == Spec /\ Fairness

-----------------------------------------------------------------------------
(* Properties. *)

Amounts == [kind : {"UpdatePeerWindow", "StreamClosing", "StreamClosed"},
            id : StreamIds, amount : Nat]

\* The type of every variable.
TypeOK ==
    /\ exit \in {"running", "stream closed", "flow control", "stream error",
                 "overflow", "no body"}
    /\ peer_window \in 0..MaxInt
    /\ streams \subseteq StreamIds
    /\ conn_rx \in Seq(Amounts)
    /\ task \in [StreamIds -> [at : {"unused", "serving", "ending", "exited"},
                               peer_window : Nat,
                               error : {"none", "flow control", "no body"}]]
    /\ rx \in [StreamIds -> Seq(Nat)]
    /\ window_rx \in [StreamIds -> Seq(Nat)]
    /\ background \in [StreamIds -> Seq(Nat)]
    /\ body \in [StreamIds -> [state : {"none", "held", "returned", "draining"},
                               size : Nat \cup {NoSize}, read : Nat,
                               len : Nat, unread : Nat]]
    /\ credit \in Int /\ stream_credit \in [StreamIds -> Int]
    /\ overdrawn \in BOOLEAN /\ padding \in [StreamIds -> Nat]

\* Window on its way back to the peer.
Returning(ids) ==
    Total[[i \in DOMAIN conn_rx |->
               IF conn_rx[i].id \in ids THEN conn_rx[i].amount ELSE 0]]

\* Body data the server holds for a stream, and the window of data it has read.
Buffered(id) == Total[rx[id]] + Total[background[id]] + body[id].len

Outstanding == Over(StreamIds, [id \in StreamIds |-> Buffered(id) + Total[window_rx[id]]])

NoneEnded == \A id \in StreamIds : task[id].at \in {"unused", "serving"}

\* The connection's receive window is with the peer, lost to padding, with the data
\* the server holds or on its way back: none of it comes back twice, and none is
\* lost otherwise while no stream has ended.  (What a stream holds when its main
\* returns never comes back, and padding never does.)
ReceiveWindowConserved ==
    Running =>
        /\ credit + Spoilt = peer_window
        /\ peer_window + Outstanding + Returning(StreamIds) <= GlobalPeerWindow
        /\ NoneEnded => peer_window + Outstanding + Returning(StreamIds) = GlobalPeerWindow

\* The stream's peer_window, the peer's view of it and the messages in between
\* agree but for the padding, although it is charged and refilled in another task
\* than the one that talks to the peer.
StreamWindowAgrees ==
    \A id \in StreamIds : Running /\ Serving(id) =>
        stream_credit[id] + padding[id]
            = task[id].peer_window - Total[rx[id]] - Returning({id})

\* A peer that stays within the windows it was granted is never accused of a
\* flow control error.
NoFalseAccusation ==
    overdrawn \/ (exit # "flow control" /\ \A id \in StreamIds : task[id].error # "flow control")

\* A peer that keeps to its windows and has used up the connection's gets some of it
\* back, unless its padding has cost it all there was, a body is read at the pace of
\* a response, a stream took some along when it ended or the connection fails.
UploadResumes ==
    credit = 0 ~>
        \/ credit > 0 \/ overdrawn \/ ~Running \/ ~NoneEnded
        \/ Spoilt >= GlobalPeerWindow
        \/ \E id \in StreamIds : body[id].state = "returned"
=============================================================================
