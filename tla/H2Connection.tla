---------------------------- MODULE H2Connection ----------------------------
(***************************************************************************)
(* The sending half of an HTTP/2 connection: http2::Connection::main_loop  *)
(* (the connection task, the only one that touches the socket), one        *)
(* http2::stream::Stream task per accepted request, and the unbounded      *)
(* channels between them.                                                  *)
(*                                                                         *)
(*    peer --frames--> connection task --StreamReq (rx[t])--> stream task  *)
(*    wire <--frames-- connection task <--ConnectionReq (conn_rx)-- streams*)
(*                                                                         *)
(* Modelled: opening, refusing and resetting streams, the response, the    *)
(* distribution of the connection's send window, the end of a stream,      *)
(* SETTINGS_INITIAL_WINDOW_SIZE, graceful shutdown and the end of the      *)
(* connection.  Request bodies and the timers are components of their own; *)
(* what they can do to this one is to end the connection with an error,    *)
(* the action ConnectionFails.                                             *)
(*                                                                         *)
(* One action is what a task does between two points where others can see  *)
(* it: a send on a channel, a receive, an iteration of the loop that       *)
(* distributes the window.                                                 *)
(***************************************************************************)
EXTENDS Integers, Sequences, FiniteSets

CONSTANTS
    StreamIds,      \* stream identifiers the peer uses
    Tasks,          \* stream tasks the connection can spawn
    NoTask,         \* an id without a handle in Connection.streams
    MaxInt,         \* i32::MAX
    GlobalWindow,   \* 65535: the connection's send window at the start
    StreamWindow,   \* 65535: initial_window_size before the peer's SETTINGS
    InitialWindows, \* values of SETTINGS_INITIAL_WINDOW_SIZE the peer sends
    Increments,     \* values of WINDOW_UPDATE the peer sends
    MaxConcurrent,  \* h2_settings.max_concurrent_streams
    MaxBody,        \* longest response body
    MaxChunk,       \* size of send_body's buffer
    PeerSends,      \* the kinds of input the peer and the server produce
    MaxQueued       \* bound: the peer waits while a task has this much unread

Inputs == {"HEADERS", "MALFORMED", "UNDECODABLE", "TRAILERS", "REOPEN",
           "WINDOW_UPDATE", "STREAM_WINDOW_UPDATE", "SETTINGS", "RST_STREAM",
           "GOAWAY", "OVERFLOW", "FAILURE", "SHUTDOWN", "FLUSH"}

InI32(i) == -MaxInt - 1 <= i /\ i <= MaxInt

ASSUME ConstantsAssumption ==
    /\ StreamIds \subseteq Nat \ {0}
    /\ IsFiniteSet(Tasks) /\ NoTask \notin Tasks
    /\ MaxInt \in Nat \ {0}
    /\ GlobalWindow \in 0..MaxInt /\ StreamWindow \in 0..MaxInt
    /\ InitialWindows \subseteq 0..MaxInt
    /\ Increments \subseteq 1..MaxInt
    /\ MaxConcurrent \in Nat
    /\ MaxBody \in Nat
    /\ MaxChunk \in 1..MaxInt
    /\ PeerSends \subseteq Inputs
    /\ MaxQueued \in Nat

VARIABLES
    \* The connection task.
    exit,              \* "running", or how main_loop was left
    distributing,      \* inside distribute_window's loop
    global_window, pending_window_req, streams, biggest_open_stream,
    open_streams, pending_gracefull_shutdown,
    initial_window_size,   \* remote_settings.initial_window_size
    conn_rx,           \* the channel of ConnectionReq
    shutdown,          \* the watch channel: has Server::run announced shutdown
    \* The stream tasks.
    task,              \* their local state
    rx,                \* their channels of StreamReq
    \* What the peer can tell, in the order the connection handles frames.
    credit,            \* connection window: granted minus DATA written
    stream_credit,     \* stream windows: granted minus DATA written
    wire,              \* which of the frames of a stream have been written
    unflushed,         \* some of them are still in the BufWriter
    peer_reset         \* streams the peer has sent RST_STREAM for

loopVars == <<exit, distributing>>
windowVars == <<global_window, pending_window_req>>
streamVars == <<streams, biggest_open_stream, open_streams>>
shutdownVars == <<pending_gracefull_shutdown, shutdown>>
taskVars == <<task, rx>>
wireVars == <<wire, unflushed>>
peerVars == <<credit, stream_credit, wireVars, peer_reset>>
vars == <<loopVars, windowVars, streamVars, shutdownVars, initial_window_size,
          conn_rx, taskVars, peerVars>>

-----------------------------------------------------------------------------
(* State. *)

Exits == {"running", "shutdown", "goaway", "failed", "protocol", "compression",
          "window overflow", "stream gone", "stream error", "stream reported",
          "underflow"}

\* StreamState in the code never changes; this is where the task stands.
Places == {"unused",     \* not spawned yet
           "handling",   \* get_response
           "reading",    \* send_body, waiting for the next chunk of the body
           "sending",    \* send_body, the inner loop
           "closing",    \* run_inner after main has returned
           "announced",  \* StreamClosing sent
           "exited"}     \* StreamClosed sent, the receiver dropped

Errors == {"none", "stream", "connection"}

Task == [at : Places, id : StreamIds \cup {0}, window : Int,
         available_window : Nat, window_needed : Nat, left : Nat, body : Nat,
         error : Errors]

\* ConnectionReq.  "from" is read by no handler: it tells the reader which task
\* sent the request, the code's requests carry the stream id only.
ConnectionReq ==
    [kind : {"Response", "Frame", "GetWindow", "PutWindow", "StreamClosing",
             "StreamClosed"},
     from : Tasks, id : StreamIds, amount : Nat, end_stream : BOOLEAN,
     error : Errors]

StreamReq == [kind : {"AvailableWindow", "Reset"}, amount : Nat]
                 \cup [kind : {"WindowUpdate"}, amount : Int]

Request(kind, t, amount, end_stream) ==
    [kind |-> kind, from |-> t, id |-> task[t].id, amount |-> amount,
     end_stream |-> end_stream, error |-> task[t].error]

Running == exit = "running"

\* The connection task waits in the select! of main_loop.
Selecting == Running /\ ~distributing

Alive(t) == task[t].at \notin {"unused", "exited"}

\* StreamHandle.tx.send succeeds while the task holds its receiver.
Tell(ts, req) ==
    rx' = [t \in Tasks |-> IF t \in ts /\ Alive(t) THEN Append(rx[t], req) ELSE rx[t]]

Handled == {streams[id] : id \in StreamIds} \ {NoTask}

\* Bound on the peer: it lets the tasks read before it sends more.
NoBacklog(ts) == \A t \in ts : Len(rx[t]) < MaxQueued

\* write_frame puts the frame into the BufWriter.
Write(id, frames) ==
    /\ wire' = [wire EXCEPT ![id] = @ \cup frames]
    /\ unflushed' = TRUE

Close(how) == exit' = how

\* main_loop returns and nothing else changes.
Leave(how) ==
    /\ Close(how)
    /\ UNCHANGED <<distributing, windowVars, streamVars, shutdownVars,
                   initial_window_size, conn_rx, taskVars, peerVars>>

\* Mutant: the test uses the window of before the update.
Distribute_Stale == distributing' = (global_window > 0 /\ pending_window_req' # << >>)

\* distribute_window: its loop runs while there is window and a request for it.
Distribute == distributing' = (global_window' > 0 /\ pending_window_req' # << >>)

Init ==
    /\ exit = "running"
    /\ distributing = FALSE
    /\ global_window = GlobalWindow
    /\ pending_window_req = << >>
    /\ streams = [id \in StreamIds |-> NoTask]
    /\ biggest_open_stream = 0
    /\ open_streams = 0
    /\ pending_gracefull_shutdown = FALSE
    /\ initial_window_size = StreamWindow
    /\ conn_rx = << >>
    /\ shutdown = "no"
    /\ task = [t \in Tasks |-> [at |-> "unused", id |-> 0, window |-> 0,
                                available_window |-> 0, window_needed |-> 0,
                                left |-> 0, body |-> 0, error |-> "none"]]
    /\ rx = [t \in Tasks |-> << >>]
    /\ credit = GlobalWindow
    /\ stream_credit = [id \in StreamIds |-> StreamWindow]
    /\ wire = [id \in StreamIds |-> {}]
    /\ unflushed = FALSE
    /\ peer_reset = {}

-----------------------------------------------------------------------------
(* Frames of the peer, handled by the connection task. *)

\* What the headers arm of main_loop checks before it reads the block.
LegalId(id) == id % 2 = 1 /\ (streams[id] = NoTask => id > biggest_open_stream)

\* Mutant: one stream too many.
MustRefuse_OffByOne == pending_gracefull_shutdown \/ open_streams > MaxConcurrent

MustRefuse == pending_gracefull_shutdown \/ open_streams >= MaxConcurrent

\* A peer opens each stream once; a second block on a stream whose handle is
\* still there is a trailer section, or a second request if it parses as one.
Sends(kind, id) ==
    /\ kind \in PeerSends
    /\ id \notin peer_reset
    /\ NoBacklog(Handled)
    /\ (streams[id] # NoTask) => kind \in {"TRAILERS", "REOPEN"}
    /\ (streams[id] = NoTask) => kind \in {"HEADERS", "MALFORMED", "UNDECODABLE"}

\* handle_possible_stream_error for an H2Error::Stream: Reset to the task, the
\* handle is dropped if that fails, RST_STREAM to the peer.
ResetStream(id) ==
    LET t == streams[id] IN
    /\ Tell({t}, [kind |-> "Reset", amount |-> 0])
    /\ streams' = [streams EXCEPT ![id] = IF t # NoTask /\ Alive(t) THEN t ELSE NoTask]
    /\ Write(id, {"rst"})

\* A HEADERS frame with an id that is even, or new and not above all others.
RecvIllegalHeaders(id, kind) ==
    /\ Selecting /\ Sends(kind, id)
    /\ ~LegalId(id)
    /\ Leave("protocol")

\* Refused because of a shutdown or of max_concurrent_streams, or
\* read_request answered with a stream error.
RecvRejectedHeaders(id, kind) ==
    /\ Selecting /\ Sends(kind, id)
    /\ LegalId(id)
    /\ MustRefuse \/ kind \in {"MALFORMED", "TRAILERS"}
    /\ ResetStream(id)
    /\ UNCHANGED <<loopVars, windowVars, biggest_open_stream, open_streams,
                   shutdownVars, initial_window_size, conn_rx, task, credit,
                   stream_credit, peer_reset>>

\* The HPACK decoder failed: a connection error.
RecvUndecodableHeaders(id) ==
    /\ Selecting /\ Sends("UNDECODABLE", id)
    /\ LegalId(id) /\ ~MustRefuse
    /\ Leave("compression")

\* A request: spawn the stream task, count it, (re)place the handle.
RecvRequest(id, kind, t) ==
    /\ Selecting /\ Sends(kind, id)
    /\ kind \in {"HEADERS", "REOPEN"}
    /\ LegalId(id) /\ ~MustRefuse
    /\ task[t].at = "unused"
    /\ biggest_open_stream' = IF id > biggest_open_stream THEN id ELSE biggest_open_stream
    /\ open_streams' = open_streams + 1
    /\ task' = [task EXCEPT ![t].at = "handling", ![t].id = id,
                            ![t].window = initial_window_size]
    /\ streams' = [streams EXCEPT ![id] = t]
    /\ stream_credit' = IF kind = "REOPEN" THEN stream_credit
                        ELSE [stream_credit EXCEPT ![id] = initial_window_size]
    /\ UNCHANGED <<loopVars, windowVars, shutdownVars, initial_window_size,
                   conn_rx, rx, credit, wireVars, peer_reset>>

\* WINDOW_UPDATE on stream 0: update_global_window, then distribute_window.
RecvGlobalWindowUpdate(n) ==
    /\ Selecting /\ "WINDOW_UPDATE" \in PeerSends
    /\ InI32(global_window + n) \/ "OVERFLOW" \in PeerSends
    /\ UNCHANGED pending_window_req
    /\ IF InI32(global_window + n)
       THEN /\ global_window' = global_window + n
            /\ credit' = credit + n
            /\ Distribute /\ UNCHANGED exit
       ELSE /\ Close("window overflow")
            /\ UNCHANGED <<distributing, global_window, credit>>
    /\ UNCHANGED <<streamVars, shutdownVars, initial_window_size, conn_rx,
                   taskVars, stream_credit, wireVars, peer_reset>>

\* WINDOW_UPDATE on a stream: to its task; if that has exited, a stream error.
RecvStreamWindowUpdate(id, n) ==
    /\ Selecting /\ "STREAM_WINDOW_UPDATE" \in PeerSends
    /\ id <= biggest_open_stream /\ id \notin peer_reset
    /\ NoBacklog(Handled)
    /\ IF streams[id] # NoTask /\ Alive(streams[id])
       THEN /\ Tell({streams[id]}, [kind |-> "WindowUpdate", amount |-> n])
            /\ stream_credit' = [stream_credit EXCEPT ![id] = @ + n]
            /\ UNCHANGED <<streams, wireVars>>
       ELSE /\ IF streams[id] # NoTask THEN ResetStream(id)
               ELSE UNCHANGED <<streams, rx, wireVars>>
            /\ UNCHANGED stream_credit
    /\ UNCHANGED windowVars /\ Distribute
    /\ UNCHANGED <<exit, biggest_open_stream, open_streams,
                   shutdownVars, initial_window_size, conn_rx, task, credit,
                   peer_reset>>

\* SETTINGS: every stream of the map gets the difference, in the order of a
\* HashMap.  The first send that fails leaves main_loop with the stream error.
RecvSettings(size) ==
    /\ Selecting /\ "SETTINGS" \in PeerSends
    /\ NoBacklog(Handled)
    /\ initial_window_size' = size
    /\ LET dif == size - initial_window_size IN
       IF \A t \in Handled : Alive(t)
       THEN /\ Tell(Handled, [kind |-> "WindowUpdate", amount |-> dif])
            /\ stream_credit' = [id \in StreamIds |->
                   IF streams[id] # NoTask THEN stream_credit[id] + dif
                   ELSE stream_credit[id]]
            /\ UNCHANGED exit
       ELSE /\ \E told \in SUBSET Handled :
                   Tell(told, [kind |-> "WindowUpdate", amount |-> dif])
            /\ Close("stream error")
            /\ UNCHANGED stream_credit
    /\ UNCHANGED <<distributing, windowVars, streamVars, shutdownVars,
                   conn_rx, task, credit, wireVars, peer_reset>>

\* RST_STREAM is parsed and logged, nothing else.  A peer that has reset a
\* stream sends nothing more on it.
RecvRstStream(id) ==
    /\ Selecting /\ "RST_STREAM" \in PeerSends
    /\ id <= biggest_open_stream /\ id \notin peer_reset
    /\ peer_reset' = peer_reset \cup {id}
    /\ UNCHANGED <<loopVars, windowVars, streamVars, shutdownVars,
                   initial_window_size, conn_rx, taskVars, credit,
                   stream_credit, wireVars>>

RecvGoAway ==
    /\ Selecting /\ "GOAWAY" \in PeerSends
    /\ Leave("goaway")

\* Any connection error raised by the parts modelled elsewhere: the reader,
\* the writer, the timers, request bodies.
ConnectionFails ==
    /\ Selecting /\ "FAILURE" \in PeerSends
    /\ Leave("failed")

-----------------------------------------------------------------------------
(* Graceful shutdown. *)

\* Server::run sends true on the watch channel.
AnnounceShutdown ==
    /\ "SHUTDOWN" \in PeerSends /\ shutdown = "no"
    /\ shutdown' = "announced"
    /\ UNCHANGED <<loopVars, windowVars, streamVars,
                   pending_gracefull_shutdown, initial_window_size, conn_rx,
                   taskVars, peerVars>>

\* Leave at once when idle, else refuse new streams.
StopAccepting(idle) ==
    /\ shutdown' = "seen"
    /\ IF idle
       THEN Close("shutdown") /\ UNCHANGED pending_gracefull_shutdown
       ELSE pending_gracefull_shutdown' = TRUE /\ UNCHANGED exit
    /\ UNCHANGED <<distributing, windowVars, streamVars, initial_window_size,
                   conn_rx, taskVars, peerVars>>

\* Mutant: the last open stream is overlooked.
NoticeShutdown_OffByOne ==
    /\ Selecting /\ shutdown = "announced"
    /\ StopAccepting(open_streams <= 1)

\* shutdown.changed().
NoticeShutdown ==
    /\ Selecting /\ shutdown = "announced"
    /\ StopAccepting(open_streams = 0)

\* flush_write_buffer_interval, or a write that finds the buffer full.
FlushWriteBuffer ==
    /\ Selecting /\ "FLUSH" \in PeerSends
    /\ unflushed /\ unflushed' = FALSE
    /\ UNCHANGED <<loopVars, windowVars, streamVars, shutdownVars,
                   initial_window_size, conn_rx, taskVars, credit,
                   stream_credit, wire, peer_reset>>

-----------------------------------------------------------------------------
(* Requests of the stream tasks, taken from conn_rx one at a time. *)

Take(kind) ==
    /\ Selecting
    /\ conn_rx # << >> /\ Head(conn_rx).kind = kind
    /\ conn_rx' = Tail(conn_rx)

\* write_response: the HEADERS frame and its CONTINUATIONs.
WriteResponse ==
    LET req == Head(conn_rx) IN
    /\ Take("Response")
    /\ Write(req.id, IF req.end_stream THEN {"headers", "end_stream"} ELSE {"headers"})
    /\ UNCHANGED <<loopVars, windowVars, streamVars, shutdownVars,
                   initial_window_size, taskVars, credit, stream_credit,
                   peer_reset>>

\* write_frame: the only frames the streams send are DATA.
WriteFrame ==
    LET req == Head(conn_rx) IN
    /\ Take("Frame")
    /\ Write(req.id, IF req.end_stream THEN {"data", "end_stream"} ELSE {"data"})
    /\ credit' = credit - req.amount
    /\ stream_credit' = [stream_credit EXCEPT ![req.id] = @ - req.amount]
    /\ UNCHANGED <<loopVars, windowVars, streamVars, shutdownVars,
                   initial_window_size, taskVars, peer_reset>>

GetWindow ==
    LET req == Head(conn_rx) IN
    /\ Take("GetWindow")
    /\ pending_window_req' =
           Append(pending_window_req, [id |-> req.id, amount |-> req.amount])
    /\ UNCHANGED global_window /\ Distribute
    /\ UNCHANGED <<exit, streamVars, shutdownVars,
                   initial_window_size, taskVars, peerVars>>

PutWindow ==
    LET req == Head(conn_rx) IN
    /\ Take("PutWindow")
    /\ UNCHANGED pending_window_req
    /\ IF InI32(global_window + req.amount)
       THEN /\ global_window' = global_window + req.amount
            /\ Distribute /\ UNCHANGED exit
       ELSE Close("window overflow") /\ UNCHANGED <<distributing, global_window>>
    /\ UNCHANGED <<streamVars, shutdownVars, initial_window_size, taskVars,
                   peerVars>>

\* Mutant: only streams that end well are uncounted.
Uncount_Failed(failed) ==
    IF open_streams = 0
    THEN Close("underflow") /\ UNCHANGED open_streams
    ELSE /\ open_streams' = IF failed THEN open_streams ELSE open_streams - 1
         /\ IF pending_gracefull_shutdown /\ open_streams' = 0
            THEN Close("shutdown") ELSE UNCHANGED exit

\* Mutant: nobody looks whether it was the last stream.
Uncount_NotLast(failed) ==
    IF open_streams = 0
    THEN Close("underflow") /\ UNCHANGED open_streams
    ELSE open_streams' = open_streams - 1 /\ UNCHANGED exit

\* A stream stops counting; the last one of a connection that shuts down ends it.
Uncount(failed) ==
    IF open_streams = 0
    THEN Close("underflow") /\ UNCHANGED open_streams
    ELSE /\ open_streams' = open_streams - 1
         /\ IF pending_gracefull_shutdown /\ open_streams' = 0
            THEN Close("shutdown") ELSE UNCHANGED exit

\* StreamClosing: a stream error resets the stream, a connection error ends the
\* connection; then the stream no longer counts.
StreamClosing ==
    LET req == Head(conn_rx) IN
    /\ Take("StreamClosing")
    /\ IF req.error = "connection"
       THEN Close("stream reported") /\ UNCHANGED <<streams, open_streams, rx,
                                                    wireVars>>
       ELSE /\ IF req.error = "stream" THEN ResetStream(req.id)
               ELSE UNCHANGED <<streams, rx, wireVars>>
            /\ Uncount(req.error = "stream")
    /\ UNCHANGED <<distributing, windowVars, biggest_open_stream,
                   shutdownVars, initial_window_size, task, credit,
                   stream_credit, peer_reset>>

StreamClosed ==
    LET req == Head(conn_rx) IN
    /\ Take("StreamClosed")
    /\ streams' = [streams EXCEPT ![req.id] = NoTask]
    /\ UNCHANGED <<loopVars, windowVars, biggest_open_stream, open_streams,
                   shutdownVars, initial_window_size, taskVars, peerVars>>

-----------------------------------------------------------------------------
(* distribute_window, one iteration at a time: the stream tasks run on.     *)

Asked == Head(pending_window_req)

\* A request of a stream without a handle (or for nothing) is dropped.
DropWindowRequest ==
    /\ Running /\ distributing
    /\ Asked.amount <= 0 \/ streams[Asked.id] = NoTask
    /\ pending_window_req' = Tail(pending_window_req)
    /\ global_window' = global_window
    /\ Distribute
    /\ UNCHANGED <<exit, streamVars, shutdownVars, initial_window_size,
                   conn_rx, taskVars, peerVars>>

\* Mutant: the request is granted in full.
Given_InFull == Asked.amount

Given == IF global_window >= Asked.amount THEN Asked.amount ELSE global_window

\* give_from_global_window: as much of the first request as there is.
GiveWindow ==
    /\ Running /\ distributing
    /\ Asked.amount > 0 /\ streams[Asked.id] # NoTask
    /\ IF Alive(streams[Asked.id])
       THEN /\ Tell({streams[Asked.id]}, [kind |-> "AvailableWindow", amount |-> Given])
            /\ global_window' = global_window - Given
            /\ pending_window_req' =
                   IF Given < Asked.amount
                   THEN [pending_window_req EXCEPT ![1].amount = @ - Given]
                   ELSE Tail(pending_window_req)
            /\ Distribute /\ UNCHANGED exit
       ELSE Close("stream gone") /\ UNCHANGED <<distributing, windowVars, rx>>
    /\ UNCHANGED <<streamVars, shutdownVars, initial_window_size, conn_rx, task,
                   peerVars>>

-----------------------------------------------------------------------------
(* The stream tasks. *)

\* conn_tx.send of a task: the receiver lives as long as main_loop.
Send(req) == Running /\ conn_rx' = Append(conn_rx, req)

TaskStep == UNCHANGED <<loopVars, windowVars, streamVars, shutdownVars,
                        initial_window_size, peerVars>>

CanRequest(t) == task[t].window_needed > 0 /\ task[t].window > 0

\* In the inner loop with nothing to ask for and nothing to send with:
\* main_select().await, with no other event to wait for.
WaitsForWindow(t) ==
    /\ task[t].at = "sending"
    /\ ~CanRequest(t)
    /\ task[t].available_window <= 0

\* The handler (or its timeout, or an invalid request) yields the response;
\* main sends its head, and is done when there is no body.
SendResponse(t) ==
    /\ task[t].at = "handling"
    /\ \E size \in 0..MaxBody, no_body \in BOOLEAN :
           /\ no_body => size = 0
           /\ Send(Request("Response", t, 0, no_body))
           /\ task' = [task EXCEPT ![t].at = IF no_body THEN "closing" ELSE "reading",
                                   ![t].body = size]
    /\ rx' = rx /\ TaskStep

\* The body yields its next chunk.
ReadChunk(t) ==
    /\ task[t].at = "reading"
    /\ \E n \in 1..MaxChunk :
           /\ n <= task[t].body
           /\ task' = [task EXCEPT ![t].at = "sending", ![t].body = @ - n,
                                   ![t].left = n, ![t].window_needed = n]
    /\ UNCHANGED <<conn_rx, rx>> /\ TaskStep

\* The body yields an error: a stream error.
ReadFails(t) ==
    /\ task[t].at = "reading"
    /\ task' = [task EXCEPT ![t].at = "closing", ![t].error = "stream"]
    /\ UNCHANGED <<conn_rx, rx>> /\ TaskStep

\* The body is at its end: the empty DATA frame with END_STREAM.
EndBody(t) ==
    /\ task[t].at = "reading" /\ task[t].body = 0
    /\ Send(Request("Frame", t, 0, TRUE))
    /\ task' = [task EXCEPT ![t].at = "closing"]
    /\ rx' = rx /\ TaskStep

\* Mutant: all the window of the stream, whatever the chunk needs.
AskFor_All(t) == task[t].window

\* What a request asks for.
AskFor(t) == IF task[t].window >= task[t].window_needed
             THEN task[t].window_needed ELSE task[t].window

\* Mutant: asks again for what it has asked for.
RequestWindow_Again(t) ==
    /\ task[t].at = "sending" /\ CanRequest(t)
    /\ Send(Request("GetWindow", t, AskFor(t), FALSE))
    /\ task' = [task EXCEPT ![t].window = @ - AskFor(t)]
    /\ rx' = rx /\ TaskStep

\* Ask for what is needed, within the window of the stream.
RequestWindow(t) ==
    /\ task[t].at = "sending" /\ CanRequest(t)
    /\ Send(Request("GetWindow", t, AskFor(t), FALSE))
    /\ task' = [task EXCEPT ![t].window = @ - AskFor(t),
                            ![t].window_needed = @ - AskFor(t)]
    /\ rx' = rx /\ TaskStep

\* Mutant: the window is not used up.
Spent_Not(t, amount) == task[t].available_window

Spent(t, amount) == task[t].available_window - amount

\* Send what the acquired window allows; the loop ends with the chunk.
SendData(t) ==
    /\ task[t].at = "sending" /\ ~CanRequest(t)
    /\ task[t].available_window > 0
    /\ LET amount == IF task[t].available_window > task[t].left
                     THEN task[t].left ELSE task[t].available_window
       IN /\ Send(Request("Frame", t, amount, FALSE))
          /\ task' = [task EXCEPT ![t].available_window = Spent(t, amount),
                                  ![t].left = @ - amount,
                                  ![t].at = IF task[t].left = amount
                                            THEN "reading" ELSE "sending"]
    /\ rx' = rx /\ TaskStep

\* main_select and handle_req.
Receive(t) ==
    /\ task[t].at \in {"handling", "reading"} \/ WaitsForWindow(t)
    /\ rx[t] # << >>
    /\ rx' = [rx EXCEPT ![t] = Tail(@)]
    /\ LET req == Head(rx[t])
           got == task[t].available_window + req.amount
           win == task[t].window + req.amount
       IN task' = CASE req.kind = "AvailableWindow" /\ InI32(got) ->
                           [task EXCEPT ![t].available_window = got]
                    [] req.kind = "WindowUpdate" /\ InI32(win) ->
                           [task EXCEPT ![t].window = win]
                    [] req.kind = "Reset" ->
                           [task EXCEPT ![t].at = "closing", ![t].error = "stream"]
                    [] OTHER -> \* an overflow
                           [task EXCEPT ![t].at = "closing", ![t].error = "connection"]
    /\ conn_rx' = conn_rx /\ TaskStep

\* run_inner: give back the window that is left, announce the end, end.
GiveBack(t) ==
    /\ task[t].at = "closing" /\ task[t].available_window > 0
    /\ Send(Request("PutWindow", t, task[t].available_window, FALSE))
    /\ task' = [task EXCEPT ![t].available_window = 0]
    /\ rx' = rx /\ TaskStep

SendClosing(t) ==
    /\ task[t].at = "closing" /\ task[t].available_window <= 0
    /\ Send(Request("StreamClosing", t, 0, FALSE))
    /\ task' = [task EXCEPT ![t].at = "announced"]
    /\ rx' = rx /\ TaskStep

SendClosed(t) ==
    /\ task[t].at = "announced"
    /\ Send(Request("StreamClosed", t, 0, FALSE))
    /\ task' = [task EXCEPT ![t].at = "exited"]
    /\ rx' = rx /\ TaskStep

\* Mutant: only run_inner's own sends notice that the connection is gone.
SendFails_Late(t) ==
    /\ ~Running
    /\ task[t].at \in {"closing", "announced"}
    /\ task' = [task EXCEPT ![t].at = "exited"]
    /\ UNCHANGED <<conn_rx, rx>> /\ TaskStep

\* The connection is gone: the next send fails and takes the task down.
SendFails(t) ==
    /\ ~Running
    /\ \/ task[t].at \in {"handling", "closing", "announced"}
       \/ task[t].at = "reading" /\ task[t].body = 0
       \/ task[t].at = "sending" /\ ~WaitsForWindow(t)
    /\ task' = [task EXCEPT ![t].at = "exited"]
    /\ UNCHANGED <<conn_rx, rx>> /\ TaskStep

-----------------------------------------------------------------------------

Peer ==
    \/ \E id \in StreamIds, kind \in PeerSends :
           \/ RecvIllegalHeaders(id, kind)
           \/ RecvRejectedHeaders(id, kind)
           \/ \E t \in Tasks : RecvRequest(id, kind, t)
    \/ \E id \in StreamIds : RecvUndecodableHeaders(id) \/ RecvRstStream(id)
    \/ \E n \in Increments : \/ RecvGlobalWindowUpdate(n)
                             \/ \E id \in StreamIds : RecvStreamWindowUpdate(id, n)
    \/ \E size \in InitialWindows : RecvSettings(size)
    \/ RecvGoAway
    \/ ConnectionFails

Streams ==
    \/ WriteResponse \/ WriteFrame \/ GetWindow \/ PutWindow
    \/ StreamClosing \/ StreamClosed

DistributeWindow == DropWindowRequest \/ GiveWindow

StreamTask(t) ==
    \/ SendResponse(t) \/ ReadChunk(t) \/ ReadFails(t) \/ EndBody(t)
    \/ RequestWindow(t) \/ SendData(t) \/ Receive(t)
    \/ GiveBack(t) \/ SendClosing(t) \/ SendClosed(t) \/ SendFails(t)

Next == Peer \/ AnnounceShutdown \/ NoticeShutdown \/ FlushWriteBuffer
        \/ Streams \/ DistributeWindow
        \/ \E t \in Tasks : StreamTask(t)

Spec == Init /\ [][Next]_vars

\* select! picks a ready branch at random and the runtime polls every woken
\* task, so no branch and no task is passed over for ever.  The handler ends
\* because of handler_timeout; that a body goes on yielding is an assumption.
\* A peer that wants the response refills a window it sees exhausted (strongly
\* fair, because the bound NoBacklog may hold it up again and again).
Fairness ==
    /\ WF_vars(NoticeShutdown) /\ WF_vars(Streams) /\ WF_vars(DistributeWindow)
    /\ \A t \in Tasks :
           /\ WF_vars(SendResponse(t)) /\ WF_vars(ReadChunk(t) \/ EndBody(t))
           /\ WF_vars(RequestWindow(t) \/ SendData(t)) /\ WF_vars(Receive(t))
           /\ WF_vars(GiveBack(t) \/ SendClosing(t) \/ SendClosed(t))
           /\ WF_vars(SendFails(t))
    /\ WF_vars(credit <= 0 /\ \E n \in Increments : RecvGlobalWindowUpdate(n))
    /\ \A id \in StreamIds :
           SF_vars(/\ stream_credit[id] <= 0
                   /\ \E n \in Increments : RecvStreamWindowUpdate(id, n))

FairSpec == Spec /\ Fairness

-----------------------------------------------------------------------------
(* Properties. *)

\* The type of every variable.
TypeOK ==
    /\ exit \in Exits
    /\ distributing \in BOOLEAN
    /\ global_window \in Int
    /\ pending_window_req \in Seq([id : StreamIds, amount : Int])
    /\ streams \in [StreamIds -> Tasks \cup {NoTask}]
    /\ biggest_open_stream \in StreamIds \cup {0}
    /\ open_streams \in Nat
    /\ pending_gracefull_shutdown \in BOOLEAN
    /\ initial_window_size \in Nat
    /\ conn_rx \in Seq(ConnectionReq)
    /\ shutdown \in {"no", "announced", "seen"}
    /\ task \in [Tasks -> Task]
    /\ rx \in [Tasks -> Seq(StreamReq)]
    /\ credit \in Int
    /\ stream_credit \in [StreamIds -> Int]
    /\ wire \in [StreamIds -> SUBSET {"headers", "data", "end_stream", "rst"}]
    /\ unflushed \in BOOLEAN
    /\ peer_reset \subseteq StreamIds

InQueue(kind, t) == \E i \in DOMAIN conn_rx : conn_rx[i].kind = kind /\ conn_rx[i].from = t

Working(t) == task[t].at \in {"handling", "reading", "sending", "closing"}

OpenStreams == {t \in Tasks : Working(t) \/ InQueue("StreamClosing", t)}

\* open_streams counts each accepted stream until its StreamClosing has been
\* handled, whatever the order in which streams open, fail, are reset or
\* replaced: the underflow branch is dead code and the comparison with
\* max_concurrent_streams never sees a stale count.
OpenStreamsExact ==
    /\ Running => open_streams = Cardinality(OpenStreams)
    /\ exit # "underflow"

\* The tasks at work at any time are at most max_concurrent_streams.
ConcurrencyLimit ==
    Running => Cardinality({t \in Tasks : Working(t)}) <= MaxConcurrent

Finished(id) == {"headers", "end_stream"} \subseteq wire[id] \/ "rst" \in wire[id]

\* A graceful shutdown ends the connection only when each stream it accepted
\* has written its whole response (or was reset): no response is cut off by a
\* StreamClosing that overtakes frames or by a stream nobody counted.  (Whether
\* the frames leave the write buffer is ShutdownDelivers in H2ConnectionClaims.)
ShutdownFinishesStreams ==
    exit = "shutdown" =>
        \A t \in Tasks : task[t].at # "unused" => Finished(task[t].id)

\* Every accepted request gets its complete response (or a reset), however the
\* window of its stream, and the connection's, is lowered, used up and refilled while it
\* is sent, unless the connection ends or the peer resets the stream.  (Checked for one
\* stream; that streams which compete for the connection's window leave none of them
\* asleep is NoLostWakeUp of H2SendWindow, which is checked for two.)
Served ==
    \A t \in Tasks, id \in StreamIds :
        task[t].at = "handling" /\ task[t].id = id
            ~> ~Running \/ Finished(id) \/ id \in peer_reset

\* A graceful shutdown ends the connection, unless the peer has reset a stream:
\* main_loop ignores RST_STREAM, so the stream goes on and waits for window that
\* nobody will grant any more.
ShutdownTerminates == shutdown = "announced" ~> ~Running \/ peer_reset # {}

\* When the connection has ended its stream tasks end, except the ones that
\* wait for window: Stream keeps a sender of its own channel, so rx.recv()
\* never tells them that the connection is gone.
TasksEnd ==
    \A t \in Tasks : ~Running ~> task[t].at \in {"unused", "exited"} \/ WaitsForWindow(t)
=============================================================================
