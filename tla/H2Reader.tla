------------------------------ MODULE H2Reader ------------------------------
(***************************************************************************)
(* How an HTTP/2 connection reads: the frames a peer sends arrive in parts *)
(* of any size, read_next_frame puts them together in a buffer, and the    *)
(* select! of main_loop drops it half-way whenever another of its branches *)
(* is ready first (the shutdown signal, the flush tick, the check of the   *)
(* timeouts, a request of a stream task).  With it go the header blocks on *)
(* their way to the HPACK decoder, and the deadlines of SETTINGS and PING, *)
(* which are only looked at in one of those branches.                      *)
(*                                                                         *)
(*   sent --received--> buffer --consumed--> header, payload --> handled   *)
(*                                                                         *)
(* The stream of bytes is the sequence of frames sent; where reading has   *)
(* come to is a number of units in it.  A frame header is HeaderLen units, *)
(* its payload as many as its length says.  Of windows, bodies and tasks   *)
(* this module keeps what decides over an exit: which streams the          *)
(* connection has a handle of, and whether the task behind it is there.    *)
(***************************************************************************)
EXTENDS Integers, Sequences, SequencesExt, Sums

CONSTANTS
    Frames,           \* the frames a peer may send
    Junk,             \* what the middle of a frame may be taken for
    NoFrame, Never,
    HeaderLen,        \* 9
    MaxFrameSize,     \* the capacity of the buffer: local_settings.max_frame_size
    HeaderBufSize,    \* request_header_buf_size
    Skipped,          \* 8: what is lost of a fragment behind padding and priority
    MaxConcurrent,    \* max_concurrent_streams
    SettingsTimeout, PingInterval, PingTimeout, CheckInterval,
    MaxFrames, MaxAhead, MaxTime, MaxEvents
        \* bounds: frames sent, units on their way when another is sent, time, and
        \* frames and time together

FrameTypes == {"DATA", "HEADERS", "PRIORITY", "RST_STREAM", "SETTINGS", "PUSH_PROMISE",
               "PING", "GOAWAY", "WINDOW_UPDATE", "CONTINUATION", "UNKNOWN"}

\* "fits": its length, and its padding, are what its type asks for.  "extra": what of
\* its payload is padding and priority.  "content" is "bad" where the RFC forbids it (a
\* value of SETTINGS, another payload than h2_ping_payload in the answer to a PING,
\* DATA beyond the window, a window that grows too large, a header block that cannot
\* be decoded), and "unusual" for SETTINGS with an unknown identifier, or one twice.
FrameRecords ==
    [type : FrameTypes, stream : Nat, length : Nat, extra : Nat, fits : BOOLEAN,
     content : {"good", "unusual", "bad"},
     flags : SUBSET {"ACK", "END_HEADERS", "PADDED", "PRIORITY"}]

ASSUME ReaderAssumption ==
    /\ Frames \subseteq FrameRecords /\ Junk \subseteq Frames /\ NoFrame \notin Frames /\ Never \notin Nat
    /\ HeaderLen \in Nat \ {0} /\ MaxFrameSize \in Nat /\ HeaderLen <= MaxFrameSize
    /\ HeaderBufSize \in Nat /\ MaxConcurrent \in Nat /\ Skipped \in Nat
    /\ \A f \in Frames : f.extra <= f.length
    /\ SettingsTimeout \in Nat /\ PingInterval \in Nat /\ PingTimeout \in Nat
    /\ CheckInterval \in Nat \ {0}
    /\ MaxFrames \in Nat /\ MaxAhead \in Nat /\ MaxTime \in Nat /\ MaxEvents \in Nat

VARIABLES
    \* The peer.
    sent,
    \* read_next_frame.
    received,            \* units that have reached the buffer
    consumed,            \* units the buffer has been progressed by
    header,              \* the frame whose payload it waits for, or NoFrame
    \* main_loop.
    exit,
    continuing,          \* the stream whose CONTINUATION frame is waited for, or 0
    header_buffer,       \* the fragments it holds
    open_streams, pending_gracefull_shutdown,
    streams,             \* the streams it has a handle of
    biggest_open_stream,
    blocked,             \* a write that the socket does not take: "no", "write" or "shutdown"
    \* The tasks of the streams.
    working, closing,    \* how many have not announced their end, and how many it is taken from
    gone,                \* the streams whose task has exited while their handle is kept
    \* Time.
    now, next_check, last_frame_received, settings_ack_timeout, ping_ack_timeout,
    \* History.
    handled,             \* the frames read, in order
    ended,               \* the header blocks that were complete, as fragments
    refused,             \* which of them were thrown away undecoded
    dropped,             \* the streams that were refused, malformed, or closed by the server
    torn,                \* read_next_frame was dropped between header and payload
    shutdown_at,         \* when SETTINGS were written last
    ping_at              \* when the last PING was written

readVars == <<received, consumed, header, handled, last_frame_received>>
blockVars == <<continuing, header_buffer, ended, refused>>
handleVars == <<streams, gone, dropped>>
countVars == <<open_streams, biggest_open_stream, working, closing>>
timerVars == <<next_check, settings_ack_timeout, ping_ack_timeout, ping_at>>
shutdownVars == <<pending_gracefull_shutdown, shutdown_at>>
loopVars == <<blockVars, handleVars, countVars, shutdownVars>>
vars == <<sent, exit, torn, blocked, now, readVars, timerVars, loopVars>>

\* "f.length" and a header, summed up.
Units(fs) == Total[[i \in 1..Len(fs) |-> HeaderLen + fs[i].length]]

Running == exit = "running"

\* The task is scheduled and not in the middle of a write.
Ready == Running /\ blocked = "no"

Buffered == received - consumed

Ids == {f.stream : f \in Frames}

PayloadRead == header # NoFrame /\ header.length <= Buffered

Init ==
    /\ sent = << >>
    /\ received = 0 /\ consumed = 0 /\ header = NoFrame
    /\ exit = "running" /\ continuing = 0 /\ header_buffer = << >>
    /\ open_streams = 0 /\ pending_gracefull_shutdown = FALSE /\ blocked = "no"
    /\ streams = {} /\ gone = {} /\ dropped = {} /\ biggest_open_stream = 0
    /\ working = [id \in Ids |-> 0] /\ closing = [id \in Ids |-> 0]
    /\ now = 0 /\ next_check = 0 /\ last_frame_received = 0
    /\ settings_ack_timeout = SettingsTimeout /\ ping_ack_timeout = Never
    /\ handled = << >> /\ ended = << >> /\ refused = {} /\ torn = FALSE
    /\ shutdown_at = 0 /\ ping_at = Never

-----------------------------------------------------------------------------
(* The peer and the time. *)

Send ==
    /\ Running /\ Len(sent) < MaxFrames /\ Units(sent) - consumed <= MaxAhead
    /\ Len(sent) + now < MaxEvents
    /\ \E f \in Frames : sent' = Append(sent, f)
    /\ UNCHANGED <<exit, torn, blocked, now, readVars, timerVars, loopVars>>

\* The check of the timeouts is not late unless the task is elsewhere: in the loop
\* that waits for CONTINUATION, or in a write.
PassTime ==
    /\ Running /\ now < MaxTime /\ Len(sent) + now < MaxEvents
    /\ now < next_check \/ continuing # 0 \/ blocked # "no"
    /\ now' = now + 1
    /\ UNCHANGED <<sent, exit, torn, blocked, readVars, timerVars, loopVars>>

\* The socket takes the write after all, or fails.
WriteEnds ==
    /\ Running /\ blocked # "no"
    /\ \/ /\ settings_ack_timeout' = IF blocked = "shutdown" THEN now + SettingsTimeout
                                     ELSE settings_ack_timeout
          /\ shutdown_at' = IF blocked = "shutdown" THEN now ELSE shutdown_at
          /\ blocked' = "no" /\ UNCHANGED exit
       \/ exit' = "write failed" /\ UNCHANGED <<settings_ack_timeout, shutdown_at, blocked>>
    /\ UNCHANGED <<sent, torn, now, readVars, blockVars, handleVars, countVars, next_check,
                   ping_ack_timeout, ping_at, pending_gracefull_shutdown>>

-----------------------------------------------------------------------------
(* read_next_frame. *)

Leave(reason) ==
    /\ exit' = reason
    /\ UNCHANGED <<sent, torn, blocked, now, readVars, timerVars, loopVars>>

\* read_from_reader: as much as has arrived and there is room for.
ReadFromReader ==
    /\ Ready /\ ~PayloadRead /\ Buffered < MaxFrameSize
    /\ \E n \in 1..MaxFrameSize - Buffered :
           received + n <= Units(sent) /\ received' = received + n
    /\ UNCHANGED <<sent, exit, torn, blocked, now, consumed, header, handled,
                   last_frame_received, timerVars, loopVars>>

\* The peer has closed the connection behind what it has sent.
ReadFails == Ready /\ ~PayloadRead /\ received = Units(sent) /\ Leave("eof")

\* A payload that does not fit.
FrameBufferFull ==
    Ready /\ header # NoFrame /\ ~PayloadRead /\ Buffered = MaxFrameSize /\ Leave("full")

\* What FrameHeaderRaw makes of the next units: the header of a frame where one
\* begins, or what those units happen to be.
HeadersAt(n) ==
    LET starts == {k \in 1..Len(sent) : Units(SubSeq(sent, 1, k - 1)) = n} IN
    IF starts = {} THEN Junk ELSE {sent[k] : k \in starts}

ParseHeader ==
    /\ Ready /\ header = NoFrame /\ HeaderLen <= Buffered
    /\ header' \in HeadersAt(consumed)
    /\ consumed' = consumed + HeaderLen
    /\ UNCHANGED <<sent, exit, torn, blocked, now, received, handled, last_frame_received,
                   timerVars, loopVars>>

\* Mutant: the payload stays in the buffer.
TakePayload_Left == header' = NoFrame /\ UNCHANGED consumed

TakePayload == header' = NoFrame /\ consumed' = consumed + header.length

\* The frame is returned.  Only main_loop's select! notes the time.
TakeFrame ==
    /\ Ready /\ PayloadRead
    /\ TakePayload
    /\ handled' = Append(handled, header)
    /\ last_frame_received' = IF continuing = 0 THEN now ELSE last_frame_received
    /\ UNCHANGED <<sent, received, torn, now>>

\* FrameHeader::try_from and Frame::from_header_and_payload.
Refused(f) ==
    \/ f.type \in {"PUSH_PROMISE", "UNKNOWN"}
    \/ f.type \in {"DATA", "HEADERS", "PRIORITY", "RST_STREAM"} /\ f.stream = 0
    \/ f.type \in {"SETTINGS", "PING", "GOAWAY", "CONTINUATION"} /\ f.stream # 0
    \/ ~f.fits

RefuseFrame == Ready /\ PayloadRead /\ Refused(header) /\ Leave("refused frame")

\* The frame is one of these types and is handled in the select! of main_loop.
Recv(types) == continuing = 0 /\ TakeFrame /\ header.type \in types /\ ~Refused(header)

-----------------------------------------------------------------------------
(* Streams, as far as an exit depends on them. *)

\* handle_possible_stream_error: RST_STREAM; a handle whose task has exited is removed.
StreamError(id) ==
    /\ streams' = (IF id \in gone THEN streams \ {id} ELSE streams)
    /\ gone' = gone \ {id}
    /\ dropped' = (IF id \in streams' THEN dropped ELSE dropped \union {id})

OpenStream(id) ==
    /\ streams' = streams \union {id} /\ gone' = gone \ {id} /\ dropped' = dropped \ {id}
    /\ open_streams' = open_streams + 1 /\ working' = [working EXCEPT ![id] = @ + 1]
    /\ biggest_open_stream' = IF id > biggest_open_stream THEN id ELSE biggest_open_stream
    /\ UNCHANGED closing

\* The task has sent all it has to send, or panicked, and its receiver is dropped.
TaskExits(id) ==
    /\ Running /\ id \in streams \ gone
    /\ gone' = gone \union {id}
    /\ UNCHANGED <<sent, exit, torn, blocked, now, readVars, timerVars, blockVars, streams,
                   dropped, countVars, shutdownVars>>

-----------------------------------------------------------------------------
(* Header blocks. *)

\* HeadersFrame::try_from takes the priority of a frame that is padded as well
\* from eight bytes further on, and the fragment from behind that.
Garbled(f) == {"PADDED", "PRIORITY"} \subseteq f.flags

FragmentLength(f) == f.length - f.extra - (IF Garbled(f) THEN Skipped ELSE 0)

Fragment(f) == [of |-> f, cut |-> Garbled(f)]

FragmentUnits(block) == Total[[i \in 1..Len(block) |-> FragmentLength(block[i].of)]]

Fits(f) == FragmentUnits(header_buffer) + FragmentLength(f) <= HeaderBufSize

\* A block that has lost a part, or is none.
Spoilt(block) == \E i \in DOMAIN block : block[i].cut \/ block[i].of.content = "bad"

\* The decoder can make nothing, or anything, of such a block, of one out of a torn
\* frame, and of one that follows on one it has not seen.
Unreliable(block) ==
    torn \/ refused # {} \/ Spoilt(block) \/ \E i \in DOMAIN ended : Spoilt(ended[i])

\* Mutant: the fragments of a refused block stay in the buffer.
RefuseBlock_Kept(block, id) ==
    /\ ended' = Append(ended, block) /\ refused' = refused \union {Len(ended')}
    /\ header_buffer' = block
    /\ StreamError(id) /\ UNCHANGED <<exit, blocked, countVars>>

\* The shutdown is pending, or there are too many streams: RST_STREAM.
RefuseBlock(block, id) ==
    /\ ended' = Append(ended, block) /\ refused' = refused \union {Len(ended')}
    /\ header_buffer' = << >>
    /\ StreamError(id) /\ UNCHANGED <<exit, blocked, countVars>>

\* read_request: a stream for the request, or RST_STREAM for a malformed one.
ReadRequest(block, id) ==
    /\ ended' = Append(ended, block) /\ header_buffer' = << >>
    /\ OpenStream(id) \/ (StreamError(id) /\ UNCHANGED countVars)
    /\ UNCHANGED <<exit, blocked, refused>>

DecodingFails(block) ==
    /\ Unreliable(block)
    /\ exit' = "compression" /\ header_buffer' = block
    /\ UNCHANGED <<blocked, ended, refused, handleVars, countVars>>

\* Mutant: one stream too many.
MustRefuse_OffByOne == pending_gracefull_shutdown \/ open_streams > MaxConcurrent

\* In shutdown mode, or in violation of max_concurrent_streams.
MustRefuse == pending_gracefull_shutdown \/ open_streams >= MaxConcurrent

\* The block is complete.
EndBlock(block, id) ==
    /\ continuing' = 0
    /\ IF MustRefuse THEN RefuseBlock(block, id)
       ELSE ReadRequest(block, id) \/ DecodingFails(block)

\* Its fragment goes into header_buffer; without END_HEADERS the loop for
\* CONTINUATION begins, or goes on.
RecvFragment(f) ==
    IF ~Fits(f)
    THEN exit' = "protocol" /\ UNCHANGED <<blocked, blockVars, handleVars, countVars>>
    ELSE IF "END_HEADERS" \in f.flags
    THEN EndBlock(Append(header_buffer, Fragment(f)), f.stream)
    ELSE /\ continuing' = f.stream /\ header_buffer' = Append(header_buffer, Fragment(f))
         /\ UNCHANGED <<exit, blocked, ended, refused, handleVars, countVars>>

\* Mutant: the numbers of trailers are looked at as well.
Misnumbered_Trailers(f) == f.stream % 2 = 0 \/ biggest_open_stream >= f.stream

\* An even number; or neither the trailers of a stream nor a new one.
Misnumbered(f) ==
    f.stream % 2 = 0 \/ (f.stream \notin streams /\ biggest_open_stream >= f.stream)

\* payload[8..13] of a shorter payload.
Panics(f) == Garbled(f) /\ FragmentLength(f) < 0

RecvHeaders ==
    /\ Recv({"HEADERS"}) /\ ~Panics(header)
    /\ IF Misnumbered(header)
       THEN exit' = "protocol" /\ UNCHANGED <<blocked, blockVars, handleVars, countVars>>
       ELSE RecvFragment(header)
    /\ UNCHANGED <<timerVars, shutdownVars>>

Panic ==
    /\ Recv({"HEADERS"}) /\ Panics(header)
    /\ exit' = "panicked" /\ UNCHANGED <<blocked, timerVars, loopVars>>

\* The loop takes nothing but CONTINUATION of the same stream.  (The header of
\* such a frame is refused above, and any other frame here.)
RecvContinuation ==
    /\ continuing # 0 /\ TakeFrame /\ ~Refused(header)
    /\ IF header.type = "CONTINUATION" /\ header.stream = continuing
       THEN RecvFragment(header)
       ELSE exit' = "protocol" /\ UNCHANGED <<blocked, blockVars, handleVars, countVars>>
    /\ UNCHANGED <<timerVars, shutdownVars>>

-----------------------------------------------------------------------------
(* The other frames, as far as reading, the deadlines and the exits depend *)
(* on them.                                                                *)

\* For a stream that is not known, beyond the connection's window, or to a task that
\* has exited.  (Beyond its stream's window only, it is the task that finds out.)
RecvData ==
    /\ Recv({"DATA"})
    /\ \/ header.stream \notin streams /\ exit' = "protocol"
       \/ header.stream \in streams /\ header.content = "bad" /\ exit' = "flow control"
       \/ header.stream \in gone /\ exit' = "stream gone"
       \/ header.stream \in streams \ gone /\ UNCHANGED exit
    /\ UNCHANGED <<blocked, timerVars, loopVars>>

\* Mutant: any SETTINGS frame will do.
RecvSettings_AnyAck ==
    /\ Recv({"SETTINGS"})
    /\ settings_ack_timeout' = Never
    /\ UNCHANGED <<exit, blocked, next_check, ping_ack_timeout, ping_at, loopVars>>

\* Identifiers and values are looked at (but not what the sum of a window comes to),
\* and then every stream is told, whether there is a change or not.
RecvSettings ==
    /\ Recv({"SETTINGS"})
    /\ \/ "ACK" \in header.flags /\ settings_ack_timeout' = Never /\ UNCHANGED exit
       \/ /\ "ACK" \notin header.flags /\ UNCHANGED settings_ack_timeout
          /\ \/ header.content # "good" /\ exit' = "refused frame"
             \/ header.content # "unusual" /\ gone # {} /\ exit' = "stream gone"
             \/ header.content # "unusual" /\ gone = {} /\ UNCHANGED exit
    /\ UNCHANGED <<blocked, next_check, ping_ack_timeout, ping_at, loopVars>>

RecvPing ==
    /\ Recv({"PING"})
    /\ IF "ACK" \notin header.flags THEN UNCHANGED <<exit, ping_ack_timeout>>
       ELSE IF header.content = "bad" THEN exit' = "protocol" /\ UNCHANGED ping_ack_timeout
       ELSE ping_ack_timeout' = Never /\ UNCHANGED exit
    /\ UNCHANGED <<blocked, next_check, settings_ack_timeout, ping_at, loopVars>>

\* A stream whose task has exited is reset; then distribute_window, which may come upon
\* another.  The connection's window overflows now, or when a task gives some back.
RecvWindowUpdate ==
    /\ Recv({"WINDOW_UPDATE"})
    /\ IF header.stream \in gone THEN StreamError(header.stream) ELSE UNCHANGED handleVars
    /\ \/ UNCHANGED exit
       \/ gone' # {} /\ exit' = "stream gone"
       \/ header.stream = 0 /\ header.content = "bad" /\ exit' = "flow control"
    /\ UNCHANGED <<blocked, timerVars, blockVars, countVars, shutdownVars>>

RecvGoAway ==
    /\ Recv({"GOAWAY"}) /\ exit' = "goaway"
    /\ UNCHANGED <<blocked, timerVars, loopVars>>

\* CONTINUATION without HEADERS.
RecvUnexpected ==
    /\ Recv({"CONTINUATION"}) /\ exit' = "protocol"
    /\ UNCHANGED <<blocked, timerVars, loopVars>>

\* They are logged.
RecvIgnored ==
    /\ Recv({"PRIORITY", "RST_STREAM"})
    /\ UNCHANGED <<exit, blocked, timerVars, loopVars>>

-----------------------------------------------------------------------------
(* The other branches of select!. *)

\* What the future of read_next_frame had put aside is gone with it.
DropRead ==
    /\ torn' = (torn \/ header # NoFrame)
    /\ header' = NoFrame
    /\ UNCHANGED <<received, consumed, handled, last_frame_received>>

\* Another branch is ready and the read is not, or is not asked first.
Branch == Ready /\ continuing = 0 /\ ~PayloadRead /\ DropRead /\ UNCHANGED <<sent, now>>

\* shutdown.changed(): the signal; and, once Server::run has returned and dropped
\* the sender, an error that is taken for it, again and again.
NoticeShutdown ==
    /\ Branch
    /\ \/ /\ open_streams = 0 /\ exit' = "shutdown"
          /\ UNCHANGED <<blocked, settings_ack_timeout, shutdownVars>>
       \/ /\ open_streams # 0 /\ pending_gracefull_shutdown' = TRUE
          /\ \/ /\ blocked' = "no" /\ settings_ack_timeout' = now + SettingsTimeout
                /\ shutdown_at' = now
             \/ blocked' = "shutdown" /\ UNCHANGED <<settings_ack_timeout, shutdown_at>>
          /\ UNCHANGED exit
    /\ UNCHANGED <<blockVars, handleVars, countVars, next_check, ping_ack_timeout, ping_at>>

\* The flush tick, or a request of a stream task that is written.  The socket may
\* not take the write.  (One that blocks in another arm is that arm and this one.)
WriteBranch ==
    /\ Branch /\ blocked' \in {"no", "write"}
    /\ UNCHANGED <<exit, timerVars, loopVars>>

Misused(types) == \E i \in DOMAIN handled : handled[i].type \in types /\ handled[i].content = "bad"

\* GetWindow or PutWindow: distribute_window comes upon a handle whose task has exited,
\* or the window that is given back is too much.
DistributeFails ==
    /\ Branch
    /\ \/ gone # {} /\ exit' = "stream gone"
       \/ Misused({"WINDOW_UPDATE"}) /\ exit' = "flow control"
    /\ UNCHANGED <<blocked, timerVars, loopVars>>

\* The stream ends, of itself or with an error of its own, which is handled first.
StreamClosing(id) ==
    /\ Branch /\ working[id] > 0 /\ open_streams > 0
    /\ StreamError(id) \/ UNCHANGED handleVars
    /\ open_streams' = open_streams - 1
    /\ working' = [working EXCEPT ![id] = @ - 1] /\ closing' = [closing EXCEPT ![id] = @ + 1]
    /\ exit' = IF pending_gracefull_shutdown /\ open_streams' = 0 THEN "shutdown" ELSE exit
    /\ UNCHANGED <<blocked, biggest_open_stream, blockVars, timerVars, shutdownVars>>

\* The task ends with an error of the connection: DATA for a request that is taken to
\* have no body, or beyond its stream's window, or a window that has grown too large.
StreamFails ==
    /\ Branch /\ open_streams > 0
    /\ (\E i \in DOMAIN handled : handled[i].type = "DATA") \/ Misused({"WINDOW_UPDATE", "SETTINGS"})
    /\ exit' = "stream failed"
    /\ UNCHANGED <<blocked, timerVars, loopVars>>

\* Whoever's handle it is by now.
StreamClosed(id) ==
    /\ Branch /\ closing[id] > 0
    /\ closing' = [closing EXCEPT ![id] = @ - 1]
    /\ streams' = streams \ {id} /\ gone' = gone \ {id} /\ dropped' = dropped \union {id}
    /\ UNCHANGED <<exit, blocked, open_streams, biggest_open_stream, working, blockVars,
                   timerVars, shutdownVars>>

Passed(timeout, tick) == timeout # Never /\ tick > timeout

PingDue == next_check > last_frame_received + PingInterval

SettingsLate == Passed(settings_ack_timeout, next_check)

\* The deadlines are compared with the instant the tick was due at, which is in
\* the past when the task was elsewhere: the ticks it has missed come in a burst.
CheckTimeouts ==
    /\ Branch /\ next_check <= now
    /\ next_check' = next_check + CheckInterval
    /\ IF SettingsLate
       THEN exit' = "settings timeout" /\ UNCHANGED <<ping_ack_timeout, ping_at>>
       ELSE IF Passed(ping_ack_timeout, next_check)
       THEN exit' = "ping timeout" /\ UNCHANGED <<ping_ack_timeout, ping_at>>
       ELSE IF PingDue
       THEN /\ ping_ack_timeout' = next_check + PingTimeout
            /\ ping_at' = now /\ UNCHANGED exit
       ELSE UNCHANGED <<exit, ping_ack_timeout, ping_at>>
    /\ UNCHANGED <<blocked, settings_ack_timeout, loopVars>>

-----------------------------------------------------------------------------

Peer == Send \/ PassTime \/ WriteEnds

Tasks == \E id \in Ids : TaskExits(id)

Reader == ReadFromReader \/ ReadFails \/ FrameBufferFull \/ ParseHeader \/ RefuseFrame

Handle ==
    \/ RecvHeaders \/ Panic \/ RecvContinuation \/ RecvData \/ RecvSettings \/ RecvPing
    \/ RecvWindowUpdate \/ RecvGoAway \/ RecvUnexpected \/ RecvIgnored

Requests ==
    \/ WriteBranch \/ DistributeFails \/ StreamFails
    \/ \E id \in Ids : StreamClosing(id) \/ StreamClosed(id)

OtherBranches == NoticeShutdown \/ CheckTimeouts \/ Requests

Next == Peer \/ Tasks \/ Reader \/ Handle \/ OtherBranches

Spec == Init /\ [][Next]_vars

-----------------------------------------------------------------------------
(* Properties. *)

Exits == {"running", "eof", "full", "refused frame", "protocol", "flow control", "stream gone",
          "stream failed", "compression", "goaway", "panicked", "settings timeout",
          "ping timeout", "shutdown", "write failed"}

Times == Nat \union {Never}

FragmentRecords == [of : Frames, cut : BOOLEAN]

\* The type of every variable; the buffer holds no more than there is room for.
TypeOK ==
    /\ sent \in Seq(Frames) /\ handled \in Seq(Frames)
    /\ received \in Nat /\ consumed \in 0..received /\ Buffered <= MaxFrameSize
    /\ header \in Frames \union {NoFrame}
    /\ exit \in Exits /\ blocked \in {"no", "write", "shutdown"}
    /\ continuing \in Nat
    /\ header_buffer \in Seq(FragmentRecords) /\ ended \in Seq(Seq(FragmentRecords))
    /\ refused \subseteq DOMAIN ended
    /\ open_streams \in 0..MaxConcurrent /\ biggest_open_stream \in Nat
    /\ working \in [Ids -> Nat] /\ closing \in [Ids -> Nat]
    /\ streams \subseteq Ids /\ gone \subseteq streams /\ dropped \subseteq Ids
    /\ pending_gracefull_shutdown \in BOOLEAN /\ torn \in BOOLEAN
    /\ now \in Nat /\ next_check \in Nat /\ last_frame_received \in 0..now
    /\ settings_ack_timeout \in Times /\ ping_ack_timeout \in Times /\ ping_at \in Times
    /\ shutdown_at \in 0..now

\* However the stream of bytes is cut into reads, and whichever of the other
\* branches comes in between: as long as none of them has come between a header and
\* its payload, the frames handled are the frames sent, in order and each once.
FramesInStep ==
    ~torn =>
        /\ IsPrefix(handled, sent)
        /\ header # NoFrame => IsPrefix(Append(handled, header), sent)

\* read_next_frame: "Reads the next frame from the connection, waiting until the
\* entire frame got send over.  Returns the raw frame on success".
FramesAsSent == IsPrefix(handled, sent)

IsBlock(block) ==
    /\ block[1].of.type = "HEADERS"
    /\ \A i \in DOMAIN block : "END_HEADERS" \in block[i].of.flags <=> i = Len(block)

\* The frames of header blocks among those of a sequence, in order.
FragmentsAmong(fs) ==
    LET upTo[n \in 0..Len(fs)] ==
            IF n = 0 THEN << >>
            ELSE IF fs[n].type \in {"HEADERS", "CONTINUATION"} THEN Append(upTo[n - 1], fs[n])
            ELSE upTo[n - 1]
    IN  upTo[Len(fs)]

\* Those of complete blocks, and of the one that is being read.
Fragments == FlattenSeq(Append(ended, header_buffer))

\* A complete block begins with HEADERS and ends with the first END_HEADERS.
BlocksFramed == \A i \in DOMAIN ended : IsBlock(ended[i])

\* Every fragment of the frames handled is in exactly one block, in order, whichever
\* blocks are refused; and as long as no frame was torn, and none cut for its padding
\* and priority, the blocks are those the peer's encoder has made, whole.  (All but
\* the refused ones reach the HPACK decoder, whose table is therefore in step
\* with the peer's if none was refused, torn or cut, and need not be otherwise.)
BlocksWhole ==
    /\ BlocksFramed
    /\ Running =>
        /\ LET frames == FragmentsAmong(handled)
           IN  Fragments = [i \in DOMAIN frames |-> Fragment(frames[i])]
        /\ ~torn /\ (\A i \in DOMAIN Fragments : ~Fragments[i].cut) =>
              LET frames == FragmentsAmong(SubSeq(sent, 1, Len(handled)))
              IN  Fragments = [i \in DOMAIN frames |-> [of |-> frames[i], cut |-> FALSE]]

Acked(type) ==
    \E i \in DOMAIN handled : handled[i].type = type /\ "ACK" \in handled[i].flags

\* Waiting in select!, with no check overdue.
OnTime == Ready /\ continuing = 0 /\ now <= next_check

\* A peer that acknowledges none of the SETTINGS, or of the PINGs, is gone one check
\* after the timeout of the last one, unless the task is stuck in a write or waits
\* for a CONTINUATION frame.  (One acknowledgement is enough for the SETTINGS of
\* the start and of the shutdown, and each check of a silent connection
\* writes another PING, so that for CheckInterval <= PingTimeout, the default,
\* silence alone never ends it.)
DeadlinesKept ==
    OnTime =>
        /\ ~Acked("SETTINGS") => now <= shutdown_at + SettingsTimeout + CheckInterval
        /\ ~Acked("PING") /\ ping_at # Never => now <= ping_at + PingTimeout + CheckInterval

\* A deadline that ends the connection has passed by the clock as well, or is that
\* of a PING written long after the tick it counts from.
NoFalseTimeout ==
    /\ exit = "settings timeout" => now > shutdown_at + SettingsTimeout
    /\ exit = "ping timeout" =>
          now > ping_at + PingTimeout \/ ping_ack_timeout < ping_at + PingTimeout

\* The decoder fails, or the task panics, over a torn frame, over a block behind one
\* that was refused, over one that is none, or over a HEADERS frame with both padding
\* and priority.
NoFalseDecoding ==
    exit \in {"compression", "panicked"} =>
        \/ torn \/ refused # {}
        \/ \E i \in DOMAIN handled : Garbled(handled[i]) \/ handled[i].content = "bad"

\* What the RFC lets a client send, in a frame
LawfulFrame(f) ==
    /\ f.length <= MaxFrameSize /\ f.content # "bad"
    /\ f.type # "UNKNOWN" => f.fits /\ f.type # "PUSH_PROMISE"
    /\ f.type \in {"SETTINGS", "PING", "GOAWAY"} => f.stream = 0
    /\ f.type \in {"DATA", "HEADERS", "PRIORITY", "RST_STREAM", "CONTINUATION"} => f.stream # 0
    /\ f.type = "HEADERS" => f.stream % 2 = 1

Opened(fs, n, id) == \E i \in 1..n - 1 : fs[i].type = "HEADERS" /\ fs[i].stream = id

Unfinished(f) == f.type \in {"HEADERS", "CONTINUATION"} /\ "END_HEADERS" \notin f.flags

\* and as the n-th of its frames: HEADERS for a stream there is, or for one with a
\* greater number than any before; DATA for a stream there is; CONTINUATION, and
\* nothing else, behind HEADERS or CONTINUATION without END_HEADERS.
Lawful(fs, n) ==
    /\ LawfulFrame(fs[n])
    /\ fs[n].type \in {"DATA", "HEADERS"} /\ ~Opened(fs, n, fs[n].stream) =>
          /\ fs[n].type = "HEADERS"
          /\ \A i \in 1..n - 1 : fs[i].type = "HEADERS" => fs[i].stream < fs[n].stream
    /\ fs[n].type = "CONTINUATION" <=> n > 1 /\ Unfinished(fs[n - 1])

\* The frame that was read last.
LastRead == IF header = NoFrame THEN Last(handled) ELSE header

\* A peer that plays by the rules, none of whose frames was torn, is not thrown out
\* but for what this server does not take although the RFC asks for it: a frame of
\* unknown type, CONTINUATION, SETTINGS with an unknown identifier or one twice, a
\* header block larger than its buffer; DATA and trailers for a stream it has itself
\* refused or closed; DATA, SETTINGS or window at a moment when the task of some stream
\* has exited and its handle is still kept; and DATA that the task does not expect.
NoFalseRefusal ==
    ~torn /\ (\A n \in DOMAIN sent : Lawful(sent, n)) =>
        /\ exit \notin {"full", "flow control"}
        /\ exit = "refused frame" =>
              \/ LastRead.type \in {"UNKNOWN", "CONTINUATION"}
              \/ LastRead.type = "SETTINGS" /\ LastRead.content = "unusual"
        /\ exit = "protocol" =>
              \/ LastRead.type = "HEADERS" /\ FragmentLength(LastRead) > HeaderBufSize
              \/ LastRead.type \in {"HEADERS", "DATA"} /\ LastRead.stream \in dropped
        /\ exit = "stream gone" => gone # {}
        /\ exit = "stream failed" => \E i \in DOMAIN handled : handled[i].type = "DATA"

\* No connection is ended without one of these reasons.
NoFalseExit == NoFalseTimeout /\ NoFalseDecoding /\ NoFalseRefusal
=============================================================================
