# A verification development for qhttp

qhttp is an HTTP server library: an application adds listeners and a handler to
a `Server`, and the library accepts connections, speaks HTTP/1 or HTTP/2 on
them, and calls the handler once per request. This directory holds a model of
its concurrent core in TLA+, the TLC configurations that check it on small
instances, and proofs that TLAPS checks for every instance.

Sources are named by their path under the repository's `src/` directory.

## 1. Inventory

| component | source | state it keeps | operations | interacts by |
|---|---|---|---|---|
| **Server, listeners, negotiators, CounterTask** | `server.rs` | the handler, a watch channel `shutdown`, per listener its rate-limit count, in CounterTask `listener_counter`, `connection_counter`, `shutdown` | start, accept, negotiate, open/close events, shutdown with and without grace | channels `ListenerEvent`, `ConnectionEvent`, oneshot/watch `shutdown_complete`, spawned tasks |
| **HTTP/2 connection task** | `http2/mod.rs` 85-858 | `global_window`, `pending_window_req`, `streams`, `open_streams`, `biggest_open_stream`, settings of both sides, HPACK state, timers, the socket | one `select!` loop: next frame, next request of a stream, shutdown, the timers | channel `ConnectionReq` from all streams, one channel `StreamReq` to each |
| **HTTP/2 stream task** | `http2/stream.rs` | `window`, `available_window`, `peer_window`, the body channel | read the response, send head and body, ask for window, pass request body on, close | the two channels above, the handler's future |
| **HTTP/2 request body** | `http2/mod.rs` 1086-1252, `request.rs` 314-396 | the frame at hand and how much of it is read | read, drop (drain) | channel of frames in, channel of window updates out |
| **HTTP/2 frames, settings, timers** | `http2/frame.rs`, `http2/settings.rs`, `http2/mod.rs` 225-400, 860-1084 | read buffer, `header_buffer`, `settings_ack_timeout`, `ping_ack_timeout`, `last_frame_received`, flush timer | parse and format frames, CONTINUATION, ACK and PING deadlines | branches of the connection task's `select!`; dropped half-way when another one is ready |
| **HTTP/1 connection** | `lib.rs` 418-908, 1043-1271 | connection buffer, the request at hand, `next_100_continue` | read request, run handler, serve its body reads, write response, loop | channels to the `BackgroundRead` in the handler's hands, `oneshot`s back |
| **Bodies and their framings** | `body.rs`, `request.rs` 314-732, `response.rs` | the rest of a body, the chunk at hand | LimitReader, ChunkedReader, ChunkedWriter, `finish_on_drop` | `AsyncRead`/`AsyncWrite` polls |
| **Buffer** | `buffer.rs` 1-253 (the ring buffer behind it is used nowhere) | `read_pointer`, `write_pointer`, the vec | fill, progress, reset | owned |
| **Parsers** | `parse.rs`, `request.rs` 1-313, `util/*` | none | pure functions | called |
| **Configuration, listeners' sockets, errors** | `lib.rs` 1-417, `listener.rs`, `http2/error.rs` | none that changes | accept(2), TLS | called |

What is hard in it:

* The connection task and its streams share the connection's send window
  through messages; a window unit may be in the pool, in a request, in a
  channel, in a stream's hands or on the wire, and streams die with some of it.
* A stream ends in three steps (`PutWindow`, `StreamClosing`, `StreamClosed`),
  and frames of the peer arrive between any two of them.
* Receive windows of stream and connection are charged in two different tasks
  and refilled by a third (the handler's), all of them without the padding that
  the peer counts.
* A graceful shutdown is announced on a watch channel that every task reads at
  its own time, and is complete when two counters, fed by two channels, are
  zero.
* The future that reads a frame is dropped whenever the shutdown, a tick or a
  stream's request is ready first, and starts over with what is left in the buffer;
  header blocks of refused streams never reach the decoder of the others.
* Deadlines are compared in one branch of a loop that may be elsewhere: in a
  write that blocks, or waiting for a CONTINUATION frame.
* The end of a header line is determined twice, by two functions, on a buffer that
  grows by any number of bytes at a time.
* In HTTP/1 the body of a request is read through the connection task while it
  waits for the handler; a body that outlives its handler competes with the next
  request for the same bytes.

What makes the components correct:

* **HTTP/2 sending**: no unit of window is lost or used twice; no stream with window
  to be had stays asleep; streams are counted exactly; what is on the wire keeps
  within the peer's windows and in order; a shutdown cuts no response off.
* **HTTP/2 request bodies**: what the server buffers is bounded by what it has
  granted; windows come back, but for padding and for streams that end; nobody who
  keeps to them is accused.
* **Reading frames**: what is handled is what was sent; header blocks are kept whole and
  apart; a peer that acknowledges nothing is left once a deadline has passed, as far as
  there is one (each check of a silent connection moves the one of PING on, see `DeadlinesKept`);
  a peer that plays by the rules is thrown out for named reasons only.
* **Server**: a graceful shutdown is complete when everybody it has counted has left (but for
  what a refused connection hides), and then it is.
* **HTTP/1**: bytes of a body reach its reader once and in order, and no more
  of them than the body has; each request is answered or the connection closed.
* **Request heads**: however the head is cut into reads, it ends at its empty line, and its
  fields are those between the lines' ends.
* **Framings**: what is read is what was written, and the end is the end.

The hazards behind these are listed, each at its line of the source, in `PROJECT.json`.

## 2. Modules

The order is the order they were written in, the most important behaviour first.

| module | models | extends / uses |
|---|---|---|
| `H2Connection` | the sending half of an HTTP/2 connection: `main_loop`, one `Stream` task per request, the channels between them, graceful shutdown, every way the connection ends | |
| `H2SendWindow` | the account of the send windows (sums over tasks and channels), lost wake-ups | extends `H2Connection`, `Sums` |
| `H2Wire` | abstract: what the peer may rely on, in terms of the frames on the wire alone | |
| `H2SendWire` | `H2Connection` with a history of lowered windows, and the refinement mapping to `H2Wire` | extends `H2SendWindow`, uses `H2Wire` |
| `H2ConnectionClaims` | a statement of the source's comments that the code does not keep | extends `H2SendWindow` |
| `H2Connection_proofs` | theorems about the three of them: the streams and the graceful shutdown, the account of the send windows, and that `H2Connection` implements `H2Wire` | extends `H2SendWire`, `Sums_proofs` |
| `H2RequestBody` | the receiving half: DATA frames, the windows the server grants, the bodies in the handlers' hands | |
| `H2RequestBody_proofs` | theorems about `H2RequestBody` | extends `H2RequestBody`, `Sums_proofs` |
| `Sums` | sums of sequences and over finite sets, as recursive functions | used by `H2SendWindow`, `H2RequestBody`, `H2Reader` |
| `Sums_proofs` | the laws of these sums, from the least number principle | extends `Sums`, TLAPS |
| `H2Reader` | `read_next_frame` under `select!`, header blocks on their way to the decoder, the deadlines of SETTINGS and PING | |
| `H2Reader_proofs` | theorems about `H2Reader` | extends `H2Reader`, `Sums_proofs` |
| `Server` | `Server::run`, listener and negotiator tasks, the life of connections, `CounterTask` | |
| `Server_proofs` | theorems about `Server` | extends `Server`, TLAPS |
| `H1Connection` | `Connection::handle` of HTTP/1, its handlers and the bodies of their requests, the tasks that drain bodies nobody reads | |
| `H1Connection_proofs` | theorems about `H1Connection` | extends `H1Connection`, TLAPS |
| `H1Head` | `read_request`'s loop over a request head and the parsers of its lines | |
| `H1Head_proofs` | theorems about `H1Head`: the loop, what each parser makes of a line, and what the fields keep of it | extends `H1Head`, `Sums_proofs` |
| `ChunkedBody` | `write_body`, `ChunkedWriter`, a `BufWriter`, the wire and `ChunkedReader` | |
| `BytePipe` | abstract: what a framed body promises to its reader | |
| `ChunkedBody_proofs` | theorems about `ChunkedBody`, and that it implements `BytePipe` | extends `ChunkedBody`, `Sums_proofs` |
| `MC...` | an instance for TLC per module; one `.cfg` per run | |

`H2Connection`, `H2Reader` and `H2RequestBody` are three views of one HTTP/2
connection, each with the others' frames as its input (or none of its business):
`H2Connection` takes frames whole, `H2Reader` makes them of bytes and knows
nothing of windows. `H1Head` is one step (`ReadRequest`) of `H1Connection`, and
`ChunkedBody` what a chunked body does with its bytes. All of them are the inside of one
`open` connection of `Server`: that such a connection closes once it has been told of the
shutdown is what `ShutdownTerminates` says of HTTP/2 and `RequestEnds` of HTTP/1, and their
exceptions are why it may come to a standstill in `Server` instead (`Stall`).

### 2.1 H2Connection

The connection task is the only one that touches the socket. An action is what a
task does between two points where another task can see it: a message sent, a
message received, one round of `distribute_window`'s loop.

| in the code | in the model |
|---|---|
| `main_loop` and its local state | `exit` (how it was left), `distributing` (inside `distribute_window`), `global_window`, `pending_window_req`, `streams`, `biggest_open_stream`, `open_streams`, `pending_gracefull_shutdown`, `initial_window_size` |
| `conn_rx`, `mpsc::unbounded_channel::<ConnectionReq>` | `conn_rx`, a sequence; `from` is a ghost field naming the sender |
| `StreamHandle.tx` of each stream | `rx[t]`, a sequence per task; `Tell` sends, and a send to an exited task is an error |
| `Stream` and the locals of `send_body` | the record `task[t]`; `at` is where the task stands |
| `select!` of `main_loop` | `Selecting`: the actions `Recv...`, `WriteResponse` ... `StreamClosed`, `NoticeShutdown`, `FlushWriteBuffer` are its branches |
| `read_next_frame`, the timers, request bodies | the input of the `Recv...` actions; their failures are `ConnectionFails` |
| the socket and the peer | `wire` (which frames of a stream have been written), `unflushed`, `credit` and `stream_credit` (granted minus written, as the peer counts), `peer_reset` |

A peer opens a stream once, stops using a stream it has reset, and grants window
in `Increments`. A peer that opens streams in the wrong order is an input too
(`RecvIllegalHeaders`), and so is a second HEADERS on an open stream (`TRAILERS`,
`REOPEN`). `OVERFLOW` switches on updates beyond `i32::MAX`.

A SETTINGS frame that lowers the initial window lowers the windows of the open
streams. A task that has asked the connection for window before it hears of that
gets what it asked for and sends it: `send_body` (`stream.rs` 418-437) looks at
`available_window` alone. So a stream's window may be overdrawn by DATA that is written
after the SETTINGS (RFC 9113 6.9.2 has a peer expect this until it sees the
acknowledgement), and what the peer can rely on is the highest window it has given the
stream. `H2SendWire` keeps in the history variable `lowered` how far the window is below
that; `HighestCredit` is the window `H2Wire` is told of.

### 2.2 H2RequestBody

One byte of window goes round a circle of four parties: granted to the peer,
used by a DATA frame, carried through `rx[id]` and `background[id]` to the
`BackgroundRead` in the handler's hands, returned through `window_rx[id]` to the
stream and by `UpdatePeerWindow` to the connection and the peer. `body[id]` is
the `BackgroundRead` (its size, what it has read, the frame at hand); `Drain` is
the task its `Drop` spawns, and a body that is `returned` is read by `send_body` as the
body of the response. Of a stream's life only what concerns a body is
kept.

A DATA frame is `<<n, pad>>`: `n` bytes of data, and what its padding takes of the payload, with
the byte for its length. The peer pays for both (`Pay`). `from_header_and_payload`
(`frame.rs` 722-746) cuts the padding off, and what is checked, charged and given back from
there on is `n`. So the window of padding never comes back; the history variable
`padding` counts it, `Spoilt` sums it up, and the properties say exactly what is lost.
`MaxPadding` bounds it. The model begins when the peer has processed the server's SETTINGS:
before that the peer counts 65,535 for each stream, whatever is configured.

### 2.3 H2Reader

The stream of bytes is the sequence of frames `sent`, and a place in it a number
of units. `received` is how much of it has reached the buffer, `consumed` what the
buffer has been progressed by, and `header` the header that a `read_next_frame` under
way has taken from the buffer: the only state of that future, and lost with it
(`DropRead`, which also sets the history variable `torn`). After that the next
`ParseHeader` may begin in the middle of a payload: `HeadersAt` gives the frame that
begins there, or any member of `Junk`.

| in the code | in the model |
|---|---|
| `read_next_frame` | `ReadFromReader`, `ReadFails`, `FrameBufferFull`, `ParseHeader`, `TakeFrame` |
| `FrameHeader::try_from`, `Frame::from_header_and_payload` | `Refused`; a frame's `content` is what the rest of its payload comes to ("good", "unusual" SETTINGS, or "bad": what the RFC forbids) |
| the arm for HEADERS, with its loop for CONTINUATION | `RecvHeaders`, `RecvContinuation`; `continuing` is the stream the loop waits for |
| `HeadersFrame::try_from` | `Garbled`: a frame with padding and priority; its `Fragment` is `cut`, `Skipped` bytes too far on, or the task panics (`Panic`) |
| the HPACK decoder | `ended` are the blocks that were complete, `refused` those it never saw; it may fail only when `Unreliable` |
| the other arms | `RecvData`, `RecvSettings`, `RecvPing`, `RecvWindowUpdate`, `RecvGoAway`, `RecvUnexpected`, `RecvIgnored`, each with its exits |
| the other branches of `select!` | `NoticeShutdown`, `WriteBranch`, `DistributeFails`, `StreamClosing`, `StreamFails`, `StreamClosed`, `CheckTimeouts` |
| `streams`, `biggest_open_stream`, a `StreamHandle` whose receiver is dropped | `streams`, `biggest_open_stream`, `gone` (`TaskExits`) |
| the messages of stream tasks that are still to come | `working[id]`, `closing[id]`: the tasks that have not announced their end, and those it was taken from |
| an await of a write that the socket does not take | `blocked`, ended by `WriteEnds` |
| `Instant`, `Interval` | `now`, `next_check`; a tick carries the instant it was due at |

`PassTime` lets the clock go past a tick that is due only while the task is blocked in a
write or waits for CONTINUATION: then the missed ticks come in a burst.
Of streams this module keeps what decides over an exit: their count, which of them the
connection has a handle of, and whether the task behind it is there. `dropped` is the history
of the streams that were refused, malformed or closed by the server. Windows and bodies are
`H2Connection`'s and `H2RequestBody`'s; that one is exceeded is an input here ("bad" DATA or
WINDOW_UPDATE).

`NoFalseExit` speaks of every exit of `main_loop` but those the peer (GOAWAY, end of the
connection), the shutdown or a write that failed brings about. Its last part, `NoFalseRefusal`, is about a peer that
plays by the rules (`Lawful`: what RFC 9113 lets a client send, frames of unknown type and CONTINUATION
included), and lists what such a peer is thrown out for all the same:

* a frame of unknown type, which is to be ignored (`frame.rs` 766-769);
* CONTINUATION (`frame.rs` 862);
* SETTINGS with an unknown identifier, or one that comes twice (`frame.rs` 360-427);
* a header block larger than `request_header_buf_size`;
* DATA and trailers for a stream the server has refused or closed (`mod.rs` 482, 512-520);
* DATA, SETTINGS, WINDOW_UPDATE or a window request at a moment when some task has exited and
  its handle is still there (`mod.rs` 491, 654, 708, 396);
* DATA that the stream's task does not expect (`stream.rs` 507).

A decoder that fails and a task that panics are in `NoFalseDecoding`: behind a torn frame, a
refused block, a cut fragment, or what the RFC forbids.

### 2.4 Server

`listener[l]` and `conn[c]` are where each `ListenerTask` and each connection
stands, from accept through negotiation and the first step of its own task to
its end. `listener_events` and `connection_events` are the two channels to
`CounterTask`; `counter`, `listener_counter`, `connection_counter` and
`shutdown` are its state. `run` is `Server::run`. `Changed` is the readiness of
`shutdown.changed()`.

An open connection closes, or comes to a standstill (`Stall`) and is `stuck`: a stream its
HTTP/2 peer has reset waits for window (`http2/mod.rs` 638), an HTTP/1 response spins on a body that
is too short (`lib.rs` 1055), or the task panics (`http2/frame.rs` 154) and the Close behind
`handle_inner` (`http2/mod.rs` 210) is never sent. A refused connection (`server.rs` 517)
sends a Close without an Open: the connection counter is then one too small, so that a shutdown may be
complete over one connection at work for each of them, which `CompletesEarlyOnlyUncounted` and
`CountersExact` count exactly.

### 2.5 H1Connection

`state` is where `handle` stands between two awaits; `buffer` is the connection's
buffer; `body[k]` is the body of request `k` (who holds it, the buffer of its
`BackgroundRead`, what its reader has got); `req_body_rx` is the channel on
which bodies ask for data, and `serving` what `handle_background_read_req` is
about to answer. The oneshot of the answer is `body[k].at` ("asked" to
"answered" or "failed"). A unit of the peer's stream is a whole request head or
a part of a body. That a fresh `Buffer::from(Vec)` counts as full is modelled by
what it does: `NewBody` starts with `Stale` units that its reader gets first.
Body data that ends up where a request is expected is read as a request with no
body, or the connection fails: both are in the model.

### 2.6 H1Head

`Inputs` are sequences of character classes: `a` for the characters of a token, `sp`
and `tab`, `ctl` for what is neither text nor LWS, `:`, `cr` and `nl`. `received` and
`consumed` are places in the input; the buffer is what lies between. `ReadIntoBuffer` reads any
number of characters that fit; `ReadStartLine`, `ReadHeader` and `ReadEnd` are the
branches of the loop, and `Fail` its errors, with `why`. The parsers
(`FindStartLineEnd`, `FindHeaderEnd`, `ParseRequestHeader` and what they call) are operators
on a sequence of characters; like the code's they answer with a length, with "read
more" (`None`) or with an error (`Invalid`).

What the properties compare the loop with is stated of the input as a whole: `StopsAtEmptyLine`
says where the head ends, `FieldsWhole` what a field is (a name, a colon, a value up to a
CRNL that no LWS follows), `RefusedForItself` that a head is only refused for what it
contains, never for how it was cut. A bare NL is LWS for `is_lws_full` and not for
`find_lws_end`: there the parser stops, and what follows in the line is lost.
`FieldsWhole` speaks of heads without one.

### 2.7 ChunkedBody

A poll of the writer is one action that runs the code from the top (`Write`,
`FlushAndWrite(n)`, `FlushAndShutdown(n)`), with `n` units accepted by the
`BufWriter` before it returns Pending. A unit of the wire is a character: a byte of
the body, a digit of a chunk's size, a CR or an NL. Sizes are written in base `Base`
by `Digits` and read by `ParseHex`, recursive functions of the size and of the number of
digits. The reader fills `line`, its `HeaderRoom`
characters, one at a time and asks `FindChunkHeaderEnd` after each. Bytes of the
body look different from the characters of the framing, so that a reader that is out
of step is seen. The wire hands the reader what the writer has let go of, one unit
at a time, and `Fails` cuts it off anywhere. `ChunkedAssumption` says what the
configuration has to give: room for a byte in a chunk buffer, and for the largest
size in the buffer of a chunk header.

`BytePipe` is what a framed body promises: the source's bytes in order, the end only
after all of them, an error only when the pipe was cut.

## 3. What is checked

| run | instance | what it shows |
|---|---|---|
| `MCH2Windows` | two streams of at most two units, windows of 2, connection updates of 2, SETTINGS that lower the windows of streams under tasks that have asked already | `TypeOK`; `WindowConserved`: each unit of connection window is in one place; `CleanExitsLoseNoWindow`; `NoLostWakeUp`; `WireSpec`: `H2Wire` is implemented |
| `MCH2Stream` | one stream, every kind of input but HEADERS refused or repeated, an initial window that shrinks, overflow at `MaxInt` = 2, shutdown at any time | `AsksForItsChunk`, `Served` (of one stream; that two which compete for window leave none of them asleep is `NoLostWakeUp`), `ShutdownTerminates`, `TasksEnd` |
| `MCH2Lifecycle` | two stream ids and two tasks, a limit of one, malformed HEADERS, trailers and second HEADERS, shutdown at any time | `OpenStreamsExact`, `ConcurrencyLimit`, `ShutdownFinishesStreams` |
| `MCH2RequestBody` | two uploads, a connection window and stream windows of 2, frames of 0 to 2 units with padding or without, 2 units of padding in all, a peer that may exceed its windows by 1 | `TypeOK`, `ReceiveWindowConserved`, `StreamWindowAgrees`, `NoFalseAccusation`, `UploadResumes` |
| `MCH2Reader` | three frames out of eighteen kinds, read in parts of 1 or 2 units, a buffer of 2, a clock that moves up to three times, every other branch at any time | `TypeOK`, `FramesInStep`, `BlocksWhole`, `DeadlinesKept`, `NoFalseExit` |
| `MCServer` | a plain and a negotiating listener, two connections that may stall, a limit of 2 per second | `TypeOK`, `CountersExact`, `CompletesEarlyOnlyUncounted`, `ShutdownCompletes` |
| `MCH1Connection` | three streams of requests (bodies longer than their buffer of 2, reads of up to 2 units from the socket, with 100 Continue, with another request behind, cut short) | `TypeOK`, `BodyWithinLimit`, `NothingLost`, `ContinueOnce`, `ShutdownAnswersAll`, `RequestEnds`, `BodiesReleased` |
| `MCH1Head` | every value of up to three characters or folds, two headers, anything at all behind or in place of the start line, each cut into reads in every way | `StopsAtEmptyLine`, `FieldsWhole`, `RefusedForItself` |
| `MCChunkedBody` | five bytes, a chunk buffer of 2, reads of 3, sizes in base 2, a header buffer of 4 characters | `NothingLost`, `StopsAtEnd`, `PipeSpec`: `BytePipe` is implemented, `ReaderEnds` |

Three runs show a statement of the source or its documentation that the code does
not keep. Each has one property and ends with a counterexample.

| run | statement | what the run shows |
|---|---|---|
| `MCH2FlushClaim` | `lib.rs` 271-272: connections close "by first finishing their current request/response cicle" | the `StreamClosing` of the last stream ends `main_loop` (line 457) while the tail of its response is in the `BufWriter`, which nothing flushes any more |
| `MCH2FramingClaim` | `http2/mod.rs` 860-862: `read_next_frame` waits "until the entire frame got send over" and returns it | a tick, or a stream's request, is ready while the payload of a frame is on its way; the header is gone with the future, and the payload is read as the next header |
| `MCH1PostClaim` | `README.md` 34: receiving files "over POST requests works for both HTTP versions" | the buffer of a request body is created full (`buffer.rs` 77-89), and the first bytes the handler reads are not the peer's |

Other statements the models contradict or qualify, without a run of their own:

* `lib.rs` 271-272 again, in `Server`: a connection that is being negotiated or
  has just been spawned is not counted, so the shutdown is complete over it
  (`CompletesEarlyOnlyUncounted` says over nobody else, but for one connection per
  refused one).
* `http2/mod.rs` 722-724 says that an error of a single stream is handled "without closing the
  entire connection"; a SETTINGS frame between a stream's end and its `StreamClosed`
  fails at line 654 and `?` ends the connection (exit "stream gone" of `H2Reader`).
* `lib.rs` 201-203 says that `request_header_buf_size` is implicitly the maximum of
  all headers together; `read_request` frees the buffer line by line, so that it
  bounds each line only (in `MCH1Head` heads longer than `BufSize` are read to their
  end).

### Bounds, and why they are enough

* Two streams are the fewest that compete for window, and a third
  would only wait as the second does. Bodies of two units with chunks of
  two make a chunk that is sent in two parts, which is where requests for window
  are split. In `MCH2Windows` a stream that has used one unit of the connection's two leaves
  the other less than it asks for; in `MCH2Stream` windows of 1 run out in the middle
  of a chunk.
* `MaxInt` stands for `i32::MAX`. It is small enough for the overflow
  branches to be reached (`MCH2Stream`) and the arithmetic is the code's,
  `checked_add` and `checked_sub` with their error exits.
* `MaxQueued` keeps a peer from flooding a task that does not run; one or two
  messages behind are enough for a task to find a reset behind a window, or two
  deltas. It is 2 in `MCH2Lifecycle`: the `Reset` that `StreamClosing` leaves in
  the queue of a task on its way out must not keep the peer from a second HEADERS
  on that stream. The new task is then given the window the old one asked for,
  the only way by which a task without an error comes to hold window it has no use for
  (`GiveBack`).
* In `MCH2RequestBody` the two windows are equal, so a frame beyond the window of its
  stream is beyond the connection's too and is refused there: the stream's own
  refusal is left to the proofs, which hold for windows of any size. A connection
  window of 3 reaches it, at three times the states. The four frames are one unit and two
  of data, padding alone, and data with padding; two units of padding are what it takes to use
  up a window of 2.
* The bodies of `MCH1Connection` exceed the buffers of the connection and of the
  body, so a body takes several reads, which leave something behind in the
  buffer. The connection's `BufferSize` is no larger than `BodyBuf`: the configuration
  is checked for that at the start (`server.rs` 50, `H1Assumption`). `MaxRequests` bounds the requests read, the ones made of stray data
  included.
* `HeaderLen` = 1 and `MaxFrameSize` = 2 in `MCH2Reader` leave three sizes of
  payload to tell apart: none, one that fits beside the next header, one that fills
  the buffer; a fourth does not fit. Three frames are a torn one, the one read in
  its place, and a later one. A clock that moves three times is `SettingsTimeout` +
  `CheckInterval` and one more; the ping's timeouts are 0, so that each check sends
  one and the next may miss it. `MaxEvents` = 4 trades the two: three frames and one move
  of the clock, or one frame and three. `MaxAhead` lets the peer send the next frame when
  no more than a header is unread. With `HeaderBufSize` = 1 a fragment of 2 is too large; with
  `Skipped` = 1 a fragment of a frame with padding and priority loses its unit, or panics.
* `BufSize` = 12 in `MCH1Head` holds a start line (7) and the beginning of a header,
  and no head as a whole; `LineMax` = 10 lies between the shortest and the longest line, so
  that both limits strike. Three pieces are enough for a fold between two characters and for
  every pair of neighbours the parsers look at.
* In `MCChunkedBody` base 2 makes the size of a full chunk a number of two digits;
  the reads of the writer are larger than a chunk and the body ends with a partial
  chunk; larger sizes repeat these cases.

A symmetric instance (`SYMMETRY`, over task names that nothing tells apart) is
only used where no liveness is checked.

`CHECK_DEADLOCK FALSE` is set throughout: a connection that has ended, a server that
has stopped and a body that has been read are final states, and all of them are
meant to be reached.

### Fairness

`Spec` is safety alone; `FairSpec` adds only what the code and its runtime give:

* every task that is ready is polled, and `select!` picks a ready branch at
  random (`biased` is not used), so each branch that stays ready is taken. This
  is weak fairness of each task's own steps;
* handlers end, by `handler_timeout`, and read or drop the bodies they hold until then; what
  the HTTP/1 connection awaits has a timeout, so `Fails` is among the steps that are fair there.
  A body that is returned as the body of the response is another matter: `send_body` reads it
  as fast as the peer grants window, so nothing is assumed of it in `H2RequestBody`, and
  `UploadResumes` excepts it;
* a connection that is `open` in `Server` closes, once it has been told of the shutdown,
  unless it stalls. `Stall` is possible at any moment, and nothing makes a `stuck` connection
  go on;
* a negotiation ends by `negotiation_timeout`;
* in `MCH2Stream` a peer that sees an exhausted window refills
  it. This is an assumption on the peer, without which no response need ever
  end. It is strong fairness for the windows of streams because the bound
  `MaxQueued` may disable the update again and again;
* in `ChunkedBody` the socket moves on or the timeout strikes.

The graceful shutdown's own timeout is there for stuck connections: `ShutdownCompletes` holds
without it for every behaviour in which none stays stuck for ever, and says nothing of the others.

## 4. What is proved

Eight modules hold proofs, each about every value of the constants its component's
assumption allows: any ids, any finite number of tasks, any windows, sizes, limits
and timeouts, any peer. Every safety property that a run checks is among the theorems,
and so are both refinements.

| module | theorem | statement |
|---|---|---|
| `H2Connection_proofs` | `TypeCorrect` | `Spec => []TypeOK` |
| | `OpenStreamsCounted` | `Spec => []OpenStreamsExact`: `open_streams` counts the accepted streams whose `StreamClosing` has not been handled, and the underflow branch is dead code |
| | `ConcurrencyLimited` | `Spec => []ConcurrencyLimit`: never more than `max_concurrent_streams` tasks at work |
| | `ShutdownFinishes` | `Spec => []ShutdownFinishesStreams`: a graceful shutdown leaves no accepted stream without its whole response, or a reset |
| | `WindowKept` | `Spec => []WindowConserved`: each unit of connection window is in one place |
| | `CleanExits` | `Spec => []CleanExitsLoseNoWindow`: a task without an error leaves none behind |
| | `AsksForEachChunk` | `Spec => []AsksForItsChunk`: what is asked for, on its way and in hand is what the chunk needs |
| | `NobodyForgotten` | `Spec => []NoLostWakeUp`: who waits with nothing in flight waits for the peer |
| | `WireKept` | `HistorySpec => WireSpec`: the connection implements `H2Wire` |
| `H2RequestBody_proofs` | `TypeCorrect` | `Spec => []TypeOK` |
| | `ConnectionWindow` | `Spec => []ReceiveWindowConserved`: the receive window is with the peer, lost to padding, with the data held, or on its way back; never more of it, and no less as long as no stream has ended |
| | `StreamWindow` | `Spec => []StreamWindowAgrees`: what the task of a stream that serves checks DATA against is what the peer has left and has paid for padding, but for what is under way |
| | `NeverAccused` | `Spec => []NoFalseAccusation`: who keeps to the windows is not told otherwise |
| `H2Reader_proofs` | `TypeCorrect` | `Spec => []TypeOK`, with the room in the buffer and the limit on streams |
| | `DeadlinesCorrect` | `Spec => []DeadlinesKept`: a task that is on time has left a peer that acknowledges nothing one check after the deadline of the last SETTINGS, or PING |
| | `FramesInOrder` | `Spec => []FramesInStep`: unless a frame is torn, what is handled is what was sent, in order and without a gap |
| | `FragmentsInOrder` | `Spec => []BlocksWhole`: every fragment handled is in one block, in order, refused or not; they are the peer's, whole, unless a frame was torn or cut |
| | `NobodyThrownOut` | `Spec => []NoFalseExit`: a lawful peer is thrown out for the reasons listed in 2.3 only |
| | `BlocksCorrect`, `ExitsJustified` | the first parts of the last two, on which they rest |
| `Server_proofs` | `TypeCorrect` | `Spec => []TypeOK` |
| | `CountersCorrect` | `Spec => []CountersExact`: counters and events under way account for every listener and connection |
| | `CompletesEarlyCorrect` | `Spec => CompletesEarlyOnlyUncounted`: the shutdown is complete over no listener `CounterTask` knows of, and over no more such connections than it has counted refused ones |
| `H1Connection_proofs` | `TypeCorrect` | `Spec => []TypeOK` |
| | `ContinueCorrect` | `Spec => []ContinueOnce`: 100 Continue at most once per request, only if asked for, before the response |
| | `ReadsWithinLimit` | `Spec => []GotInv`: no reader is given more than the body's content-length |
| | `LimitKept` | `Spec => []BodyWithinLimit`: a body takes no more of the connection's bytes than its content-length |
| | `NothingIsLost` | `Spec => []NothingLost`: each unit of the peer is in one place, once |
| | `ShutdownAnswers` | `Spec => []ShutdownAnswersAll`: a shutdown closes the connection only with every request answered, once |
| `H1Head_proofs` | `Invariance` | `Spec => []Inv`: what has been parsed is a beginning of a good head, and no good head is refused |
| | `EndIsFirstEmptyLine` | `Spec => []StopsAtEmptyLine`: a head ends with the first empty line of the input |
| | `RefusalIsOfTheHead` | `Spec => []RefusedForItself`: whether a head is accepted does not depend on the reads it comes in |
| | `FieldsAreLines` | `Spec => []FieldsWhole`: the fields are the lines of the head, each once and in order, less their blanks |
| `ChunkedBody_proofs` | `Invariance` | `Spec => []Inv`: the wire leads from where the reader is to where the writer is |
| | `NothingIsLost` | `Spec => []NothingLost`: every byte read from the body is in one place, in order |
| | `StopsAtTheEnd` | `Spec => []StopsAtEnd`: behind the last chunk the next message begins |
| | `Refinement` | `Spec => PipeSpec`: writer and reader together implement `BytePipe` |

They rest on the assumptions named in the modules (`ConstantsAssumption`,
`RequestBodyAssumption`, `ReaderAssumption`, `ServerAssumption`, `H1Assumption`,
`HeadAssumption`, `ChunkedAssumption`), which TLC
evaluates in every run, and on nothing else, with one exception: `WindowKept`,
`CleanExits`, `AsksForEachChunk`, `NobodyForgotten` and `WireKept`
have the hypothesis `"REOPEN" \notin PeerSends`, that the peer opens each stream once. A second HEADERS on a
stream whose old task is on its way out starts a task that is given what the old one asked
for; with it `AsksForItsChunk`, `CleanExitsLoseNoWindow` and `NoLostWakeUp` are false
(TLC finds each of them violated under the constants of `MCH2Lifecycle`), and the invariant from which
all five are proved is. `MCH2Windows` and `MCH2Stream` satisfy the hypothesis; the
other four theorems of `H2Connection_proofs` do without it.

**H2Connection.** `TypeInv` is `TypeOK` with what the types rest on. It is inductive; its
proof has a step per action, in the lemmas `PeerType`, `ConnectionType` and
`StreamTaskType`. `OpenStreamsExact` is not inductive: a state in which `conn_rx` holds two
`StreamClosing` of one task, or one of a task that is still at work, satisfies
it and loses it when they are handled. `CountInv` adds what rules them out: a task
that works or has not been spawned has no `StreamClosing` in the channel, no
task has two, and `open_streams` is at most the limit. The lemmas follow the three
actions that change the set of open streams (`RequestCount`, `AnnounceCount`,
`ClosingCount`); all others leave it alone (`QuietCount`). `AppendClosing` and `TailClosing`
say what a send and a receive do to the announcements in the channel.
`ConcurrencyLimited` follows: the tasks at work are among the open streams.

**Graceful shutdown.** `ShutdownFinishesStreams` is about the moment the last
`StreamClosing` is handled, and says nothing of the steps before it. `ShutdownInv` follows
the response of one task through the channel all tasks share: a frame is `Sent` when
it is on the wire or in front of a given place in `conn_rx`. Every `StreamClosing` without
an error has the HEADERS and the END_STREAM of its task in front of it
(`RequestInOrder`), and where a task stands tells what it has sent (`TaskInOrder`): behind
`send_response` its HEADERS, at its end all of it, and after its `StreamClosing` that is in
the channel or the stream is finished. A send keeps this (`GrowOrder`) and so does
the receipt of the first request, which writes what it carries (`TakeOrder`). In
`ClosingOrder` the invariant meets `CountInv`: when `open_streams` reaches zero no other
`StreamClosing` is under way and nobody is at work, so every stream is finished.

**Sums.** The windows are accounts: sums over channels and tasks. They are recursive
functions (`Total`, `Over`), and what is needed of them are laws: what an `Append`, a `Tail`,
a changed element or one task's change does to a sum, that parts add up to the whole, and
that sums of naturals are naturals. The induction theorems of the library
take an operator, which the provers cannot instantiate; `Sums_proofs` argues from the least
number that has no such sum instead (`Recursion`, `RecursionAgrees`) and gives the laws
as lemmas that three components cite; `ChunkedBody` takes the principle from there.

**Send windows.** `WindowConserved` is an equation that each step keeps only if what it takes
from one place arrives in another, and for that the amounts have to be natural
numbers: a grant beyond the pool, or an ask for what is not needed, would satisfy
the sum and break the type. `SendInv` has five parts. `OwnStreams` and `OwnRequests`: a task
owns its stream, and the connection forgets it only when the task has exited, so
that a grant reaches the task that asked. `Pool`: `distribute_window` runs exactly as long as there is window
and somebody to have it. `Books`: what a task has asked for, was given and holds (`Owed`) is
what is left of its chunk, and no more than that for one that failed. `Balanced`: the sum.
The step for a grant uses all five: the pool falls by `Given`, the request by as much, and
the task that is told is the one whose book is balanced by it.
The four theorems are read off: `CleanExits` because an account that owes nothing holds
nothing, `NobodyForgotten` because a waiting task that has work left and nothing in
flight has it in `window_needed` or in the queue.

**The wire.** `WireSpec` is proved by simulation (`SeenStep`): each step of `HistoryNext` is a step
of `H2Wire` or leaves what it sees alone. Frames come in order because of what is in
front of them in the channel (`FramesInv`, with `Sent` of the shutdown's proof): behind a
Response there is no second one, before a Frame there is its Response and no END_STREAM.
DATA is within the connection's window because the frame carries window that is in the account
`Balanced`. For the stream's, `Within` follows `Due(t)`, the window the task has taken from its
stream and not yet sent or sent into the channel: it is within `HighestCredit`, and the task's own
`window`, as it reads its channel message by message, never takes it beyond that (`Fits`), and
is brought to the peer's current window at the end of the channel. SETTINGS
add one message to each channel and change `lowered` with it, so that lowering
keeps the highest window and raising does not pass it.

**Request bodies.** The invariant `Inv` is `TypeOK` with the properties and what they need
of each other: `NoWindow` (only `UpdatePeerWindow` carries window in the connection's channel),
`Emptied` (a body has a frame in hand only while it has bytes of it), `Fresh` (a stream that
has not been opened has its whole window and nothing under way), `Granted` (the peer's
idea of the connection window is the server's less the padding it has paid for, and a peer that
has not overdrawn has no negative stream window). `ReceiveWindowConserved` is `Granted` and
`Balance`, the part of it that speaks of the server alone, which padding does not touch. It and
`StreamWindowAgrees` are sums like those of the sending half. `NoFalseAccusation` follows from
both: a stream's task counts what the peer has left, and what is under way in either
direction; as long as the peer's share is not negative, the DATA frames in the channel are covered.

**H2Reader.** `DeadlinesKept` speaks of the clock, which any step of time moves, and
only of a task that is on time, so it is not inductive. `DeadlineInv` leaves the
clock out: as long as nothing is acknowledged the deadline is the one the last write
set (or, for a PING, an earlier one), and the next check is at most one interval
behind it. It is kept because the check that finds the deadline passed is the last
(`CheckDeadlines`), because a new SETTINGS only moves it on (`ShutdownDeadline`),
and because a frame that takes it away is an acknowledgement (`HandleDeadlines`,
`TakeFrameAcks`). For the blocks, `BufferInv` says what `header_buffer` holds
between two frames: nothing outside the loop for CONTINUATION, and inside it a block
that is open. For the exits, `TimeInv` ties each deadline to the write it counts from, and
`DecodeInv` says that every fragment in a block is that of a frame handled, cut if that has both
padding and priority, so that a decoder that fails has one of these frames, a refused block or a
torn frame behind it.

`FramesInStep` says where the boundaries of frames are in terms of all that has been
handled. `InStep` is what a step can keep: the frames handled are the first that were sent,
what is consumed is their length, or that and one header when `header` is the next frame's.
A header that is parsed out of what has arrived is then the header of a frame that was sent
(`PrefixOrder`: two starts of one stream agree as far as the shorter goes), and a peaceful
peer's frames are each `Lawful` where they are handled (`HandledLawful`). Whether a lawful HEADERS or DATA
frame finds its stream depends on all that came before: `StreamsInv` says that every stream
a HEADERS frame was handled for is still known, to `streams` or to `dropped` (`Heard`), that
`biggest_open_stream` is one of them (`Biggest`), and that the loop for CONTINUATION waits behind a
frame that asks for one (`Waiting`). Then each exit has a reason of its own (`Justified`),
which is the last part of `NoFalseExit`. `Justified` is kept with a peer that is peaceful to
the end, because one that is was so before (`PeacefulBefore`).

`WholeInv` says that the fragments of the complete blocks and of the one at hand, one after another, are those
of the frames handled: it needs what an `Append` does to a flattening and to a selection
(`FlattenAppend`, `AmongAppend`), laws of recursive functions again, proved like those of the sums.
With `FramesInStep` they are the fragments of the frames sent. Nothing is proved of the decoder's table:
it is in step with the peer's only if no block was refused, and no frame torn or cut.

**Server.** `CountersExact` relates the counters to the tasks through what is in the
channels and to the refused connections whose Close has no Open. The strengthening is the order in each channel (`InOrder`: no event twice,
an Open in front of its Close) and, per listener and connection, which events may be
under way in which state. `QueueAppend` and `QueueTail` say what a send and a
receive do to it; `ListenerCounted` and `ConnectionCounted` take one event from the
front and account for it. The claim about the moment of completion follows from the
invariant before the step.

**H1Connection.** `TypeInv` adds that every request has its handler and its body.
`ContinueInv` adds to `ContinueOnce` that `expects_continue` belongs to the request
at hand as long as its body is served, that nothing has been written for that
request yet, and that the flag is set where the line is about to be written and
cleared behind it. `GotInv` is inductive with the types: `PollBytes` is the only
step that reads, and it keeps to the limit (`PollBytesBody`).

`BodyWithinLimit` counts what is in a body's buffer too, and the request that fills it was
made before the buffer was filled, perhaps by another task. `AskInv` says of every request in
`req_body_rx`, and of the one being served, that its body waits for it with an empty
buffer and is the only one it has under way, and that it asks for no more than
the body is short of. `WithinInv` then follows for what is answered. `ShutdownAnswersAll` needs
`AnswerInv`: all requests but the one at hand are answered, once, and the one at hand is
not as long as its handler is awaited.

`NothingLost` says that each unit of the peer is in one place. `PlacedInv` says it of each
unit by itself: ahead (in the part that is served, the buffer or the socket), read as a
request, or in the line of one body, and once there. Counting units would need sums
over bodies; a unit by itself needs only what a move does to two places (`OnceIn`, `NotIn`).

**ChunkedBody.** Neither property says anything of chunks, and neither is inductive: from a
reader that has a wrong size in hand, or is ahead of the writer by a character, all
that both say is lost in a few steps. What the two sides agree on is the message. A
place in it is a chunk (its size `n` and where in the body it begins, `p`) and how many units
of it have gone by (`k`); `Follows` is the order of places, and `Unit` the character in front
of one. `Path(u, l, m)` says that the units `u` lead from `l` to `m`, one place at a time.
`Linked`, the heart of `Inv`, says that what is on the wire and in the `BufWriter` is a path from a
place where the reader may be (`InHeader`, `InChunk`, `AtEnd`) to one where the writer may be (in no
chunk, in one it has sent a part of, in the last one, or behind it). A step of the writer
makes the path longer at its end, by a part of the chunk at hand (`Written`), a step of the
reader takes from its beginning. That the reader makes of the next character what the
place says rests on two facts about data: `FindChunkHeaderEnd` stops at the NL
of a header and not before, and `ParseHex` reads what `Digits` has written (`DigitsParsed`). Both
are about recursive functions of any length, proved by the least number principle.
The bytes of a path are those of the body between its two places, which is `NothingLost`; behind
the last chunk there is nothing, or the next message, which is `StopsAtEnd`. A reader is never
refused anything but by a cut, since the character it looks at is that of its place;
`Refinement` adds what each of its steps delivers. TLC checked `Inv` on the instance of
`MCChunkedBody` before it was proved.

**H1Head.** Its properties compare the loop with the input as a whole, most of which it
has not seen. `Inv` says what is known of the input from the part that has been parsed:
`Parsed(consumed)` says that this part ends with a line, has a start line that is one and good lines
only, and no empty line; `GoodHead(e)` is what it becomes when the empty line at `e` has been
read, and is `Acceptable` put together from the front instead of stated from the end
(`AcceptableIs`). A step moves `Parsed` on by a line, and for that the end that is found
in the buffer has to be the end of the line in the input: `find_header_end` passes over
a CR only if it begins a fold, and a fold holds no end of a line (`NoEndInFolds`,
`LineInInput`). A buffer in which none is found has none with the character behind it
(`NoLineFound`, `NoStartFound`), which is the case of "full" and of "eof". For the refusals it has to
be shown that no good head begins like this (`HeaderInvalid`, `EndInvalid`, `HeaderGood`).

The header parser is given the whole buffer and finds the end of the line again. `HeaderIs` says
that it succeeds exactly if the line up to the end that `find_header_end` has found
is a name, a colon and values without a control. It rests on `MultiInLine` (`find_multi_lws_end`, from
a place in the line, stops in the line, in front of its last CR at the latest) and
`ValuesInLine` (so does the loop over the values). Both are about functions recursive in
the buffer from its end: `Descent` gives them values, and the least number of characters
left in the line for which the claim fails gives a contradiction. 

`FieldsWhole` says what the values of a line are, and its invariant, `FieldsInv`, is kept beside `Inv`:
the fields parsed so far, each put together again and joined, are the input behind the
start line less its blanks, and the lines that have ended are one more than the fields. The
step is one line: `HeaderKept` says that a field put together again is its line less the
blanks. It follows by the same descent from what one step over a value leaves behind
(`ValuesKept`), since `find_multi_lws_end` passes over blanks only (`GapKeepsNothing`) unless a
bare NL ends the line early. `FlattenSeq` and `NoBlank` go through sequences of any length: what is
needed of them (the one joins, the other keeps to the parts it is given: `FlattenAppend`,
`NoBlankJoin`, `NoBlankParts`) is proved once, over the set of the sequences for which it
holds (`SequenceInduction`). TLC checked `Inv` and `FieldsInv` on the instance of `MCH1Head`.

Only model-checked is liveness (`Served`, `ShutdownTerminates`, `TasksEnd`, `UploadResumes`,
`RequestEnds`, `BodiesReleased`, `ShutdownCompletes`, `ReaderEnds`): it rests on fairness and
ENABLED, which the prover does not handle.

## 5. What is not modelled

* **HPACK's coding, and what a request head says.** The coding is the `hpack` crate's. In HTTP/2
  a head is well formed, malformed or undecodable; the checks of pseudo-headers in
  `read_request` are that verdict. In HTTP/1 a start line has its three parts and a
  version that is long enough, and a value is characters: methods, URIs, queries, cookies and
  content types are not interpreted.
* **Formatting.** Frames and heads that the server writes are written as a whole.
* **The upgrade** of an HTTP/1 connection by preface, and the choice of a protocol by ALPN.
* **Paths, byte ranges, files** (`util/*`). Helpers for applications, pure or plain
  I/O, which the library never calls.
* **The ring buffer** in the second half of `buffer.rs`, which nothing uses.
* **Sockets and TLS, configuration, error types.** No state of their own.
* **Time**, outside `H2Reader`. A deadline is a step that may happen at any moment
  while it is armed; the limit of connections per second is modelled as a count and
  a pause.
* **The width of integers**, but for the windows: a chunk's size, the counters of
  streams and connections and the clock are natural numbers.

## 6. Plan

Written, in this order: `H2Connection` with `H2SendWindow`, `H2Wire`, the claims and
the first proofs; `H2RequestBody`; `Server`; `H1Connection`; `ChunkedBody` with
`BytePipe`; `H2Reader`; `H1Head`; the proofs of `Server`, `H2Reader` and
`H1Connection`; the proof that a graceful shutdown cuts no response off; `Sums` and the
accounts of both halves of the windows; `H2SendWire` and the proof that `H2Wire` is implemented;
the proofs of `ChunkedBody`, and that it implements `BytePipe`; the proofs of `H1Head`.

What is left:

1. `H2Reader` under `H2Connection`: one module in which the frames that arrive drive windows
   and streams, so that `torn` frames are seen where they do harm.
2. The two halves of a stream in one module, with the trailers of responses.
3. The pseudo-headers of `read_request` as a machine of their own.
