----------------------------- MODULE H1Connection -----------------------------
(***************************************************************************)
(* An HTTP/1 connection: Connection::handle reads a request, spawns its    *)
(* handler, serves the handler's reads of the request body, writes the     *)
(* response and starts over.  The body in the handler's hands is a         *)
(* LimitReader around a BackgroundRead, which sends its buffer to the      *)
(* connection task to have it filled and gets it back through a oneshot.   *)
(*                                                                         *)
(*   peer --inbound--> buffer --request--> handler                         *)
(*                     buffer <--req_body_rx-- BackgroundRead (handler,    *)
(*                            --oneshot-->     drain task, or response)    *)
(*                                                                         *)
(* A body that is dropped is read to its end by a task of its own.  Nobody *)
(* waits for that task: it may still be reading when the next request is   *)
(* parsed and even when its handler runs.                                  *)
(*                                                                         *)
(* Data: a unit of the peer's stream is the whole head of a request, or a  *)
(* part of a body.  Bodies with a content-length are modelled; what a      *)
(* ChunkedReader does with the bytes is the subject of ChunkedBody.        *)
(***************************************************************************)
EXTENDS Naturals, Sequences, FiniteSets

CONSTANTS
    Streams,       \* what the peer may send: sequences of units
    BodyBuf,       \* request_body_buf_size
    BufferSize,    \* request_header_buf_size
    MaxRead,       \* the largest buffer a reader of a body offers
    MaxRequests    \* bound: requests read, the ones made of body data included

Heads == [head : {TRUE}, of : Nat, size : Nat, expects_continue : BOOLEAN]
Data  == [head : {FALSE}, of : Nat, at : Nat]

\* A unit that nobody sent.
Stale == [head |-> FALSE, of |-> 0, at |-> 0]

\* The units of a stream are told apart: a unit stands for its place in it.
ASSUME H1Assumption ==
    /\ \A s \in Streams :
           /\ s \in Seq(Heads \cup (Data \ {Stale}))
           /\ \A i, j \in DOMAIN s : s[i] = s[j] => i = j
    /\ BodyBuf \in Nat \ {0} /\ BufferSize \in Nat \ {0} /\ MaxRead \in Nat \ {0}
    /\ BufferSize <= BodyBuf    \* Server::new_with_config panics otherwise
    /\ MaxRequests \in Nat

VARIABLES
    stream,        \* everything the peer sends in this behaviour
    inbound,       \* what of it has not been read from the socket
    shutdown,      \* Server::run has announced a shutdown
    \* The connection task.
    state,         \* where Connection::handle stands
    exit,          \* why it was left
    buffer,        \* Connection.buffer
    requests,      \* the requests read so far; the last one is at hand
    expects_continue,
    req_body_rx,   \* read requests of bodies
    serving,       \* the arguments of handle_background_read_req
    response,      \* the response being written
    \* The handler tasks and the bodies of their requests.
    handler, body,
    \* The peer's view.
    out            \* what has been written, in order

connVars == <<state, exit, buffer, requests, expects_continue, serving, response>>
vars == <<stream, inbound, shutdown, connVars, req_body_rx, handler, body, out>>

NotServing == [of |-> 0, amount |-> 0, part |-> << >>]

NoBody == [holder |-> "gone", size |-> 0, at |-> "here", buf |-> << >>, got |-> << >>]

\* Buffer::from(Vec) puts the write_pointer at the end of the vector: the buffer
\* is full from the start, with zeros or with what its last user has left in it.
NewBody(size) == [holder |-> "handler", size |-> size, at |-> "here",
                  buf |-> [i \in 1..BodyBuf |-> Stale], got |-> << >>]

Current == Len(requests)

Smaller(m, n) == IF m <= n THEN m ELSE n
Front(s, n) == SubSeq(s, 1, Smaller(n, Len(s)))
Rest(s, n) == SubSeq(s, n + 1, Len(s))

Init ==
    /\ stream \in Streams /\ inbound = stream
    /\ shutdown = FALSE
    /\ state = "peeking" /\ exit = "none"
    /\ buffer = << >> /\ requests = << >> /\ expects_continue = FALSE
    /\ req_body_rx = << >> /\ serving = NotServing /\ response = "none"
    /\ handler = << >> /\ body = << >>
    /\ out = << >>

AnnounceShutdown ==
    /\ ~shutdown /\ shutdown' = TRUE
    /\ UNCHANGED <<stream, inbound, connVars, req_body_rx, handler, body, out>>

-----------------------------------------------------------------------------
(* The end of the connection. *)

\* Mutant: the readers are left without an answer.
Released_Waiting == body

\* The receiver of the read requests is dropped with all the answers it owes.
\* A response goes too: write_body has taken its body out of reach of Body::drop.
Released == [k \in DOMAIN body |->
    [body[k] EXCEPT !.at = IF @ = "asked" THEN "failed" ELSE @,
                    !.holder = IF @ # "response" THEN @
                               ELSE IF state = "writing" THEN "gone" ELSE "drain"]]

Close(how) ==
    /\ state' = "closed" /\ exit' = how
    /\ req_body_rx' = << >> /\ serving' = NotServing /\ response' = "none"
    /\ body' = Released
    /\ UNCHANGED <<stream, inbound, shutdown, buffer, requests, expects_continue,
                   handler, out>>

\* Mutant: a read for a body may take as long as it likes.
Fails_NoTimeout ==
    /\ state \in {"peeking", "found", "continuing", "writing"}
    /\ Close("failed")

\* An end of file, an error of the socket, or a timeout; or a request that is
\* refused (read_request, determine_body_type).
Fails ==
    /\ state \in {"peeking", "found", "continuing", "awaiting", "writing"}
    /\ Close("failed")

\* Mutant: shutdown.changed() is also awaited with the handler.
NoticeShutdown_Always ==
    state \in {"peeking", "handling"} /\ shutdown /\ Close("shutdown")

NoticeShutdown == state = "peeking" /\ shutdown /\ Close("shutdown")

-----------------------------------------------------------------------------
(* Reading a request. *)

\* read_into_buffer, when the buffer has been emptied.
ReadIntoBuffer(n) ==
    /\ n <= Len(inbound) /\ n <= BufferSize
    /\ buffer' = Front(inbound, n)
    /\ inbound' = Rest(inbound, n)

\* peek_request: at once if something of the next request is already there.
PeekRequest ==
    /\ state = "peeking" /\ state' = "found"
    /\ IF buffer # << >> THEN UNCHANGED <<buffer, inbound>>
       ELSE \E n \in 1..BufferSize : ReadIntoBuffer(n)
    /\ UNCHANGED <<stream, shutdown, exit, requests, expects_continue, req_body_rx,
                   serving, response, handler, body, out>>

\* read_request, and its handler is spawned.  Data of a body that happens to be
\* at the front is taken for a request without a body (or fails: Fails).
ReadRequest ==
    LET unit == buffer[1]
        request == IF unit.head THEN unit
                   ELSE [head |-> FALSE, of |-> unit.of, at |-> unit.at,
                         size |-> 0, expects_continue |-> FALSE]
    IN
    /\ state = "found" /\ Current < MaxRequests
    /\ buffer' = Tail(buffer)
    /\ requests' = Append(requests, unit)
    /\ expects_continue' = request.expects_continue
    /\ body' = Append(body, IF request.size = 0 THEN NoBody ELSE NewBody(request.size))
    /\ handler' = Append(handler, "running")
    /\ state' = "handling"
    /\ UNCHANGED <<stream, inbound, shutdown, exit, req_body_rx, serving, response, out>>

-----------------------------------------------------------------------------
(* handle_background_read_req, while the handler runs. *)

\* Hand the buffer back with "units" in it.
Answer(k, units) == body' = [body EXCEPT ![k].at = "answered", ![k].buf = units]

\* Mutant: a buffer that has enough is not told from one that has not.
ServeFrom_NoCheck(k, amount) ==
    /\ serving' = [of |-> k, amount |-> amount - Len(buffer), part |-> buffer]
    /\ buffer' = << >>
    /\ state' = "awaiting" /\ UNCHANGED body

\* From the connection's buffer, or what there is of it before the next read.
ServeFrom(k, amount) ==
    IF buffer # << >> /\ Len(buffer) >= amount
    THEN /\ Answer(k, Front(buffer, amount))
         /\ buffer' = Rest(buffer, amount)
         /\ state' = "handling" /\ serving' = NotServing
    ELSE /\ serving' = [of |-> k, amount |-> amount - Len(buffer), part |-> buffer]
         /\ buffer' = << >>
         /\ state' = "awaiting" /\ UNCHANGED body

\* A read request arrives; at most the free space of its buffer is filled.
TakeReadRequest ==
    /\ state = "handling" /\ req_body_rx # << >>
    /\ req_body_rx' = Tail(req_body_rx)
    /\ LET req == Head(req_body_rx)
           amount == Smaller(req.amount, BodyBuf)
       IN IF expects_continue
          THEN /\ serving' = [of |-> req.of, amount |-> amount, part |-> << >>]
               /\ state' = "continuing" /\ UNCHANGED <<buffer, body>>
          ELSE ServeFrom(req.of, amount)
    /\ UNCHANGED <<stream, inbound, shutdown, exit, requests, expects_continue,
                   response, handler, out>>

\* Mutant: the line is sent for every read.
WriteContinue_Again ==
    /\ state = "continuing"
    /\ out' = Append(out, [kind |-> "continue", of |-> Current])
    /\ ServeFrom(serving.of, serving.amount)
    /\ UNCHANGED <<stream, inbound, shutdown, exit, requests, expects_continue,
                   req_body_rx, response, handler>>

\* 100 Continue goes out before the first read.
WriteContinue ==
    /\ state = "continuing"
    /\ expects_continue' = FALSE
    /\ out' = Append(out, [kind |-> "continue", of |-> Current])
    /\ ServeFrom(serving.of, serving.amount)
    /\ UNCHANGED <<stream, inbound, shutdown, exit, requests, req_body_rx, response,
                   handler>>

\* Mutant: what was copied before the read is overwritten.
Chunk_Rewound(units) == Front(units, serving.amount)

\* What the buffer of the body holds after the read.
Chunk(units) == serving.part \o Front(units, serving.amount)

\* The read it has waited for.
ReadChunk ==
    /\ state = "awaiting"
    /\ \E n \in 1..BufferSize :
           /\ n <= Len(inbound)
           /\ Answer(serving.of, Chunk(Front(inbound, n)))
           /\ buffer' = Rest(Front(inbound, n), serving.amount)
           /\ inbound' = Rest(inbound, n)
    /\ state' = "handling" /\ serving' = NotServing
    /\ UNCHANGED <<stream, shutdown, exit, requests, expects_continue, req_body_rx,
                   response, handler, out>>

-----------------------------------------------------------------------------
(* The response. *)

\* The handler is done: its response is written, or there is none (an error, a
\* panic, a timeout) and the connection ends.
TakeResult ==
    /\ state = "handling" /\ handler[Current] \notin {"running", "failed"}
    /\ state' = "writing" /\ response' = handler[Current]
    /\ UNCHANGED <<stream, inbound, shutdown, exit, buffer, requests,
                   expects_continue, req_body_rx, serving, handler, body, out>>

TakeFailure ==
    /\ state = "handling" /\ handler[Current] = "failed"
    /\ Close("failed")

Written(frames) ==
    /\ out' = out \o frames
    /\ state' = "peeking" /\ response' = "none"
    /\ UNCHANGED <<stream, inbound, shutdown, exit, buffer, requests,
                   expects_continue, req_body_rx, serving, handler>>

Response == [kind |-> "response", of |-> Current]

\* A body as long as its body_len, or chunked.
WriteWhole ==
    /\ state = "writing" /\ response = "whole"
    /\ Written(<<Response>>) /\ UNCHANGED body

\* A body longer than its body_len: the last read may bring more than is missing.
WriteLong ==
    /\ state = "writing" /\ response = "long"
    /\ \E surplus \in {<< >>, <<[kind |-> "surplus", of |-> Current]>>} :
           Written(<<Response>> \o surplus)
    /\ UNCHANGED body

\* A body shorter than its body_len: reads of nothing go on until the timeout
\* (Fails), or for ever, if neither the reads nor the writes of nothing ever wait.
\* The body of the request, sent back, is one if its handler has read some of it:
\* its body_len still is the content-length.
WriteShort ==
    /\ state = "writing"
    /\ \/ response = "short"
       \/ response = "leftover" /\ Len(body[Current].got) = body[Current].size
    /\ state' = "spinning"
    /\ UNCHANGED <<stream, inbound, shutdown, exit, buffer, requests, expects_continue,
                   req_body_rx, serving, response, handler, body, out>>

\* The request body, sent back from its first byte to its last.
WriteEcho ==
    /\ state = "writing" /\ response = "echo"
    /\ Len(body[Current].got) = body[Current].size
    /\ Written(<<Response>>)
    /\ body' = [body EXCEPT ![Current].holder = "gone"]

-----------------------------------------------------------------------------
(* The handlers. *)

Keep == UNCHANGED <<stream, inbound, shutdown, connVars, out>>

\* Body::drop: a task reads on.
Dropped(k) == [body EXCEPT ![k].holder = IF @ = "handler" THEN "drain" ELSE @]

DropBody(k) ==
    /\ handler[k] = "running" /\ body[k].holder = "handler"
    /\ body' = Dropped(k)
    /\ Keep /\ UNCHANGED <<req_body_rx, handler>>

\* The handler returns, and drops the body unless it is in the response.
FinishHandler(k) ==
    /\ handler[k] = "running"
    /\ \E result \in {"whole", "long", "short", "echo", "leftover", "failed"} :
           /\ handler' = [handler EXCEPT ![k] = result]
           /\ IF result \in {"echo", "leftover"}
              THEN /\ state # "closed" /\ body[k].holder = "handler"
                   /\ result = "echo" <=> body[k].got = << >>
                   /\ body' = [body EXCEPT ![k].holder = "response"]
              ELSE body' = Dropped(k)
    /\ Keep /\ UNCHANGED req_body_rx

-----------------------------------------------------------------------------
(* LimitReader::poll_read around BackgroundRead::poll_read. *)

\* Mutant: the limit of the LimitReader is not applied.
Wanted_Unlimited(k, want) == want

\* At most the rest of the body; nothing is polled at its end.
Wanted(k, want) == Smaller(want, body[k].size - Len(body[k].got))

\* Who may poll, and with a buffer of which size.
Polls(k, want) ==
    /\ Len(body[k].got) < body[k].size
    /\ \/ body[k].holder = "handler" /\ handler[k] = "running"
       \/ body[k].holder = "drain" /\ want = MaxRead
       \/ body[k].holder = "response" /\ state = "writing" /\ k = Current /\ want = MaxRead

\* Bytes are there: unread ones, or those of an answer.
PollBytes(k, want) ==
    /\ Polls(k, want) /\ body[k].at \in {"here", "answered"} /\ body[k].buf # << >>
    /\ body' = [body EXCEPT ![k].at = "here",
                            ![k].got = @ \o Front(body[k].buf, Wanted(k, want)),
                            ![k].buf = Rest(@, Wanted(k, want))]
    /\ Keep /\ UNCHANGED <<req_body_rx, handler>>

\* None are there: send the buffer to the connection task.
PollEmpty(k, want) ==
    /\ Polls(k, want) /\ body[k].at = "here" /\ body[k].buf = << >>
    /\ IF state = "closed"
       THEN body' = [body EXCEPT ![k].at = "failed"] /\ UNCHANGED req_body_rx
       ELSE /\ body' = [body EXCEPT ![k].at = "asked"]
            /\ req_body_rx' = Append(req_body_rx, [of |-> k, amount |-> Wanted(k, want)])
    /\ Keep /\ UNCHANGED handler

\* The end of the body, or an error: the drain task is done.  (A handler sees an
\* error too, and it sees it again if it polls on.)
EndDrain(k) ==
    /\ body[k].holder = "drain"
    /\ body[k].at = "failed" \/ Len(body[k].got) = body[k].size
    /\ body' = [body EXCEPT ![k].holder = "gone"]
    /\ Keep /\ UNCHANGED <<req_body_rx, handler>>

-----------------------------------------------------------------------------

Connection ==
    \/ PeekRequest \/ ReadRequest
    \/ TakeReadRequest \/ WriteContinue \/ ReadChunk
    \/ TakeResult \/ TakeFailure
    \/ WriteWhole \/ WriteLong \/ WriteShort \/ WriteEcho
    \/ Fails \/ NoticeShutdown

Drain(k) ==
    \/ EndDrain(k)
    \/ body[k].holder = "drain" /\ (PollBytes(k, MaxRead) \/ PollEmpty(k, MaxRead))

Tasks(k) ==
    \/ DropBody(k) \/ FinishHandler(k) \/ EndDrain(k)
    \/ \E want \in 1..MaxRead : PollBytes(k, want) \/ PollEmpty(k, want)

Next ==
    \/ Connection \/ AnnounceShutdown
    \/ \E k \in DOMAIN body : Tasks(k)

Spec == Init /\ [][Next]_vars

\* Everything the connection awaits has a timeout, handler_timeout ends the
\* handlers, and the runtime polls the drain tasks.
Fairness ==
    /\ WF_vars(Connection)
    /\ \A k \in 1..MaxRequests :
           /\ WF_vars(k \in DOMAIN body /\ FinishHandler(k))
           /\ WF_vars(k \in DOMAIN body /\ Drain(k))

FairSpec == Spec /\ Fairness

-----------------------------------------------------------------------------
(* Properties. *)

Units == Heads \cup Data

\* The type of every variable.
TypeOK ==
    /\ stream \in Seq(Units) /\ inbound \in Seq(Units) /\ buffer \in Seq(Units)
    /\ shutdown \in BOOLEAN /\ expects_continue \in BOOLEAN
    /\ state \in {"peeking", "found", "handling", "continuing", "awaiting",
                 "writing", "spinning", "closed"}
    /\ exit \in {"none", "failed", "shutdown"}
    /\ requests \in Seq(Units)
    /\ req_body_rx \in Seq([of : Nat, amount : Nat])
    /\ serving \in [of : Nat, amount : Nat, part : Seq(Units)]
    /\ response \in {"none", "whole", "long", "short", "echo", "leftover"}
    /\ handler \in Seq({"running", "whole", "long", "short", "echo", "leftover", "failed"})
    /\ body \in Seq([holder : {"handler", "drain", "response", "gone"}, size : Nat,
                     at : {"here", "asked", "answered", "failed"},
                     buf : Seq(Units), got : Seq(Units)])
    /\ out \in Seq([kind : {"continue", "response", "surplus"}, of : Nat])

Times(u, s) == Cardinality({i \in DOMAIN s : s[i] = u})

\* How many units of a buffer somebody has sent.
Fresh(s) == Cardinality({i \in DOMAIN s : s[i] # Stale})

\* What is on its way to the reader of body k.
Coming(k) ==
    Fresh(body[k].buf) + IF serving.of = k THEN Fresh(serving.part) ELSE 0

\* With what has been read, a body takes no more of the connection's bytes than
\* its content-length, even if it is read by several tasks in turn, in pieces of
\* any size, and while another request is at hand.
BodyWithinLimit == \A k \in DOMAIN body : Len(body[k].got) + Coming(k) <= body[k].size

\* Whoever competes for the bytes of the connection, none of them is lost and
\* none is handed out twice while the connection is open.
NothingLost ==
    state # "closed" =>
        \A i \in DOMAIN stream :
            LET u == stream[i]
                bodies == {k \in DOMAIN body : Times(u, body[k].got \o body[k].buf) = 1}
            IN /\ \A k \in DOMAIN body : Times(u, body[k].got \o body[k].buf) <= 1
               /\ 1 = Cardinality(bodies) + Times(u, inbound) + Times(u, buffer)
                       + Times(u, requests) + Times(u, serving.part)

\* 100 Continue is written at most once per request, only if it asked for it, and
\* never after its response: not even for the reads of a body left behind by an
\* earlier request.
ContinueOnce ==
    \A i \in DOMAIN out : out[i].kind = "continue" =>
        /\ requests[out[i].of].head /\ requests[out[i].of].expects_continue
        /\ \A j \in 1..(i - 1) : out[j].of # out[i].of

\* One response has been written for the request, and no more.
Answered(k) ==
    \E i \in DOMAIN out : \A j \in DOMAIN out :
        out[j] = [kind |-> "response", of |-> k] <=> j = i

\* A graceful shutdown closes the connection only when every request it has
\* read has its response.
ShutdownAnswersAll == exit = "shutdown" => \A k \in DOMAIN requests : Answered(k)

\* Every request comes to an end, with its response or with the connection,
\* whatever the handler, its body and the peer do - unless the connection task
\* spins over a response that is shorter than its body_len.
RequestEnds ==
    state \in {"found", "handling", "continuing", "awaiting", "writing"}
        ~> state \in {"peeking", "closed", "spinning"}

\* When the connection is closed nobody goes on waiting for a part of a body:
\* every body is dropped, the ones held by drain tasks included.
BodiesReleased ==
    state = "closed" ~> \A k \in DOMAIN body : body[k].holder = "gone"

\* README: receiving files "over POST requests works": a reader of a body gets
\* the bytes the peer has sent for that body.  It does not: the first bytes it
\* gets are those of a buffer that counts as full when it is new.
BodiesArrive ==
    \A k \in DOMAIN body : \A i \in DOMAIN body[k].got :
        body[k].got[i] = [head |-> FALSE, of |-> requests[k].of, at |-> i]
=============================================================================
