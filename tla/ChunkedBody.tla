----------------------------- MODULE ChunkedBody -----------------------------
(***************************************************************************)
(* The chunked transfer encoding: write_body feeds a response body to a    *)
(* ChunkedWriter, and a ChunkedReader decodes a request body.  The two     *)
(* never meet in one process; here the one reads what the other has        *)
(* written, through a BufWriter and a wire that may take and yield any     *)
(* number of bytes at a time.                                              *)
(*                                                                         *)
(*   body --todo--> ChunkedWriter --held (BufWriter)--> wire --> ChunkedReader *)
(*                                                                         *)
(* A unit of the wire is a character: of the body, or of what frames it.   *)
(* A poll of the writer is one action: it goes through the code from the   *)
(* top, with as many units accepted as the BufWriter likes, and is left    *)
(* with Pending where the BufWriter has had enough.  A poll of the reader  *)
(* is as many actions as it has reads of the wire; it reads what frames    *)
(* the chunks character by character into a buffer of its own.             *)
(***************************************************************************)
EXTENDS Integers, SequencesExt

CONSTANTS
    Source,      \* the body
    MaxRead,     \* response_body_buf_size, and the buffer of the reader's user
    Capacity,    \* response_chunked_buf_size - 2
    Base,        \* of the digits of a chunk's size: 16
    HeaderRoom   \* request_chunked_header_buf_size

\* A size as digits, most significant first; and read back.
Digits[n \in Nat] == IF n < Base THEN <<n>> ELSE Append(Digits[n \div Base], n % Base)
ParseHex(digits) ==
    LET total[i \in 0..Len(digits)] ==
            IF i = 0 THEN 0 ELSE Base * total[i - 1] + digits[i]
    IN total[Len(digits)]

ASSUME ChunkedAssumption ==
    /\ Source \in Seq(Nat)
    /\ MaxRead \in Nat \ {0} /\ Capacity \in Nat \ {0}
    /\ Base \in Nat \ {0, 1}
    /\ HeaderRoom \in Nat /\ HeaderRoom >= Len(Digits[Capacity]) + 2

Byte(b) == [kind |-> "byte", n |-> b]
Digit(d) == [kind |-> "digit", n |-> d]
CR == [kind |-> "cr", n |-> 0]
NL == [kind |-> "nl", n |-> 0]
NextMessage == [kind |-> "next", n |-> 0]

CRLF == <<CR, NL>>
Header(n) == [i \in DOMAIN Digits[n] |-> Digit(Digits[n][i])] \o CRLF

VARIABLES
    \* write_body.
    at,            \* "reading", "writing", "shutdown", "done" or "failed"
    read,          \* how much of the body has been read
    todo,          \* the rest of the write_all at hand
    \* The ChunkedWriter.
    buffer,        \* buffer[..buffer_pointer]
    header,        \* header_buffer
    sent,          \* header_buffer_read_pointer + buffer_read_pointer
    \* Between the two.
    held, wire,
    \* The ChunkedReader.
    line,          \* its buffer: what was read of a header or a CRLF
    status, current_chunk_size, current_chunk_count,
    got, result

bodyVars == <<at, read, todo>>
writerVars == <<buffer, header, sent>>
readerVars == <<line, status, current_chunk_size, current_chunk_count, got, result>>
vars == <<bodyVars, writerVars, held, wire, readerVars>>

Smaller(m, n) == IF m <= n THEN m ELSE n

Init ==
    /\ at = "reading" /\ read = 0 /\ todo = << >>
    /\ buffer = << >> /\ header = << >> /\ sent = 0
    /\ held = << >> /\ wire = << >>
    /\ line = << >>
    /\ status = "WaitingForChunk" /\ current_chunk_size = 0 /\ current_chunk_count = 0
    /\ got = << >> /\ result = "open"

-----------------------------------------------------------------------------
(* ChunkedWriter. *)

\* Mutant: the CRLF is counted.
CreateChunk_Counted ==
    IF header # << >> THEN [header |-> header, buffer |-> buffer]
    ELSE [header |-> Header(Len(buffer) + 2), buffer |-> buffer \o CRLF]

\* create_chunk, unless there is one that is not sent yet.
CreateChunk ==
    IF header # << >> THEN [header |-> header, buffer |-> buffer]
    ELSE [header |-> Header(Len(buffer)), buffer |-> buffer \o CRLF]

\* Mutant: a poll after a Pending starts over.
Unsent_FromStart(chunk) == chunk.header \o chunk.buffer

\* What is left of a chunk to be sent.
Unsent(chunk) == SubSeq(chunk.header \o chunk.buffer, sent + 1,
                        Len(chunk.header) + Len(chunk.buffer))

\* write_header and write_body: the BufWriter accepts "n" units in this poll.
SendChunk(n) ==
    /\ n <= Len(Unsent(CreateChunk))
    /\ held' = held \o SubSeq(Unsent(CreateChunk), 1, n)
    /\ UNCHANGED wire

\* All of it, and poll_flush is Ready.
FlushChunk ==
    /\ wire' = wire \o held \o Unsent(CreateChunk)
    /\ held' = << >>

Sent(n) == n = Len(Unsent(CreateChunk))

Reset == buffer' = << >> /\ header' = << >> /\ sent' = 0

\* Pending in between.
KeepChunk(n) ==
    /\ buffer' = CreateChunk.buffer /\ header' = CreateChunk.header
    /\ sent' = sent + n

\* write_inner must flush before it can take more.
MustFlush == Len(buffer) >= Capacity \/ header # << >>

\* Copy what there is room for.
Copy(into) ==
    LET n == Smaller(Capacity - Len(into), Len(todo)) IN
    /\ buffer' = into \o SubSeq(todo, 1, n)
    /\ todo' = SubSeq(todo, n + 1, Len(todo))
    /\ at' = IF n = Len(todo) THEN "reading" ELSE "writing"
    /\ header' = << >> /\ sent' = 0

\* write_inner without a flush.
Write ==
    /\ at = "writing" /\ ~MustFlush
    /\ Copy(buffer)
    /\ UNCHANGED <<read, held, wire, readerVars>>

\* write_inner with a flush: it is Pending in the chunk, or in the poll_flush
\* after reset (which the next poll knows nothing of), or it goes on to copy.
FlushAndWrite(n) ==
    /\ at = "writing" /\ MustFlush
    /\ \/ ~Sent(n) /\ SendChunk(n) /\ KeepChunk(n) /\ UNCHANGED <<todo, at>>
       \/ Sent(n) /\ SendChunk(n) /\ Reset /\ UNCHANGED <<todo, at>>
       \/ Sent(n) /\ FlushChunk /\ Copy(<< >>)
    /\ UNCHANGED <<read, readerVars>>

\* shutdown_inner: flush what the buffer holds.  (Its last chunk is Shutdown.)
FlushAndShutdown(n) ==
    /\ at = "shutdown" /\ buffer # << >>
    /\ \/ ~Sent(n) /\ SendChunk(n) /\ KeepChunk(n)
       \/ Sent(n) /\ (SendChunk(n) \/ FlushChunk) /\ Reset
    /\ UNCHANGED <<bodyVars, readerVars>>

LastChunk == Header(0) \o CRLF

\* Mutant: the flush at the end is left out.
Shutdown_Unflushed ==
    /\ at = "shutdown" /\ buffer = << >>
    /\ header' = LastChunk /\ sent' = Len(LastChunk)
    /\ held' = held \o LastChunk
    /\ at' = "done" /\ UNCHANGED wire
    /\ UNCHANGED <<read, todo, buffer, readerVars>>

\* shutdown_inner: the last chunk, then poll_flush; write_body flushes once more.
\* The connection goes on with the next response.
Shutdown ==
    /\ at = "shutdown" /\ buffer = << >>
    /\ header' = LastChunk
    /\ LET rest == SubSeq(LastChunk, sent + 1, Len(LastChunk)) IN
       \/ \E n \in 0..Len(rest) : /\ sent' = sent + n
                                  /\ held' = held \o SubSeq(rest, 1, n)
                                  /\ UNCHANGED <<at, wire>>
       \/ /\ sent' = Len(LastChunk)
          /\ wire' = wire \o held \o rest \o <<NextMessage>>
          /\ held' = << >>
          /\ at' = "done"
    /\ UNCHANGED <<read, todo, buffer, readerVars>>

\* The BufWriter passes some of what it holds on, when it is full or is flushed.
PassOn ==
    /\ at # "failed"
    /\ \E n \in 1..Len(held) : /\ wire' = wire \o SubSeq(held, 1, n)
                               /\ held' = SubSeq(held, n + 1, Len(held))
    /\ UNCHANGED <<bodyVars, writerVars, readerVars>>

-----------------------------------------------------------------------------
(* write_body. *)

\* body.read.
ReadBody ==
    /\ at = "reading" /\ read < Len(Source)
    /\ \E n \in 1..Smaller(MaxRead, Len(Source) - read) :
           /\ todo' = [i \in 1..n |-> Byte(Source[read + i])]
           /\ read' = read + n
    /\ at' = "writing"
    /\ UNCHANGED <<writerVars, held, wire, readerVars>>

\* body.read returns nothing: shutdown.
EndBody ==
    /\ at = "reading" /\ read = Len(Source)
    /\ at' = "shutdown"
    /\ UNCHANGED <<read, todo, writerVars, held, wire, readerVars>>

\* The body or the socket fails, or body_write_timeout is over: the connection ends.
Fails ==
    /\ at \notin {"done", "failed"}
    /\ at' = "failed" /\ held' = << >>
    /\ UNCHANGED <<read, todo, writerVars, wire, readerVars>>

-----------------------------------------------------------------------------
(* ChunkedReader. *)

None == -1       \* more has to be read
Invalid == -2

\* find_chunk_header_end.  (A chunk-extension is never accepted: the '=' behind its
\* name is looked for one byte early.)
FindChunkHeaderEnd(buf) ==
    LET others == {i \in DOMAIN buf : buf[i].kind # "digit"} IN
    IF others = {} THEN None
    ELSE LET end == Min(others) IN
         IF end = 1 \/ buf[end] # CR THEN Invalid
         ELSE IF end = Len(buf) THEN None
         ELSE IF buf[end + 1] = NL THEN end + 1 ELSE Invalid

First == wire[1]

ReaderStep(n) == wire' = SubSeq(wire, n + 1, Len(wire)) /\ UNCHANGED <<bodyVars, writerVars, held>>

\* read_to_buffer: one more character in the buffer.
Line == Append(line, First)

Refuse == result' = "error" /\ UNCHANGED <<line, status, current_chunk_size, current_chunk_count>>

\* read_chunk_header: the size of a chunk, or the end.  (A full buffer is an error.)
ReadHeader ==
    /\ result = "open" /\ status = "WaitingForChunk" /\ wire # << >>
    /\ LET end == IF Len(line) = HeaderRoom THEN Invalid ELSE FindChunkHeaderEnd(Line) IN
       IF end = Invalid THEN Refuse
       ELSE IF end = None
       THEN /\ line' = Line
            /\ UNCHANGED <<status, current_chunk_size, current_chunk_count, result>>
       ELSE /\ current_chunk_size' = ParseHex([i \in 1..end - 2 |-> Line[i].n])
            /\ current_chunk_count' = 0
            /\ status' = IF current_chunk_size' > 0 THEN "ReadingChunk" ELSE "Done"
            /\ line' = << >> /\ UNCHANGED result
    /\ ReaderStep(1) /\ UNCHANGED got

\* Mutant: as much as the caller has room for.
Remaining_Unlimited == MaxRead

\* chunk_remaining.
Remaining == current_chunk_size - current_chunk_count

\* read_data: not beyond the chunk.
ReadData ==
    /\ result = "open" /\ status = "ReadingChunk"
    /\ current_chunk_count < current_chunk_size
    /\ \E n \in 1..Smaller(MaxRead, Smaller(Remaining, Len(wire))) :
           /\ got' = got \o SubSeq(wire, 1, n)
           /\ current_chunk_count' = current_chunk_count + n
           /\ ReaderStep(n)
    /\ UNCHANGED <<line, status, current_chunk_size, result>>

\* A CRLF is looked at when both characters are there.
ReadCrlf(Accept) ==
    /\ result = "open" /\ wire # << >>
    /\ IF Len(Line) < 2 THEN line' = Line /\ UNCHANGED <<status, result>>
       ELSE IF Line = CRLF THEN Accept ELSE Refuse
    /\ ReaderStep(1) /\ UNCHANGED <<current_chunk_size, current_chunk_count, got>>

\* read_chunk_data, when the chunk has been read.
EndChunk ==
    /\ status = "ReadingChunk" /\ current_chunk_count = current_chunk_size
    /\ ReadCrlf(line' = << >> /\ status' = "WaitingForChunk" /\ UNCHANGED result)

\* Mutant: the end is seen before its CRLF.
Terminate_Early ==
    /\ result = "open" /\ status = "Done" /\ result' = "end"
    /\ UNCHANGED <<bodyVars, writerVars, held, wire, line, status, current_chunk_size,
                   current_chunk_count, got>>

\* read_terminating_crlf, which leaves the CRLF in its buffer.
Terminate ==
    /\ status = "Done"
    /\ ReadCrlf(line' = Line /\ result' = "end" /\ UNCHANGED status)

\* The reader underneath is at its end.
CutShort ==
    /\ result = "open" /\ wire = << >> /\ at = "failed"
    /\ result' = "error"
    /\ UNCHANGED <<bodyVars, writerVars, held, wire, line, status, current_chunk_size,
                   current_chunk_count, got>>

-----------------------------------------------------------------------------

\* Every poll of a writer that accepts something, or needs nothing of it.
Writer ==
    \/ ReadBody \/ EndBody
    \/ Write \/ Shutdown
    \/ \E n \in 0..Len(Unsent(CreateChunk)) : FlushAndWrite(n) \/ FlushAndShutdown(n)

Reader == ReadHeader \/ ReadData \/ EndChunk \/ Terminate \/ CutShort

Next == Writer \/ PassOn \/ Fails \/ Reader

Spec == Init /\ [][Next]_vars

\* Sockets make progress or the timeout strikes; the reader is polled on.
Fairness == WF_vars(Writer \/ Fails) /\ WF_vars(Reader)

FairSpec == Spec /\ Fairness

-----------------------------------------------------------------------------
(* Properties. *)

Bytes(s) ==
    LET bytes[i \in 0..Len(s)] ==
            IF i = 0 THEN << >>
            ELSE IF s[i].kind = "byte" THEN Append(bytes[i - 1], s[i]) ELSE bytes[i - 1]
    IN bytes[Len(s)]

\* The part of the ChunkedWriter's buffer that has not been sent.
Pending == IF header = << >> THEN buffer
           ELSE SubSeq(header \o buffer, sent + 1, Len(header) + Len(buffer))

\* However often a poll is left with Pending in the middle of a header, a chunk or
\* a flush, and is started over from the top: every byte that was read from the
\* body is in exactly one place, and they are in order.
NothingLost ==
    at # "failed" /\ result # "error" =>
        Bytes(got \o wire \o held \o Pending \o todo)
            = [i \in 1..read |-> Byte(Source[i])]

\* The reader stops behind the last chunk: the next message on a connection that
\* is kept alive begins exactly where it has stopped.
StopsAtEnd == result = "end" => wire \o held \in {<< >>, <<NextMessage>>}

Pipe == INSTANCE BytePipe WITH
    delivered <- [i \in DOMAIN got |-> IF got[i].kind = "byte" THEN got[i].n ELSE 0],
    cut <- at = "failed"

\* Writer and reader together are a pipe: what is read is a prefix of what was
\* written, and the end is seen after all of it or never, also when the
\* connection fails half-way; and a body that is written to its end is not refused,
\* for no chunk has the wrong length or is ended early.
PipeSpec == Pipe!Spec

\* The reader comes to the end or to an error: neither side waits for ever for
\* something the other has kept in a buffer.
ReaderEnds == result = "open" ~> result # "open"
==============================================================================
