--------------------------- MODULE H2Reader_proofs ---------------------------
(***************************************************************************)
(* Proofs about H2Reader, for every peer, every timeout and every interval *)
(* of the checks: the types, with the room in the buffer and the limit on  *)
(* streams; the deadlines of SETTINGS and PING, which are kept by a task   *)
(* that is not stuck elsewhere; the frames, which are handled as they were *)
(* sent until one is torn; the header blocks on their way to the decoder;  *)
(* and the reasons of every exit.                                          *)
(***************************************************************************)
EXTENDS H2Reader, Sums_proofs

\* A deadline is an instant, or there is none.
LEMMA TimesHold == Never \in Times /\ \A t \in Nat : t \in Times
BY DEF Times

\* What the parts of main_loop may hold.
BlocksOK ==
    /\ continuing \in Nat
    /\ header_buffer \in Seq(FragmentRecords) /\ ended \in Seq(Seq(FragmentRecords))
    /\ refused \subseteq DOMAIN ended

HandlesOK == streams \subseteq Ids /\ gone \subseteq streams /\ dropped \subseteq Ids

CountsOK ==
    /\ open_streams \in 0..MaxConcurrent /\ biggest_open_stream \in Nat
    /\ working \in [Ids -> Nat] /\ closing \in [Ids -> Nat]

ShutdownOK == pending_gracefull_shutdown \in BOOLEAN /\ shutdown_at \in 0..now

LoopOK == BlocksOK /\ HandlesOK /\ CountsOK /\ ShutdownOK

ReadOK ==
    /\ sent \in Seq(Frames) /\ handled \in Seq(Frames)
    /\ received \in Nat /\ consumed \in 0..received /\ Buffered <= MaxFrameSize
    /\ header \in Frames \union {NoFrame} /\ torn \in BOOLEAN
    /\ now \in Nat /\ last_frame_received \in 0..now

TimersOK ==
    /\ next_check \in Nat
    /\ settings_ack_timeout \in Times /\ ping_ack_timeout \in Times /\ ping_at \in Times

WaitOK == exit \in Exits /\ blocked \in {"no", "write", "shutdown"}

\* The types, taken apart.
LEMMA TypeParts == TypeOK <=> ReadOK /\ TimersOK /\ WaitOK /\ LoopOK
BY DEF TypeOK, ReadOK, TimersOK, WaitOK, LoopOK, BlocksOK, HandlesOK, CountsOK, ShutdownOK

LEMMA TypePartsNext == TypeOK' <=> ReadOK' /\ TimersOK' /\ WaitOK' /\ LoopOK'
BY DEF TypeOK, ReadOK, TimersOK, WaitOK, LoopOK, BlocksOK, HandlesOK, CountsOK, ShutdownOK

\* The fields of a frame.
LEMMA FrameFields ==
    ASSUME NEW f \in Frames
    PROVE  /\ f.stream \in Nat /\ f.length \in Nat /\ f.extra \in Nat /\ f.extra <= f.length
           /\ f.fits \in BOOLEAN /\ f.type \in FrameTypes
           /\ f.content \in {"good", "unusual", "bad"} /\ f.stream \in Ids
BY ReaderAssumption DEF ReaderAssumption, FrameRecords, Ids

LEMMA LoopUnchanged == ASSUME LoopOK, UNCHANGED <<now, loopVars>> PROVE LoopOK'
BY DEF LoopOK, BlocksOK, HandlesOK, CountsOK, ShutdownOK, loopVars, blockVars, handleVars,
       countVars, shutdownVars

LEMMA TimersUnchanged == ASSUME TimersOK, UNCHANGED timerVars PROVE TimersOK'
BY DEF TimersOK, timerVars

LEMMA ReadUnchanged == ASSUME ReadOK, UNCHANGED <<sent, torn, now, readVars>> PROVE ReadOK'
BY DEF ReadOK, readVars, Buffered

\* The initial state has its types.
LEMMA InitType == Init => TypeOK
<1> SUFFICES ASSUME Init PROVE TypeOK
  OBVIOUS
<1>1. ReadOK
  <2>1. sent \in Seq(Frames) /\ handled \in Seq(Frames)
    BY DEF Init
  <2>2. Buffered <= MaxFrameSize
    BY ReaderAssumption DEF Init, Buffered, ReaderAssumption
  <2>3. /\ received \in Nat /\ consumed \in 0..received /\ header \in Frames \union {NoFrame}
        /\ torn \in BOOLEAN /\ now \in Nat /\ last_frame_received \in 0..now
    <3>1. /\ received = 0 /\ consumed = 0 /\ header = NoFrame
          /\ now = 0 /\ last_frame_received = 0
      BY DEF Init
    <3>2. torn \in BOOLEAN
      BY DEF Init
    <3> QED
      BY <3>1, <3>2
  <2> QED
    BY <2>1, <2>2, <2>3 DEF ReadOK
<1>2. TimersOK
  <2>1. SettingsTimeout \in Nat
    BY ReaderAssumption DEF ReaderAssumption
  <2> QED
    BY <2>1, TimesHold DEF Init, TimersOK
<1>3. WaitOK
  BY DEF Init, WaitOK, Exits
<1>4. BlocksOK /\ HandlesOK /\ ShutdownOK
  <2>1. header_buffer \in Seq(FragmentRecords) /\ ended \in Seq(Seq(FragmentRecords))
    BY DEF Init
  <2>2. continuing \in Nat /\ refused \subseteq DOMAIN ended
    BY DEF Init
  <2>3. HandlesOK /\ ShutdownOK
    <3>1. /\ streams = {} /\ gone = {} /\ dropped = {}
          /\ shutdown_at = 0 /\ now = 0
      BY DEF Init
    <3>2. pending_gracefull_shutdown \in BOOLEAN
      BY DEF Init
    <3> QED
      BY <3>1, <3>2 DEF HandlesOK, ShutdownOK
  <2> QED
    BY <2>1, <2>2, <2>3 DEF BlocksOK
<1>5. CountsOK
  <2>1. MaxConcurrent \in Nat
    BY ReaderAssumption DEF ReaderAssumption
  <2> QED
    BY <2>1 DEF Init, CountsOK
<1> QED
  BY <1>1, <1>2, <1>3, <1>4, <1>5, TypeParts DEF LoopOK

\* The peer, the clock and the socket keep the types.
LEMMA PeerType == ASSUME TypeOK, Peer PROVE TypeOK'
<1>1. ReadOK /\ TimersOK /\ WaitOK /\ LoopOK
  BY TypeParts
<1>2. CASE Send
  <2>1. ReadOK' /\ UNCHANGED <<exit, blocked, now, timerVars, loopVars>>
    BY <1>1, <1>2 DEF Send, ReadOK, readVars, Buffered
  <2> QED
    BY <1>1, <2>1, TypePartsNext, LoopUnchanged, TimersUnchanged DEF WaitOK
<1>3. CASE PassTime
  <2>1. ReadOK' /\ UNCHANGED <<exit, blocked, timerVars, loopVars>> /\ now' = now + 1
    BY <1>1, <1>3 DEF PassTime, ReadOK, readVars, Buffered
  <2>2. LoopOK'
    BY <1>1, <2>1 DEF LoopOK, BlocksOK, HandlesOK, CountsOK, ShutdownOK, ReadOK, loopVars,
                      blockVars, handleVars, countVars, shutdownVars
  <2> QED
    BY <1>1, <2>1, <2>2, TypePartsNext, TimersUnchanged DEF WaitOK
<1>4. CASE WriteEnds
  <2>1. now \in Nat /\ SettingsTimeout \in Nat /\ shutdown_at \in 0..now
    BY <1>1, ReaderAssumption DEF ReadOK, LoopOK, ShutdownOK, ReaderAssumption
  <2>2. settings_ack_timeout' \in Times /\ shutdown_at' \in 0..now
    <3>1. now + SettingsTimeout \in Times
      BY <2>1, TimesHold
    <3>2. settings_ack_timeout' \in {settings_ack_timeout, now + SettingsTimeout}
      BY <1>4 DEF WriteEnds
    <3>3. shutdown_at' \in {shutdown_at, now}
      BY <1>4 DEF WriteEnds
    <3> QED
      BY <1>1, <2>1, <3>1, <3>2, <3>3 DEF TimersOK
  <2>3. exit' \in Exits /\ blocked' \in {"no", "write", "shutdown"}
    BY <1>1, <1>4 DEF WriteEnds, WaitOK, Exits
  <2>4. UNCHANGED <<sent, torn, now, readVars, blockVars, handleVars, countVars, next_check,
                    ping_ack_timeout, ping_at, pending_gracefull_shutdown>>
    BY <1>4 DEF WriteEnds
  <2>5. LoopOK'
    BY <1>1, <2>2, <2>4 DEF LoopOK, BlocksOK, HandlesOK, CountsOK, ShutdownOK, blockVars,
                            handleVars, countVars
  <2>6. TimersOK'
    BY <1>1, <2>2, <2>4 DEF TimersOK
  <2> QED
    BY <1>1, <2>3, <2>4, <2>5, <2>6, ReadUnchanged, TypePartsNext DEF WaitOK
<1> QED
  BY <1>2, <1>3, <1>4 DEF Peer

\* A task that exits is one of those there are.
LEMMA TasksType == ASSUME TypeOK, Tasks PROVE TypeOK'
<1>1. ReadOK /\ TimersOK /\ WaitOK /\ LoopOK
  BY TypeParts
<1>2. PICK id \in Ids : TaskExits(id)
  BY DEF Tasks
<1>3. /\ UNCHANGED <<sent, exit, torn, blocked, now, readVars, timerVars, blockVars, streams,
                     dropped, countVars, shutdownVars>>
      /\ gone' = gone \union {id} /\ id \in streams
  BY <1>2 DEF TaskExits
<1>4. LoopOK'
  BY <1>1, <1>3 DEF LoopOK, BlocksOK, HandlesOK, CountsOK, ShutdownOK, blockVars, countVars,
                    shutdownVars
<1> QED
  BY <1>1, <1>3, <1>4, ReadUnchanged, TimersUnchanged, TypePartsNext DEF WaitOK

\* The next frame's header is one of the frames sent, or what junk is taken for.
LEMMA HeadersType ==
    ASSUME sent \in Seq(Frames), NEW n PROVE HeadersAt(n) \subseteq Frames
BY ReaderAssumption DEF HeadersAt, ReaderAssumption

\* Leaving keeps the types.
LEMMA LeaveType == ASSUME TypeOK, NEW reason \in Exits, Leave(reason) PROVE TypeOK'
<1>1. ReadOK /\ TimersOK /\ WaitOK /\ LoopOK
  BY TypeParts
<1>2. UNCHANGED <<sent, torn, blocked, now, readVars, timerVars, loopVars>> /\ exit' = reason
  BY DEF Leave
<1> QED
  BY <1>1, <1>2, ReadUnchanged, TimersUnchanged, LoopUnchanged, TypePartsNext DEF WaitOK

\* Reading and leaving keep the types; the buffer is never filled beyond its room.
LEMMA ReaderType == ASSUME TypeOK, Reader PROVE TypeOK'
<1>1. ReadOK /\ TimersOK /\ WaitOK /\ LoopOK
  BY TypeParts
<1>2. CASE ReadFromReader \/ ParseHeader
  <2>1. UNCHANGED <<exit, blocked, now, timerVars, loopVars>>
    BY <1>2 DEF ReadFromReader, ParseHeader
  <2>2. CASE ReadFromReader
    BY <1>1, <2>1, <2>2, ReaderAssumption, TypePartsNext, TimersUnchanged, LoopUnchanged
       DEF ReadOK, WaitOK, ReadFromReader, Buffered, ReaderAssumption
  <2>3. CASE ParseHeader
    <3>1. header' \in Frames
      BY <1>1, <2>3, HeadersType DEF ParseHeader, ReadOK
    <3>2. HeaderLen \in Nat /\ HeaderLen <= Buffered /\ consumed' = consumed + HeaderLen
      BY <2>3, ReaderAssumption DEF ParseHeader, ReaderAssumption
    <3>3. UNCHANGED <<sent, torn, received, handled, last_frame_received, now>>
      BY <2>3 DEF ParseHeader
    <3>4. consumed' \in 0..received' /\ Buffered' <= MaxFrameSize
      BY <1>1, <3>2, <3>3, ReaderAssumption DEF ReadOK, Buffered, ReaderAssumption
    <3>5. ReadOK'
      BY <1>1, <3>1, <3>3, <3>4 DEF ReadOK
    <3> QED
      BY <1>1, <2>1, <3>5, TypePartsNext, TimersUnchanged, LoopUnchanged DEF WaitOK
  <2> QED
    BY <1>2, <2>2, <2>3
<1>3. CASE ReadFails \/ FrameBufferFull \/ RefuseFrame
  BY <1>3, LeaveType DEF ReadFails, FrameBufferFull, RefuseFrame, Exits
<1> QED
  BY <1>2, <1>3 DEF Reader

\* What taking a frame does to the types of what it changes.
LEMMA TakeFrameType ==
    ASSUME TypeOK, TakeFrame PROVE header \in Frames /\ ReadOK' /\ UNCHANGED now
<1>1. ReadOK
  BY TypeParts
<1>2. header \in Frames /\ header.length \in Nat /\ header.length <= Buffered
  BY <1>1, FrameFields DEF ReadOK, TakeFrame, PayloadRead
<1>3. consumed' = consumed + header.length /\ header' = NoFrame
  BY DEF TakeFrame, TakePayload
<1>4. UNCHANGED <<received, sent, torn, now>>
  BY DEF TakeFrame
<1>5. handled' \in Seq(Frames)
  BY <1>1, <1>2 DEF ReadOK, TakeFrame
<1>6. consumed' \in 0..received' /\ Buffered' <= MaxFrameSize
  BY <1>1, <1>2, <1>3, <1>4, ReaderAssumption DEF ReadOK, ReaderAssumption, Buffered
<1>7. last_frame_received' \in 0..now'
  BY <1>1, <1>4 DEF ReadOK, TakeFrame
<1> QED
  BY <1>1, <1>2, <1>3, <1>4, <1>5, <1>6, <1>7 DEF ReadOK

\* RST_STREAM may remove a handle, and notes which streams were given up.
LEMMA StreamErrorType ==
    ASSUME HandlesOK, NEW id \in Ids, StreamError(id) PROVE HandlesOK'
BY DEF HandlesOK, StreamError

\* A new stream is one more to count.
LEMMA OpenStreamType ==
    ASSUME HandlesOK, CountsOK, NEW id \in Ids, OpenStream(id), open_streams < MaxConcurrent
    PROVE  HandlesOK' /\ CountsOK'
<1>1. HandlesOK'
  BY DEF HandlesOK, OpenStream
<1>2. open_streams' \in 0..MaxConcurrent
  BY ReaderAssumption DEF CountsOK, OpenStream, ReaderAssumption
<1>3. biggest_open_stream' \in Nat
  <2>1. id \in Nat
    BY FrameFields DEF Ids
  <2> QED
    BY <2>1 DEF CountsOK, OpenStream
<1>4. working' \in [Ids -> Nat] /\ closing' \in [Ids -> Nat]
  BY DEF CountsOK, OpenStream
<1> QED
  BY <1>1, <1>2, <1>3, <1>4 DEF CountsOK

\* One more block, and the types of what is left of it.
LEMMA BlockEndedType ==
    ASSUME BlocksOK, NEW block \in Seq(FragmentRecords), ended' = Append(ended, block),
           refused' = refused \/ refused' = refused \union {Len(ended')},
           header_buffer' = << >>, continuing' = 0
    PROVE  BlocksOK'
<1> DEFINE V == Seq(FragmentRecords)
<1>1. ended \in Seq(V) /\ block \in V
  BY DEF BlocksOK
<1> HIDE DEF V
<1>2. /\ ended' \in Seq(V) /\ Len(ended) \in Nat /\ Len(ended') = Len(ended) + 1
      /\ DOMAIN ended = 1..Len(ended) /\ DOMAIN ended' = 1..Len(ended) + 1
  BY <1>1
<1>3. refused' \subseteq DOMAIN ended'
  BY <1>2 DEF BlocksOK
<1>4. header_buffer' \in Seq(FragmentRecords) /\ continuing' \in Nat
  OBVIOUS
<1> QED
  BY <1>2, <1>3, <1>4 DEF BlocksOK, V

\* The fragment of a frame, into the buffer and on to the decoder.
LEMMA FragmentType ==
    ASSUME TypeOK, NEW f \in Frames, RecvFragment(f)
    PROVE  exit' \in Exits /\ blocked' = blocked /\ BlocksOK' /\ HandlesOK' /\ CountsOK'
<1> DEFINE block == Append(header_buffer, Fragment(f))
<1>1. exit \in Exits /\ BlocksOK /\ HandlesOK /\ CountsOK
  BY TypeParts DEF WaitOK, LoopOK
<1>2. f.stream \in Nat /\ f.stream \in Ids
  BY FrameFields
<1>3. block \in Seq(FragmentRecords)
  <2>1. Fragment(f) \in FragmentRecords
    BY DEF Fragment, Garbled, FragmentRecords
  <2> QED
    BY <1>1, <2>1 DEF BlocksOK
<1>4. UNCHANGED handleVars => HandlesOK'
  BY <1>1 DEF HandlesOK, handleVars
<1>5. UNCHANGED countVars => CountsOK'
  BY <1>1 DEF CountsOK, countVars
<1> HIDE DEF block
<1>6. CASE ~Fits(f)
  BY <1>1, <1>4, <1>5, <1>6 DEF RecvFragment, blockVars, BlocksOK, Exits
<1>7. CASE Fits(f) /\ "END_HEADERS" \notin f.flags
  <2>1. /\ UNCHANGED <<exit, blocked, ended, refused, handleVars, countVars>>
        /\ continuing' = f.stream /\ header_buffer' = block
    BY <1>7 DEF RecvFragment, block
  <2> QED
    BY <1>1, <1>2, <1>3, <1>4, <1>5, <2>1 DEF BlocksOK
<1>8. CASE Fits(f) /\ "END_HEADERS" \in f.flags
  <2>1. EndBlock(block, f.stream)
    BY <1>8 DEF RecvFragment, block
  <2>2. CASE RefuseBlock(block, f.stream)
    <3>1. BlocksOK'
      BY <1>1, <1>3, <2>1, <2>2, BlockEndedType DEF EndBlock, RefuseBlock
    <3> QED
      BY <1>1, <1>2, <1>5, <2>2, <3>1, StreamErrorType DEF RefuseBlock
  <2>3. CASE ReadRequest(block, f.stream) /\ ~MustRefuse
    <3>1. BlocksOK'
      BY <1>1, <1>3, <2>1, <2>3, BlockEndedType DEF EndBlock, ReadRequest
    <3>2. open_streams < MaxConcurrent
      BY <1>1, <2>3, ReaderAssumption DEF MustRefuse, CountsOK, ReaderAssumption
    <3>3. HandlesOK' /\ CountsOK'
      BY <1>1, <1>2, <1>5, <2>3, <3>2, StreamErrorType, OpenStreamType DEF ReadRequest
    <3> QED
      BY <1>1, <2>3, <3>1, <3>3 DEF ReadRequest
  <2>4. CASE DecodingFails(block)
    BY <1>1, <1>3, <1>4, <1>5, <2>1, <2>4 DEF EndBlock, DecodingFails, BlocksOK, Exits
  <2> QED
    BY <2>1, <2>2, <2>3, <2>4 DEF EndBlock
<1> QED
  BY <1>6, <1>7, <1>8

\* Handling a frame takes it.
LEMMA HandleTakes == ASSUME Handle PROVE TakeFrame
BY DEF Handle, RecvHeaders, Panic, RecvContinuation, RecvData, RecvSettings, RecvPing,
       RecvWindowUpdate, RecvGoAway, RecvUnexpected, RecvIgnored, Recv

\* Handling a frame keeps the types, and the limit on streams with them.
LEMMA HandleType == ASSUME TypeOK, Handle PROVE TypeOK'
<1>1. ReadOK /\ TimersOK /\ WaitOK /\ LoopOK
  BY TypeParts
<1>2. header \in Frames /\ ReadOK' /\ UNCHANGED now
  BY HandleTakes, TakeFrameType
<1>3. CASE RecvHeaders \/ RecvContinuation
  <2>1. UNCHANGED <<timerVars, shutdownVars>>
    BY <1>3 DEF RecvHeaders, RecvContinuation
  <2>2. CASE exit' = "protocol" /\ UNCHANGED <<blocked, blockVars, handleVars, countVars>>
    BY <1>1, <1>2, <2>1, <2>2, LoopUnchanged, TimersUnchanged, TypePartsNext
       DEF WaitOK, Exits, loopVars
  <2>3. CASE RecvFragment(header)
    <3>1. exit' \in Exits /\ blocked' = blocked /\ BlocksOK' /\ HandlesOK' /\ CountsOK'
      BY <1>2, <2>3, FragmentType
    <3>2. ShutdownOK'
      BY <1>1, <1>2, <2>1 DEF LoopOK, ShutdownOK, shutdownVars
    <3> QED
      BY <1>1, <1>2, <2>1, <3>1, <3>2, TimersUnchanged, TypePartsNext DEF WaitOK, LoopOK
  <2> QED
    BY <1>3, <2>2, <2>3 DEF RecvHeaders, RecvContinuation
<1>4. CASE RecvWindowUpdate
  <2>1. /\ UNCHANGED <<blocked, timerVars, blockVars, countVars, shutdownVars>>
        /\ exit' \in Exits
    BY <1>1, <1>4 DEF RecvWindowUpdate, WaitOK, Exits
  <2>2. HandlesOK'
    <3>1. StreamError(header.stream) \/ UNCHANGED handleVars
      BY <1>4 DEF RecvWindowUpdate
    <3>2. header.stream \in Ids
      BY <1>2, FrameFields
    <3> QED
      BY <1>1, <3>1, <3>2, StreamErrorType DEF LoopOK, HandlesOK, handleVars
  <2>3. LoopOK'
    BY <1>1, <1>2, <2>1, <2>2 DEF LoopOK, BlocksOK, CountsOK, ShutdownOK, blockVars, countVars,
                                  shutdownVars
  <2> QED
    BY <1>1, <1>2, <2>1, <2>3, TimersUnchanged, TypePartsNext DEF WaitOK
<1>5. CASE Panic \/ RecvData \/ RecvSettings \/ RecvPing \/ RecvGoAway \/ RecvUnexpected
           \/ RecvIgnored
  <2>1. exit' \in Exits /\ UNCHANGED <<blocked, loopVars>>
    BY <1>1, <1>5 DEF WaitOK, Panic, RecvData, RecvSettings, RecvPing, RecvGoAway,
                      RecvUnexpected, RecvIgnored, Exits
  <2>2. TimersOK'
    BY <1>1, <1>5 DEF TimersOK, Panic, RecvData, RecvSettings, RecvPing, RecvGoAway,
                      RecvUnexpected, RecvIgnored, timerVars, Times
  <2> QED
    BY <1>1, <1>2, <2>1, <2>2, LoopUnchanged, TypePartsNext DEF WaitOK
<1> QED
  BY <1>3, <1>4, <1>5 DEF Handle

\* A branch drops the read, and keeps the clock.
LEMMA BranchType == ASSUME ReadOK, Branch PROVE ReadOK' /\ UNCHANGED now
BY DEF ReadOK, Branch, DropRead, Buffered

\* The requests of stream tasks keep the types.
LEMMA RequestsType == ASSUME TypeOK, Requests PROVE TypeOK'
<1>1. ReadOK /\ TimersOK /\ WaitOK /\ LoopOK
  BY TypeParts
<1>2. ReadOK' /\ UNCHANGED now
  BY <1>1, BranchType DEF Requests, WriteBranch, DistributeFails, StreamFails, StreamClosing,
                          StreamClosed
<1>3. CASE WriteBranch \/ DistributeFails \/ StreamFails
  <2>1. WaitOK' /\ UNCHANGED <<timerVars, loopVars>>
    BY <1>1, <1>3 DEF WriteBranch, DistributeFails, StreamFails, WaitOK, Exits
  <2> QED
    BY <1>1, <1>2, <2>1, LoopUnchanged, TimersUnchanged, TypePartsNext
<1>4. ASSUME NEW id \in Ids, StreamClosing(id) PROVE TypeOK'
  <2>1. UNCHANGED <<blocked, biggest_open_stream, blockVars, timerVars, shutdownVars>>
    BY <1>4 DEF StreamClosing
  <2>2. exit' \in Exits
    BY <1>1, <1>4 DEF StreamClosing, WaitOK, Exits
  <2>3. HandlesOK'
    <3>1. StreamError(id) \/ UNCHANGED handleVars
      BY <1>4 DEF StreamClosing
    <3> QED
      BY <1>1, <3>1, StreamErrorType DEF LoopOK, HandlesOK, handleVars
  <2>4. CountsOK'
    <3>1. /\ working[id] > 0 /\ open_streams > 0 /\ open_streams' = open_streams - 1
          /\ working' = [working EXCEPT ![id] = @ - 1]
          /\ closing' = [closing EXCEPT ![id] = @ + 1] /\ UNCHANGED biggest_open_stream
      BY <1>4 DEF StreamClosing
    <3>2. open_streams' \in 0..MaxConcurrent
      BY <1>1, <3>1, ReaderAssumption DEF LoopOK, CountsOK, ReaderAssumption
    <3>3. working' \in [Ids -> Nat] /\ closing' \in [Ids -> Nat]
      BY <1>1, <3>1 DEF LoopOK, CountsOK
    <3> QED
      BY <1>1, <3>1, <3>2, <3>3 DEF LoopOK, CountsOK
  <2>5. LoopOK'
    BY <1>1, <1>2, <2>1, <2>3, <2>4 DEF LoopOK, BlocksOK, ShutdownOK, blockVars, shutdownVars
  <2> QED
    BY <1>1, <1>2, <2>1, <2>2, <2>5, TimersUnchanged, TypePartsNext DEF WaitOK
<1>5. ASSUME NEW id \in Ids, StreamClosed(id) PROVE TypeOK'
  <2>1. /\ UNCHANGED <<exit, blocked, open_streams, biggest_open_stream, working, blockVars,
                       timerVars, shutdownVars>>
        /\ closing[id] > 0 /\ closing' = [closing EXCEPT ![id] = @ - 1]
    BY <1>5 DEF StreamClosed
  <2>2. HandlesOK'
    BY <1>1, <1>5 DEF LoopOK, HandlesOK, StreamClosed
  <2>3. CountsOK'
    BY <1>1, <2>1 DEF LoopOK, CountsOK
  <2>4. LoopOK'
    BY <1>1, <1>2, <2>1, <2>2, <2>3 DEF LoopOK, BlocksOK, ShutdownOK, blockVars, shutdownVars
  <2> QED
    BY <1>1, <1>2, <2>1, <2>4, TimersUnchanged, TypePartsNext DEF WaitOK
<1> QED
  BY <1>3, <1>4, <1>5 DEF Requests

\* The other branches keep the types.
LEMMA BranchesType == ASSUME TypeOK, OtherBranches PROVE TypeOK'
<1>1. ReadOK /\ TimersOK /\ WaitOK /\ LoopOK
  BY TypeParts
<1>2. CASE NoticeShutdown
  <2>1. ReadOK' /\ UNCHANGED now
    BY <1>1, <1>2, BranchType DEF NoticeShutdown
  <2>2. /\ exit' \in Exits /\ blocked' \in {"no", "write", "shutdown"}
        /\ pending_gracefull_shutdown' \in BOOLEAN
    BY <1>1, <1>2 DEF WaitOK, LoopOK, ShutdownOK, NoticeShutdown, shutdownVars, Exits
  <2>3. now \in Nat /\ SettingsTimeout \in Nat /\ now + SettingsTimeout \in Times
    BY <1>1, TimesHold, ReaderAssumption DEF ReadOK, ReaderAssumption
  <2>4. settings_ack_timeout' \in Times /\ shutdown_at' \in 0..now
    BY <1>1, <1>2, <2>3 DEF LoopOK, ShutdownOK, TimersOK, NoticeShutdown, shutdownVars
  <2>5. UNCHANGED <<blockVars, handleVars, countVars, next_check, ping_ack_timeout, ping_at>>
    BY <1>2 DEF NoticeShutdown
  <2>6. TimersOK'
    BY <1>1, <2>4, <2>5 DEF TimersOK
  <2>7. LoopOK'
    BY <1>1, <2>1, <2>2, <2>4, <2>5 DEF LoopOK, BlocksOK, HandlesOK, CountsOK, ShutdownOK,
                                        blockVars, handleVars, countVars
  <2> QED
    BY <2>1, <2>2, <2>6, <2>7, TypePartsNext DEF WaitOK
<1>3. CASE CheckTimeouts
  <2>1. ReadOK' /\ UNCHANGED now
    BY <1>1, <1>3, BranchType DEF CheckTimeouts
  <2>2. exit' \in Exits
    BY <1>1, <1>3 DEF WaitOK, CheckTimeouts, Exits
  <2>3. next_check' \in Nat /\ next_check + PingTimeout \in Nat
    <3>1. next_check \in Nat /\ next_check' = next_check + CheckInterval
      BY <1>1, <1>3 DEF TimersOK, CheckTimeouts
    <3>2. CheckInterval \in Nat /\ PingTimeout \in Nat
      BY ReaderAssumption DEF ReaderAssumption
    <3> QED
      BY <3>1, <3>2
  <2>4. /\ ping_ack_timeout' = ping_ack_timeout \/ ping_ack_timeout' = next_check + PingTimeout
        /\ ping_at' = ping_at \/ ping_at' = now
    <3>1. CASE ping_ack_timeout' = ping_ack_timeout /\ ping_at' = ping_at
      BY <3>1
    <3>2. CASE ping_ack_timeout' = next_check + PingTimeout /\ ping_at' = now
      BY <3>2
    <3> QED
      BY <1>3, <3>1, <3>2, Zenon DEF CheckTimeouts
  <2>5. ping_ack_timeout' \in Times /\ ping_at' \in Times
    BY <1>1, <2>3, <2>4, TimesHold DEF TimersOK, ReadOK
  <2>6. UNCHANGED <<blocked, settings_ack_timeout, loopVars>>
    BY <1>3 DEF CheckTimeouts
  <2>7. TimersOK'
    BY <1>1, <2>3, <2>5, <2>6 DEF TimersOK
  <2> QED
    BY <1>1, <2>1, <2>2, <2>6, <2>7, LoopUnchanged, TypePartsNext DEF WaitOK
<1> QED
  BY <1>2, <1>3, RequestsType DEF OtherBranches

\* Every step keeps the types.
LEMMA TypeStep == ASSUME TypeOK, [Next]_vars PROVE TypeOK'
<1>1. CASE UNCHANGED vars
  <2>1. ReadOK /\ TimersOK /\ WaitOK /\ LoopOK
    BY TypeParts
  <2> QED
    BY <1>1, <2>1, ReadUnchanged, TimersUnchanged, LoopUnchanged, TypePartsNext DEF vars, WaitOK
<1> QED
  BY <1>1, PeerType, TasksType, ReaderType, HandleType, BranchesType DEF Next

\* Whatever is sent and however it is cut, the buffer has room for what is in it, no
\* more streams are open than max_concurrent_streams, and every variable has its type.
THEOREM TypeCorrect == Spec => []TypeOK
BY InitType, TypeStep, PTL DEF Spec

-----------------------------------------------------------------------------
(* The deadlines.  DeadlinesKept speaks of now, and only while the task is *)
(* on time.  What every step keeps is what the checks themselves go by: as *)
(* long as nothing is acknowledged, the deadline is the one the last write *)
(* set, or an earlier one, and the next check is at most one interval      *)
(* behind it, because the check that finds it passed is the last.          *)

SettingsDeadline ==
    Running /\ ~Acked("SETTINGS") =>
        /\ settings_ack_timeout = shutdown_at + SettingsTimeout
        /\ next_check <= settings_ack_timeout + CheckInterval

PingDeadline ==
    Running /\ ~Acked("PING") /\ ping_at # Never =>
        /\ ping_ack_timeout # Never /\ ping_ack_timeout <= ping_at + PingTimeout
        /\ next_check <= ping_ack_timeout + CheckInterval

DeadlineInv == SettingsDeadline /\ PingDeadline

\* The deadline of the first SETTINGS is set when the task starts.
LEMMA InitDeadlines == Init => DeadlineInv
BY ReaderAssumption
   DEF Init, DeadlineInv, SettingsDeadline, PingDeadline, ReaderAssumption, Times, Acked, Running

\* A step that leaves clock and deadlines alone, and takes no acknowledgement back.
LEMMA Untouched ==
    ASSUME DeadlineInv,
           Running' => Running,
           UNCHANGED <<next_check, shutdown_at, settings_ack_timeout, ping_ack_timeout, ping_at>>,
           \A type : Acked(type) => Acked(type)'
    PROVE  DeadlineInv'
BY DEF DeadlineInv, SettingsDeadline, PingDeadline

\* Acknowledgements are not forgotten, and the frame that is taken counts as one.
LEMMA TakeFrameAcks ==
    ASSUME handled \in Seq(Frames), TakeFrame
    PROVE  /\ \A type : Acked(type) => Acked(type)'
           /\ \A type : header.type = type /\ "ACK" \in header.flags => Acked(type)'
<1>1. handled' = Append(handled, header)
  BY DEF TakeFrame
<1>2. Len(handled) + 1 \in DOMAIN handled' /\ handled'[Len(handled) + 1] = header
  BY <1>1
<1>3. \A i \in DOMAIN handled : i \in DOMAIN handled' /\ handled'[i] = handled[i]
  BY <1>1
<1>4. ASSUME NEW type, Acked(type) PROVE Acked(type)'
  <2>1. PICK i \in DOMAIN handled : handled[i].type = type /\ "ACK" \in handled[i].flags
    BY <1>4 DEF Acked
  <2>2. i \in DOMAIN handled' /\ handled'[i].type = type /\ "ACK" \in handled'[i].flags
    BY <1>3, <2>1
  <2> QED
    BY <2>2 DEF Acked
<1>5. ASSUME NEW type, header.type = type, "ACK" \in header.flags PROVE Acked(type)'
  BY <1>2, <1>5 DEF Acked
<1> QED
  BY <1>4, <1>5

\* The SETTINGS of the shutdown move the deadline on, never back.
LEMMA ShutdownDeadline ==
    ASSUME TypeOK, DeadlineInv, Running, UNCHANGED next_check,
           \A type : Acked(type) => Acked(type)',
           settings_ack_timeout' = now + SettingsTimeout, shutdown_at' = now
    PROVE  SettingsDeadline'
<1>1. SUFFICES ASSUME ~Acked("SETTINGS")'
               PROVE  next_check <= now + SettingsTimeout + CheckInterval
  BY DEF SettingsDeadline
<1>2. next_check <= shutdown_at + SettingsTimeout + CheckInterval
  BY <1>1 DEF DeadlineInv, SettingsDeadline
<1>3. shutdown_at \in Nat /\ now \in Nat /\ next_check \in Nat /\ shutdown_at <= now
  BY DEF TypeOK
<1> QED
  BY <1>2, <1>3, ReaderAssumption DEF ReaderAssumption

\* The clock does not come into it, and WriteEnds writes the SETTINGS of the shutdown.
LEMMA PeerDeadlines == ASSUME TypeOK, DeadlineInv, Peer PROVE DeadlineInv'
<1>1. \A type : Acked(type) => Acked(type)'
  BY DEF Peer, Send, PassTime, WriteEnds, readVars, Acked
<1>2. CASE Send \/ PassTime
  BY <1>1, <1>2, Untouched DEF Send, PassTime, timerVars, loopVars, shutdownVars, Running
<1>3. CASE WriteEnds
  <2>1. PingDeadline'
    BY <1>1, <1>3 DEF WriteEnds, DeadlineInv, PingDeadline, Running
  <2>2. ASSUME settings_ack_timeout' = now + SettingsTimeout, shutdown_at' = now
        PROVE  SettingsDeadline'
    BY <1>1, <1>3, <2>2, ShutdownDeadline DEF WriteEnds
  <2>3. ASSUME UNCHANGED <<settings_ack_timeout, shutdown_at>> PROVE SettingsDeadline'
    BY <1>1, <1>3, <2>3 DEF WriteEnds, DeadlineInv, SettingsDeadline, Running
  <2>4. \/ settings_ack_timeout' = now + SettingsTimeout /\ shutdown_at' = now
        \/ UNCHANGED <<settings_ack_timeout, shutdown_at>>
    BY <1>3 DEF WriteEnds
  <2> QED
    BY <2>1, <2>2, <2>3, <2>4 DEF DeadlineInv
<1> QED
  BY <1>2, <1>3 DEF Peer

\* Reading alone has no part in it.
LEMMA ReaderDeadlines == ASSUME DeadlineInv, Reader PROVE DeadlineInv'
<1>1. UNCHANGED <<handled, timerVars, shutdownVars>> /\ (Running' => Running)
  BY DEF Reader, ReadFromReader, ReadFails, FrameBufferFull, ParseHeader, RefuseFrame, Leave,
         Ready, readVars, loopVars
<1> QED
  BY <1>1, Untouched DEF timerVars, shutdownVars, Acked

\* A deadline that is taken away has been acknowledged, whatever frame it is.
LEMMA HandleDeadlines == ASSUME TypeOK, DeadlineInv, Handle PROVE DeadlineInv'
<1>1. TakeFrame /\ (Running' => Running)
  BY HandleTakes DEF TakeFrame, Ready
<1>2. /\ \A type : Acked(type) => Acked(type)'
      /\ \A type : header.type = type /\ "ACK" \in header.flags => Acked(type)'
  BY <1>1, TakeFrameAcks DEF TypeOK
<1>3. CASE RecvSettings
  <2>1. UNCHANGED <<next_check, shutdown_at, ping_ack_timeout, ping_at>>
    BY <1>3 DEF RecvSettings, loopVars, shutdownVars
  <2>2. Acked("SETTINGS")' \/ UNCHANGED settings_ack_timeout
    BY <1>2, <1>3 DEF RecvSettings, Recv
  <2> QED
    BY <1>1, <1>2, <2>1, <2>2 DEF DeadlineInv, SettingsDeadline, PingDeadline
<1>4. CASE RecvPing
  <2>1. UNCHANGED <<next_check, shutdown_at, settings_ack_timeout, ping_at>>
    BY <1>4 DEF RecvPing, loopVars, shutdownVars
  <2>2. Acked("PING")' \/ UNCHANGED ping_ack_timeout
    BY <1>2, <1>4 DEF RecvPing, Recv
  <2> QED
    BY <1>1, <1>2, <2>1, <2>2 DEF DeadlineInv, SettingsDeadline, PingDeadline
<1>5. CASE UNCHANGED <<timerVars, shutdownVars>>
  BY <1>1, <1>2, <1>5, Untouched DEF timerVars, shutdownVars
<1> QED
  BY <1>3, <1>4, <1>5 DEF Handle, RecvHeaders, Panic, RecvContinuation, RecvData,
                          RecvWindowUpdate, RecvGoAway, RecvUnexpected, RecvIgnored, loopVars

\* The check goes on only when the deadline has not passed; a new PING has its
\* deadline counted from the tick, which is not after it.
LEMMA CheckDeadlines == ASSUME TypeOK, DeadlineInv, CheckTimeouts PROVE DeadlineInv'
<1>1. UNCHANGED <<now, handled, settings_ack_timeout, shutdown_at>> /\ Running
  BY DEF CheckTimeouts, Branch, DropRead, Ready, loopVars, shutdownVars
<1>2. next_check \in Nat /\ next_check <= now /\ next_check' = next_check + CheckInterval
  BY DEF TypeOK, CheckTimeouts
<1>3. CheckInterval \in Nat /\ PingTimeout \in Nat /\ SettingsTimeout \in Nat
  BY ReaderAssumption DEF ReaderAssumption
<1>4. now \in Nat /\ shutdown_at \in Nat /\ ping_at \in Times /\ ping_ack_timeout \in Times
  BY DEF TypeOK
<1>5. SettingsDeadline'
  <2>1. SUFFICES ASSUME Running', ~Acked("SETTINGS")'
                 PROVE  /\ settings_ack_timeout = shutdown_at + SettingsTimeout
                        /\ next_check' <= settings_ack_timeout + CheckInterval
    BY <1>1 DEF SettingsDeadline
  <2>2. settings_ack_timeout = shutdown_at + SettingsTimeout
    BY <1>1, <2>1 DEF DeadlineInv, SettingsDeadline, Acked
  <2>3. ~SettingsLate
    BY <2>1 DEF CheckTimeouts, Running
  <2>4. settings_ack_timeout # Never
    BY <1>3, <1>4, <2>2, ReaderAssumption DEF ReaderAssumption
  <2>5. next_check <= settings_ack_timeout
    BY <1>2, <1>3, <1>4, <2>2, <2>3, <2>4 DEF SettingsLate, Passed
  <2> QED
    BY <1>2, <1>3, <1>4, <2>2, <2>5
<1>6. PingDeadline'
  <2>1. SUFFICES ASSUME Running', ~Acked("PING")', ping_at' # Never
                 PROVE  /\ ping_ack_timeout' # Never
                        /\ ping_ack_timeout' <= ping_at' + PingTimeout
                        /\ next_check' <= ping_ack_timeout' + CheckInterval
    BY DEF PingDeadline
  <2>2. CASE ping_ack_timeout' = next_check + PingTimeout /\ ping_at' = now
    BY <1>2, <1>3, <1>4, <2>2, ReaderAssumption DEF ReaderAssumption
  <2>3. CASE UNCHANGED <<ping_ack_timeout, ping_at>>
    <3>1. ping_ack_timeout # Never /\ ping_ack_timeout <= ping_at + PingTimeout
      BY <1>1, <2>1, <2>3 DEF DeadlineInv, PingDeadline, Acked
    <3>2. ~Passed(ping_ack_timeout, next_check)
      BY <2>1 DEF CheckTimeouts, Running
    <3>3. ping_ack_timeout \in Nat /\ next_check <= ping_ack_timeout
      BY <1>2, <1>4, <3>1, <3>2 DEF Passed, Times
    <3> QED
      BY <1>2, <1>3, <2>3, <3>1, <3>3
  <2> QED
    BY <2>2, <2>3, Zenon DEF CheckTimeouts
<1> QED
  BY <1>5, <1>6 DEF DeadlineInv

\* The requests of stream tasks leave them alone; shutdown writes SETTINGS.
LEMMA BranchesDeadlines == ASSUME TypeOK, DeadlineInv, OtherBranches PROVE DeadlineInv'
<1>1. CASE Requests
  <2>1. UNCHANGED <<handled, timerVars, shutdownVars>> /\ Running
    BY <1>1 DEF Requests, WriteBranch, DistributeFails, StreamFails, StreamClosing,
                StreamClosed, Branch, DropRead, Ready, loopVars
  <2> QED
    BY <2>1, Untouched DEF timerVars, shutdownVars, Acked
<1>2. CASE NoticeShutdown
  <2>1. UNCHANGED <<now, handled, next_check, ping_ack_timeout, ping_at>> /\ Running
    BY <1>2 DEF NoticeShutdown, Branch, DropRead, Ready
  <2>2. \A type : Acked(type) => Acked(type)'
    BY <2>1 DEF Acked
  <2>3. CASE UNCHANGED <<settings_ack_timeout, shutdown_at>>
    BY <2>1, <2>2, <2>3, Untouched
  <2>4. CASE settings_ack_timeout' = now + SettingsTimeout /\ shutdown_at' = now
    <3>1. PingDeadline'
      BY <2>1, <2>2 DEF DeadlineInv, PingDeadline
    <3> QED
      BY <2>1, <2>2, <2>4, <3>1, ShutdownDeadline DEF DeadlineInv
  <2> QED
    BY <1>2, <2>3, <2>4 DEF NoticeShutdown, shutdownVars
<1> QED
  BY <1>1, <1>2, CheckDeadlines DEF OtherBranches

\* Every step keeps the deadlines.
LEMMA DeadlinesStep == ASSUME TypeOK, DeadlineInv, [Next]_vars PROVE DeadlineInv'
<1>1. CASE UNCHANGED vars
  BY <1>1, Untouched DEF vars, readVars, timerVars, loopVars, shutdownVars, Running, Acked
<1>2. CASE Tasks
  BY <1>2, Untouched DEF Tasks, TaskExits, readVars, timerVars, shutdownVars, Running, Acked
<1> QED
  BY <1>1, <1>2, PeerDeadlines, ReaderDeadlines, HandleDeadlines, BranchesDeadlines DEF Next

\* A task that is on time has not come further than one interval behind the deadline.
LEMMA DeadlinesImply == ASSUME TypeOK, DeadlineInv PROVE DeadlinesKept
<1>1. SUFFICES ASSUME Running, now <= next_check
      PROVE  /\ ~Acked("SETTINGS") => now <= shutdown_at + SettingsTimeout + CheckInterval
             /\ ~Acked("PING") /\ ping_at # Never =>
                    now <= ping_at + PingTimeout + CheckInterval
  BY DEF DeadlinesKept, OnTime, Ready
<1>2. /\ CheckInterval \in Nat /\ PingTimeout \in Nat /\ SettingsTimeout \in Nat
      /\ now \in Nat /\ next_check \in Nat /\ shutdown_at \in Nat
      /\ ping_at \in Times /\ ping_ack_timeout \in Times
  BY ReaderAssumption DEF ReaderAssumption, TypeOK
<1>3. ~Acked("SETTINGS") => now <= shutdown_at + SettingsTimeout + CheckInterval
  BY <1>1, <1>2 DEF DeadlineInv, SettingsDeadline
<1>4. ASSUME ~Acked("PING"), ping_at # Never
      PROVE  now <= ping_at + PingTimeout + CheckInterval
  BY <1>1, <1>2, <1>4 DEF DeadlineInv, PingDeadline, Times
<1> QED
  BY <1>3, <1>4

\* Whatever the peer sends, however it is cut up, and whatever the other branches do
\* in between: for any timeouts and intervals, a peer that never acknowledges is gone
\* one check after the deadline, as far as the task gets to its checks at all.
THEOREM DeadlinesCorrect == Spec => []DeadlinesKept
<1>1. Init => TypeOK /\ DeadlineInv
  BY InitType, InitDeadlines
<1>2. TypeOK /\ DeadlineInv /\ [Next]_vars => (TypeOK /\ DeadlineInv)'
  BY TypeStep, DeadlinesStep
<1>3. TypeOK /\ DeadlineInv => DeadlinesKept
  BY DeadlinesImply
<1> QED
  BY <1>1, <1>2, <1>3, PTL DEF Spec

-----------------------------------------------------------------------------
(* Header blocks.  What has ended stays framed because of what             *)
(* header_buffer holds between two frames: nothing outside the loop for    *)
(* CONTINUATION, and inside it HEADERS and fragments none of which ends    *)
(* the block.                                                              *)

Open(block) ==
    /\ block # << >> /\ block[1].of.type = "HEADERS"
    /\ \A i \in DOMAIN block : "END_HEADERS" \notin block[i].of.flags

BufferInv ==
    Running => IF continuing = 0 THEN header_buffer = << >> ELSE Open(header_buffer)

BlockInv == BlocksFramed /\ BufferInv

\* A step that leaves the blocks alone.
LEMMA BlocksUntouched ==
    ASSUME BlockInv, Running' => Running, UNCHANGED <<continuing, header_buffer, ended>>
    PROVE  BlockInv'
BY DEF BlockInv, BlocksFramed, BufferInv, IsBlock, Open

\* A fragment is appended to those of its block.
LEMMA FragmentAppended ==
    ASSUME TypeOK, NEW f \in Frames
    PROVE  LET block == Append(header_buffer, Fragment(f)) IN
           /\ Fragment(f) \in FragmentRecords /\ Fragment(f).of = f
           /\ header_buffer \in Seq(FragmentRecords) /\ block \in Seq(FragmentRecords)
           /\ Len(block) = Len(header_buffer) + 1 /\ Len(header_buffer) \in Nat
           /\ DOMAIN block = 1..Len(header_buffer) + 1
           /\ DOMAIN header_buffer = 1..Len(header_buffer)
           /\ block[Len(header_buffer) + 1] = Fragment(f)
           /\ \A i \in 1..Len(header_buffer) : block[i] = header_buffer[i]
<1>1. Fragment(f) \in FragmentRecords /\ Fragment(f).of = f
  BY DEF Fragment, FragmentRecords, Garbled
<1>2. header_buffer \in Seq(FragmentRecords)
  BY DEF TypeOK
<1> QED
  BY <1>1, <1>2

\* The fragment of HEADERS opens a block, that of CONTINUATION goes on with one.
LEMMA FragmentFramed ==
    ASSUME TypeOK, BlockInv, Running, NEW f \in Frames,
           IF continuing = 0 THEN f.type = "HEADERS" ELSE f.type = "CONTINUATION"
    PROVE  LET block == Append(header_buffer, Fragment(f)) IN
           IF "END_HEADERS" \in f.flags THEN IsBlock(block) ELSE Open(block)
<1> DEFINE block == Append(header_buffer, Fragment(f))
<1>1. /\ Len(block) = Len(header_buffer) + 1 /\ Len(header_buffer) \in Nat
      /\ DOMAIN block = 1..Len(header_buffer) + 1
      /\ header_buffer \in Seq(FragmentRecords)
      /\ block[Len(block)].of = f
      /\ \A i \in 1..Len(header_buffer) : block[i] = header_buffer[i]
  BY FragmentAppended
<1>2. \A i \in 1..Len(header_buffer) : "END_HEADERS" \notin header_buffer[i].of.flags
  BY <1>1 DEF BlockInv, BufferInv, Open
<1> HIDE DEF block
<1>3. block[1].of.type = "HEADERS"
  <2>1. CASE continuing = 0
    <3>1. header_buffer = << >>
      BY <2>1 DEF BlockInv, BufferInv
    <3>2. Len(header_buffer) = 0
      BY <3>1
    <3> QED
      BY <1>1, <2>1, <3>2
  <2>2. CASE continuing # 0
    <3>1. header_buffer # << >> /\ header_buffer[1].of.type = "HEADERS"
      BY <2>2 DEF BlockInv, BufferInv, Open
    <3>2. 1 \in 1..Len(header_buffer)
      BY <1>1, <3>1
    <3> QED
      BY <1>1, <3>1, <3>2
  <2> QED
    BY <2>1, <2>2
<1>4. block # << >>
  BY <1>1
<1>5. CASE "END_HEADERS" \in f.flags
  <2>1. \A i \in DOMAIN block : "END_HEADERS" \in block[i].of.flags <=> i = Len(block)
    BY <1>1, <1>2, <1>5
  <2> QED
    BY <1>3, <1>5, <2>1 DEF IsBlock, block
<1>6. CASE "END_HEADERS" \notin f.flags
  <2>1. \A i \in DOMAIN block : "END_HEADERS" \notin block[i].of.flags
    BY <1>1, <1>2, <1>6
  <2> QED
    BY <1>3, <1>4, <1>6, <2>1 DEF Open, block
<1> QED
  BY <1>5, <1>6

\* One more block.
LEMMA BlockAppended ==
    ASSUME TypeOK, BlocksFramed, NEW block \in Seq(FragmentRecords), IsBlock(block),
           ended' = Append(ended, block)
    PROVE  BlocksFramed'
<1>1. /\ DOMAIN ended' = 1..Len(ended) + 1
      /\ Len(ended) \in Nat /\ DOMAIN ended = 1..Len(ended)
      /\ ended'[Len(ended) + 1] = block
      /\ \A i \in 1..Len(ended) : ended'[i] = ended[i]
  <2> DEFINE V == Seq(FragmentRecords)
  <2>1. ended \in Seq(V) /\ block \in V
    BY DEF TypeOK
  <2> HIDE DEF V
  <2> QED
    BY <2>1
<1>2. ASSUME NEW i \in DOMAIN ended' PROVE IsBlock(ended'[i])
  <2>1. CASE i \in 1..Len(ended)
    BY <1>1, <2>1 DEF BlocksFramed
  <2>2. CASE i = Len(ended) + 1
    BY <1>1, <2>2
  <2> QED
    BY <1>1, <1>2, <2>1, <2>2
<1> QED
  BY <1>2 DEF BlocksFramed

\* What becomes of the blocks when a fragment is received: the fragment is kept, or
\* its block has ended, or the connection has.
LEMMA FragmentSplit ==
    ASSUME TypeOK, Running, NEW f \in Frames, RecvFragment(f)
    PROVE  LET block == Append(header_buffer, Fragment(f)) IN
           \/ /\ "END_HEADERS" \notin f.flags /\ Fits(f)
              /\ continuing' = f.stream /\ header_buffer' = block
              /\ UNCHANGED <<exit, ended, refused, handleVars, countVars>>
           \/ /\ "END_HEADERS" \in f.flags /\ Fits(f)
              /\ continuing' = 0 /\ header_buffer' = << >> /\ ended' = Append(ended, block)
              /\ refused \subseteq refused' /\ UNCHANGED exit
              /\ OpenStream(f.stream) \/ (StreamError(f.stream) /\ UNCHANGED countVars)
           \/ /\ ~Running' /\ UNCHANGED <<ended, refused, handleVars>>
              /\ header_buffer' \in {header_buffer, block}
              /\ \/ ~Fits(f) /\ exit' = "protocol"
                 \/ DecodingFails(block)
<1> DEFINE block == Append(header_buffer, Fragment(f))
<1>1. CASE ~Fits(f)
  BY <1>1 DEF RecvFragment, blockVars, Running
<1>2. CASE Fits(f) /\ "END_HEADERS" \notin f.flags
  BY <1>2 DEF RecvFragment
<1>3. CASE Fits(f) /\ "END_HEADERS" \in f.flags
  <2>1. EndBlock(block, f.stream)
    BY <1>3 DEF RecvFragment
  <2> HIDE DEF block
  <2>2. CASE RefuseBlock(block, f.stream)
    BY <1>3, <2>1, <2>2 DEF EndBlock, RefuseBlock, block
  <2>3. CASE ReadRequest(block, f.stream)
    BY <1>3, <2>1, <2>3 DEF EndBlock, ReadRequest, block
  <2>4. CASE DecodingFails(block)
    <3>1. ~Running' /\ UNCHANGED <<ended, refused, handleVars>> /\ header_buffer' = block
      BY <2>4 DEF DecodingFails, Running
    <3> QED
      BY <2>4, <3>1 DEF block
  <2> QED
    BY <2>1, <2>2, <2>3, <2>4 DEF EndBlock
<1> QED
  BY <1>1, <1>2, <1>3

\* The fragment of a frame that may come now: more of the block, or its end.
LEMMA FragmentBlocks ==
    ASSUME TypeOK, BlockInv, Running, NEW f \in Frames, RecvFragment(f), f.stream # 0,
           IF continuing = 0 THEN f.type = "HEADERS" ELSE f.type = "CONTINUATION"
    PROVE  BlockInv'
<1> DEFINE block == Append(header_buffer, Fragment(f))
<1>1. block \in Seq(FragmentRecords)
  BY FragmentAppended
<1>2. IF "END_HEADERS" \in f.flags THEN IsBlock(block) ELSE Open(block)
  BY FragmentFramed
<1> HIDE DEF block
<1>3. CASE "END_HEADERS" \notin f.flags /\ continuing' = f.stream /\ header_buffer' = block
           /\ UNCHANGED ended
  <2>1. Open(header_buffer')
    BY <1>2, <1>3
  <2> QED
    BY <1>3, <2>1 DEF BlockInv, BlocksFramed, BufferInv, Open, IsBlock
<1>4. CASE "END_HEADERS" \in f.flags /\ continuing' = 0 /\ header_buffer' = << >>
           /\ ended' = Append(ended, block)
  <2>1. BlocksFramed'
    BY <1>1, <1>2, <1>4, BlockAppended DEF BlockInv
  <2> QED
    BY <1>4, <2>1 DEF BlockInv, BufferInv
<1>5. CASE ~Running' /\ UNCHANGED ended
  BY <1>5 DEF BlockInv, BlocksFramed, BufferInv, IsBlock
<1> QED
  BY <1>3, <1>4, <1>5, FragmentSplit DEF block

\* A connection that has ended takes no step.
LEMMA EndedStep == ASSUME Next PROVE Running
BY DEF Next, Peer, Send, PassTime, WriteEnds, Tasks, TaskExits, Reader, ReadFromReader,
       ReadFails, FrameBufferFull, ParseHeader, RefuseFrame, Handle, RecvHeaders, Panic,
       RecvContinuation, RecvData, RecvSettings, RecvPing, RecvWindowUpdate, RecvGoAway,
       RecvUnexpected, RecvIgnored, Recv, TakeFrame, OtherBranches, NoticeShutdown,
       CheckTimeouts, Requests, WriteBranch, DistributeFails, StreamFails, StreamClosing,
       StreamClosed, Branch, Ready

\* What leaves the blocks as they are.
LEMMA BlocksKept ==
    ASSUME \/ UNCHANGED vars \/ Peer \/ Tasks \/ Reader \/ OtherBranches
           \/ Panic \/ RecvData \/ RecvSettings \/ RecvPing \/ RecvWindowUpdate \/ RecvGoAway
           \/ RecvUnexpected \/ RecvIgnored
    PROVE  UNCHANGED blockVars
<1>1. CASE UNCHANGED vars \/ Peer \/ Tasks \/ Reader
  BY <1>1 DEF vars, Peer, Send, PassTime, WriteEnds, Tasks, TaskExits, Reader, ReadFromReader,
              ReadFails, FrameBufferFull, ParseHeader, RefuseFrame, Leave, loopVars
<1>2. CASE OtherBranches
  BY <1>2 DEF OtherBranches, NoticeShutdown, CheckTimeouts, Requests, WriteBranch,
              DistributeFails, StreamFails, StreamClosing, StreamClosed, loopVars
<1>3. CASE Panic \/ RecvData \/ RecvSettings \/ RecvPing \/ RecvWindowUpdate \/ RecvGoAway
           \/ RecvUnexpected \/ RecvIgnored
  BY <1>3 DEF Panic, RecvData, RecvSettings, RecvPing, RecvWindowUpdate, RecvGoAway,
              RecvUnexpected, RecvIgnored, loopVars
<1> QED
  BY <1>1, <1>2, <1>3

\* The two that do not: a fragment that may come now, or an exit.
LEMMA FragmentComes ==
    ASSUME TypeOK, RecvHeaders \/ RecvContinuation
    PROVE  /\ TakeFrame /\ Running /\ header \in Frames
           /\ \/ /\ RecvFragment(header) /\ header.stream # 0
                 /\ IF continuing = 0 THEN header.type = "HEADERS"
                                      ELSE header.type = "CONTINUATION"
              \/ exit' = "protocol" /\ UNCHANGED <<blockVars, handleVars, countVars>>
<1>1. TakeFrame /\ ~Refused(header) /\ Running
  BY DEF RecvHeaders, RecvContinuation, Recv, TakeFrame, Ready
<1>2. header \in Frames
  BY <1>1, TakeFrameType
<1>3. CASE RecvHeaders
  <2>1. continuing = 0 /\ header.type = "HEADERS" /\ header.stream # 0
    BY <1>1, <1>3 DEF RecvHeaders, Recv, Refused
  <2> QED
    BY <1>1, <1>2, <1>3, <2>1 DEF RecvHeaders
<1>4. CASE RecvContinuation
  BY <1>1, <1>2, <1>4 DEF RecvContinuation
<1> QED
  BY <1>3, <1>4

\* Every step keeps the blocks framed.
LEMMA BlocksStep == ASSUME TypeOK, BlockInv, [Next]_vars PROVE BlockInv'
<1>1. Running' => Running
  BY EndedStep DEF vars, Running
<1>2. CASE UNCHANGED blockVars
  BY <1>1, <1>2, BlocksUntouched DEF blockVars
<1>3. CASE RecvHeaders \/ RecvContinuation
  BY <1>2, <1>3, FragmentComes, FragmentBlocks
<1> QED
  BY <1>2, <1>3, BlocksKept DEF Next, Handle

\* Whatever the peer sends and however main_loop is interrupted: every block that has
\* ended begins with HEADERS and ends with the first END_HEADERS.
THEOREM BlocksCorrect == Spec => []BlocksFramed
<1>1. Init => TypeOK /\ BlockInv
  BY InitType DEF Init, BlockInv, BlocksFramed, BufferInv
<1>2. TypeOK /\ BlockInv /\ [Next]_vars => (TypeOK /\ BlockInv)'
  BY TypeStep, BlocksStep
<1>3. BlockInv => BlocksFramed
  BY DEF BlockInv
<1> QED
  BY <1>1, <1>2, <1>3, PTL DEF Spec

-----------------------------------------------------------------------------
(* The reasons of an exit.  A deadline is only looked at by a check that   *)
(* is due, and the deadline of SETTINGS is the one of the last that were   *)
(* written.  What the decoder fails over is in header_buffer, or comes     *)
(* now: either way it is among the frames handled.                         *)

TimeInv ==
    /\ settings_ack_timeout # Never => settings_ack_timeout = shutdown_at + SettingsTimeout
    /\ ping_ack_timeout # Never => ping_at # Never
    /\ NoFalseTimeout

\* The check that ends the connection was due, and finds a deadline behind it.
LEMMA CheckReasons == ASSUME TypeOK, TimeInv, CheckTimeouts PROVE TimeInv'
<1>1. /\ UNCHANGED <<now, settings_ack_timeout, shutdown_at>> /\ Running
      /\ next_check <= now
  BY DEF CheckTimeouts, Branch, DropRead, Ready, loopVars, shutdownVars
<1>2. /\ now \in Nat /\ next_check \in Nat /\ shutdown_at \in Nat
      /\ ping_at \in Times /\ ping_ack_timeout \in Times /\ settings_ack_timeout \in Times
  BY DEF TypeOK
<1>3. /\ CheckInterval \in Nat /\ PingTimeout \in Nat /\ SettingsTimeout \in Nat
      /\ Never \notin Nat
  BY ReaderAssumption DEF ReaderAssumption
<1>4. CASE SettingsLate
  <2>1. /\ exit' = "settings timeout" /\ UNCHANGED <<ping_ack_timeout, ping_at>>
    BY <1>4 DEF CheckTimeouts
  <2>2. settings_ack_timeout = shutdown_at + SettingsTimeout /\ next_check > settings_ack_timeout
    BY <1>4 DEF SettingsLate, Passed, TimeInv
  <2>3. now > shutdown_at + SettingsTimeout
    BY <1>1, <1>2, <1>3, <2>2
  <2> QED
    BY <1>1, <2>1, <2>3 DEF TimeInv, NoFalseTimeout
<1>5. CASE ~SettingsLate /\ Passed(ping_ack_timeout, next_check)
  <2>1. /\ exit' = "ping timeout" /\ UNCHANGED <<ping_ack_timeout, ping_at>>
    BY <1>5 DEF CheckTimeouts
  <2>2. /\ ping_ack_timeout \in Nat /\ ping_at \in Nat /\ next_check > ping_ack_timeout
    BY <1>2, <1>5 DEF Passed, TimeInv, Times
  <2>3. now > ping_at + PingTimeout \/ ping_ack_timeout < ping_at + PingTimeout
    BY <1>1, <1>2, <1>3, <2>2
  <2> QED
    BY <1>1, <2>1, <2>3 DEF TimeInv, NoFalseTimeout
<1>6. CASE ~SettingsLate /\ ~Passed(ping_ack_timeout, next_check)
  <2>1. exit' = exit
    BY <1>6 DEF CheckTimeouts
  <2>2. \/ ping_ack_timeout' = next_check + PingTimeout /\ ping_at' = now
        \/ UNCHANGED <<ping_ack_timeout, ping_at>>
    BY <1>6 DEF CheckTimeouts
  <2>3. ping_ack_timeout' # Never => ping_at' # Never
    BY <1>2, <1>3, <2>2 DEF TimeInv
  <2> QED
    BY <1>1, <2>1, <2>3 DEF TimeInv, NoFalseTimeout, Running
<1> QED
  BY <1>4, <1>5, <1>6

\* No other step ends the connection for a deadline, or sets one to another value.
LEMMA TimeStep == ASSUME TypeOK, TimeInv, [Next]_vars PROVE TimeInv'
<1>1. CASE UNCHANGED vars
  BY <1>1 DEF vars, timerVars, loopVars, shutdownVars, TimeInv, NoFalseTimeout
<1>2. ASSUME Running, exit' \notin {"settings timeout", "ping timeout"},
             \/ settings_ack_timeout' = Never
             \/ UNCHANGED <<settings_ack_timeout, shutdown_at>>
             \/ settings_ack_timeout' = now + SettingsTimeout /\ shutdown_at' = now,
             ping_ack_timeout' = Never \/ UNCHANGED ping_ack_timeout, UNCHANGED ping_at
      PROVE  TimeInv'
  BY <1>2 DEF TimeInv, NoFalseTimeout
<1>3. CASE Next
  <2>1. Running /\ exit \notin {"settings timeout", "ping timeout"}
    BY <1>3, EndedStep DEF Running
  <2>2. CASE Peer \/ Tasks
    BY <1>2, <2>1, <2>2 DEF Peer, Send, PassTime, WriteEnds, Tasks, TaskExits, timerVars,
                            loopVars, shutdownVars
  <2>3. CASE Reader
    BY <1>2, <2>1, <2>3
       DEF Reader, ReadFromReader, ReadFails, FrameBufferFull, ParseHeader, RefuseFrame, Leave,
           timerVars, loopVars, shutdownVars
  <2>4. CASE RecvHeaders \/ RecvContinuation
    <3>1. UNCHANGED <<timerVars, shutdownVars>>
      BY <2>4 DEF RecvHeaders, RecvContinuation
    <3>2. exit' \notin {"settings timeout", "ping timeout"}
      BY <2>1, <2>4
         DEF RecvHeaders, RecvContinuation, RecvFragment, EndBlock, RefuseBlock, ReadRequest,
             DecodingFails
    <3> QED
      BY <1>2, <2>1, <3>1, <3>2 DEF timerVars, shutdownVars
  <2>5. CASE RecvSettings \/ RecvPing
    BY <1>2, <2>1, <2>5 DEF RecvSettings, RecvPing, loopVars, shutdownVars
  <2>6. CASE Panic \/ RecvData \/ RecvWindowUpdate \/ RecvGoAway \/ RecvUnexpected \/ RecvIgnored
    BY <1>2, <2>1, <2>6
       DEF Panic, RecvData, RecvWindowUpdate, RecvGoAway, RecvUnexpected, RecvIgnored,
           timerVars, loopVars, shutdownVars
  <2>7. CASE NoticeShutdown
    BY <1>2, <2>1, <2>7 DEF NoticeShutdown, shutdownVars
  <2>8. CASE Requests
    BY <1>2, <2>1, <2>8
       DEF Requests, WriteBranch, DistributeFails, StreamFails, StreamClosing, StreamClosed,
           timerVars, loopVars, shutdownVars
  <2>9. CASE CheckTimeouts
    BY <2>9, CheckReasons
  <2> QED
    BY <1>3, <2>2, <2>3, <2>4, <2>5, <2>6, <2>7, <2>8, <2>9 DEF Next, Handle, OtherBranches
<1> QED
  BY <1>1, <1>3

\* Every fragment of the block is that of a frame that has been handled, and is cut
\* only if that frame is padded and has priority.
Kept(block) ==
    \A i \in DOMAIN block :
        /\ block[i].cut = Garbled(block[i].of)
        /\ \E j \in DOMAIN handled : handled[j] = block[i].of

DecodeInv ==
    /\ Running => Kept(header_buffer) /\ \A n \in DOMAIN ended : Kept(ended[n])
    /\ NoFalseDecoding

\* What has been handled remains so, and the frame that is taken is.
LEMMA TakeFrameKept ==
    ASSUME TypeOK, TakeFrame
    PROVE  /\ \A i \in DOMAIN handled : \E j \in DOMAIN handled' : handled'[j] = handled[i]
           /\ \E j \in DOMAIN handled' : handled'[j] = header
<1>1. handled \in Seq(Frames) /\ handled' = Append(handled, header)
  BY DEF TypeOK, TakeFrame
<1>2. Len(handled) + 1 \in DOMAIN handled' /\ handled'[Len(handled) + 1] = header
  BY <1>1
<1>3. \A i \in DOMAIN handled : i \in DOMAIN handled' /\ handled'[i] = handled[i]
  BY <1>1
<1> QED
  BY <1>2, <1>3

\* Blocks whose frames were handled are so after the step as well.
LEMMA KeptOn ==
    ASSUME TypeOK, handled' = handled \/ TakeFrame, NEW block, Kept(block)
    PROVE  /\ \A i \in DOMAIN block :
                  /\ block[i].cut = Garbled(block[i].of)
                  /\ \E j \in DOMAIN handled' : handled'[j] = block[i].of
<1>1. \A i \in DOMAIN handled : \E j \in DOMAIN handled' : handled'[j] = handled[i]
  BY TakeFrameKept
<1> QED
  BY <1>1 DEF Kept

\* A block that is spoilt betrays one of the frames handled.
LEMMA SpoiltKept ==
    ASSUME NEW block, Spoilt(block),
           \A i \in DOMAIN block :
               /\ block[i].cut = Garbled(block[i].of)
               /\ \E j \in DOMAIN handled' : handled'[j] = block[i].of
    PROVE  \E j \in DOMAIN handled' : Garbled(handled'[j]) \/ handled'[j].content = "bad"
<1>1. PICK i \in DOMAIN block : block[i].cut \/ block[i].of.content = "bad"
  BY DEF Spoilt
<1>2. PICK j \in DOMAIN handled' : handled'[j] = block[i].of
  OBVIOUS
<1> QED
  BY <1>1, <1>2

\* A fragment is stored, or its block is decoded, refused or fails.
LEMMA FragmentReasons ==
    ASSUME TypeOK, DecodeInv, Running, TakeFrame, header \in Frames, RecvFragment(header)
    PROVE  DecodeInv'
<1> DEFINE block == Append(header_buffer, Fragment(header))
           Still(b) == \A i \in DOMAIN b : /\ b[i].cut = Garbled(b[i].of)
                                           /\ \E j \in DOMAIN handled' : handled'[j] = b[i].of
<1>1. Still(header_buffer) /\ \A n \in DOMAIN ended : Still(ended[n])
  BY KeptOn DEF DecodeInv
<1>2. Still(block)
  <2>1. /\ DOMAIN block = 1..Len(header_buffer) + 1 /\ Len(header_buffer) \in Nat
        /\ DOMAIN header_buffer = 1..Len(header_buffer)
        /\ block[Len(header_buffer) + 1] = Fragment(header)
        /\ \A i \in 1..Len(header_buffer) : block[i] = header_buffer[i]
    BY FragmentAppended
  <2>2. Fragment(header).of = header /\ Fragment(header).cut = Garbled(header)
    BY DEF Fragment
  <2>3. \E j \in DOMAIN handled' : handled'[j] = header
    BY TakeFrameKept
  <2> HIDE DEF block
  <2>4. ASSUME NEW i \in DOMAIN block
        PROVE  /\ block[i].cut = Garbled(block[i].of)
               /\ \E j \in DOMAIN handled' : handled'[j] = block[i].of
    <3>1. CASE i \in DOMAIN header_buffer
      BY <1>1, <2>1, <3>1
    <3>2. CASE i = Len(header_buffer) + 1
      BY <2>1, <2>2, <2>3, <3>2
    <3> QED
      BY <2>1, <2>4, <3>1, <3>2
  <2> QED
    BY <2>4
<1> HIDE DEF block
<1>3. \A b : Still(b) => Kept(b)'
  BY DEF Kept
<1>4. ASSUME exit' = exit, header_buffer' \in {<< >>, block},
             ended' = ended \/ ended' = Append(ended, block)
      PROVE  DecodeInv'
  <2>1. Still(<< >>)
    OBVIOUS
  <2>2. Still(header_buffer')
    BY <1>2, <1>4, <2>1
  <2>3. \A n \in DOMAIN ended' : Still(ended'[n])
    <3>1. CASE ended' = ended
      BY <1>1, <3>1
    <3>2. CASE ended' = Append(ended, block)
      <4> DEFINE V == Seq(FragmentRecords)
      <4>1. ended \in Seq(V) /\ block \in V
        BY FragmentAppended DEF TypeOK, block
      <4> HIDE DEF V, Still
      <4>2. /\ DOMAIN ended' = 1..Len(ended) + 1 /\ DOMAIN ended = 1..Len(ended)
            /\ ended'[Len(ended) + 1] = block /\ Len(ended) \in Nat
            /\ \A n \in 1..Len(ended) : ended'[n] = ended[n]
        BY <3>2, <4>1
      <4>3. \A n \in DOMAIN ended' : n \in DOMAIN ended \/ n = Len(ended) + 1
        BY <4>2
      <4> QED
        BY <1>1, <1>2, <4>2, <4>3
    <3> QED
      BY <1>4, <3>1, <3>2
  <2>4. exit' = "running"
    BY <1>4 DEF Running
  <2> HIDE DEF Still
  <2>5. Kept(header_buffer)' /\ \A n \in DOMAIN ended' : Kept(ended[n])'
    <3> USE DEF Still
    <3>1. Kept(header_buffer)'
      BY <2>2 DEF Kept
    <3>2. \A n \in DOMAIN ended' : Kept(ended[n])'
      BY <2>3 DEF Kept
    <3> QED
      BY <3>1, <3>2
  <2> QED
    BY <2>4, <2>5 DEF DecodeInv, NoFalseDecoding
<1>5. ASSUME exit' = "protocol" PROVE DecodeInv'
  BY <1>5 DEF DecodeInv, NoFalseDecoding, Running
<1>6. ASSUME DecodingFails(block) PROVE DecodeInv'
  <2>1. Unreliable(block) /\ exit' = "compression" /\ refused' = refused /\ torn' = torn
    BY <1>6 DEF DecodingFails, TakeFrame
  <2>2. CASE torn \/ refused # {}
    BY <2>1, <2>2 DEF DecodeInv, NoFalseDecoding, Running
  <2>3. CASE Spoilt(block) \/ \E n \in DOMAIN ended : Spoilt(ended[n])
    <3>1. \E j \in DOMAIN handled' : Garbled(handled'[j]) \/ handled'[j].content = "bad"
      BY <1>1, <1>2, <2>3, SpoiltKept
    <3> QED
      BY <2>1, <3>1 DEF DecodeInv, NoFalseDecoding, Running
  <2> QED
    BY <2>1, <2>2, <2>3 DEF Unreliable
<1> QED
  BY <1>4, <1>5, <1>6, FragmentSplit DEF block

\* A step that leaves the blocks alone and ends the connection for another reason.
LEMMA DecodeUntouched ==
    ASSUME TypeOK, DecodeInv, Running, UNCHANGED <<header_buffer, ended>>,
           handled' = handled \/ TakeFrame, exit' \notin {"compression", "panicked"}
    PROVE  DecodeInv'
<1>1. Kept(header_buffer)' /\ \A n \in DOMAIN ended : Kept(ended[n])'
  BY KeptOn DEF DecodeInv, Kept
<1> QED
  BY <1>1 DEF DecodeInv, NoFalseDecoding

\* Every step keeps the reasons of a decoder that fails.
LEMMA DecodeStep == ASSUME TypeOK, DecodeInv, [Next]_vars PROVE DecodeInv'
<1>1. CASE UNCHANGED vars
  BY <1>1 DEF vars, readVars, loopVars, blockVars, DecodeInv, NoFalseDecoding, Kept, Running
<1>2. CASE Next
  <2>1. Running /\ exit = "running"
    BY <1>2, EndedStep DEF Running
  <2>2. CASE Peer \/ Tasks \/ Reader
    <3>1. UNCHANGED <<handled, header_buffer, ended>>
      BY <2>2, BlocksKept
         DEF Peer, Send, PassTime, WriteEnds, Tasks, TaskExits, Reader, ReadFromReader,
             ReadFails, FrameBufferFull, ParseHeader, RefuseFrame, Leave, readVars, blockVars
    <3>2. exit' \notin {"compression", "panicked"}
      BY <2>1, <2>2
         DEF Peer, Send, PassTime, WriteEnds, Tasks, TaskExits, Reader, ReadFromReader,
             ReadFails, FrameBufferFull, ParseHeader, RefuseFrame, Leave
    <3> QED
      BY <2>1, <3>1, <3>2, DecodeUntouched
  <2>3. CASE RecvHeaders \/ RecvContinuation
    BY <2>1, <2>3, FragmentComes, FragmentReasons, DecodeUntouched DEF blockVars
  <2>4. CASE Panic
    <3>1. TakeFrame /\ Garbled(header) /\ exit' = "panicked"
      BY <2>4 DEF Panic, Recv, Panics
    <3>2. \E j \in DOMAIN handled' : Garbled(handled'[j])
      BY <3>1, TakeFrameKept
    <3> QED
      BY <3>1, <3>2 DEF DecodeInv, NoFalseDecoding, Running
  <2>5. CASE RecvData \/ RecvSettings \/ RecvPing \/ RecvWindowUpdate \/ RecvGoAway
             \/ RecvUnexpected \/ RecvIgnored
    <3>1. TakeFrame /\ UNCHANGED <<header_buffer, ended>>
      BY <2>5, HandleTakes, BlocksKept DEF Handle, blockVars
    <3>2. exit' \notin {"compression", "panicked"}
      BY <2>1, <2>5 DEF RecvData, RecvSettings, RecvPing, RecvWindowUpdate, RecvGoAway,
                        RecvUnexpected, RecvIgnored
    <3> QED
      BY <2>1, <3>1, <3>2, DecodeUntouched
  <2>6. CASE OtherBranches
    <3>1. UNCHANGED <<handled, header_buffer, ended>>
      BY <2>6, BlocksKept
         DEF OtherBranches, NoticeShutdown, CheckTimeouts, Requests, WriteBranch,
             DistributeFails, StreamFails, StreamClosing, StreamClosed, Branch, DropRead, blockVars
    <3>2. exit' \notin {"compression", "panicked"}
      BY <2>1, <2>6
         DEF OtherBranches, NoticeShutdown, CheckTimeouts, Requests, WriteBranch,
             DistributeFails, StreamFails, StreamClosing, StreamClosed
    <3> QED
      BY <2>1, <3>1, <3>2, DecodeUntouched
  <2> QED
    BY <1>2, <2>2, <2>3, <2>4, <2>5, <2>6 DEF Next, Handle
<1> QED
  BY <1>1, <1>2

\* No connection is ended for a deadline that has not passed, and none for a header
\* block without a torn, refused, undecodable or garbled one: the first two parts of
\* NoFalseExit.
THEOREM ExitsJustified == Spec => [](NoFalseTimeout /\ NoFalseDecoding)
<1>1. Init => TypeOK /\ TimeInv /\ DecodeInv
  BY InitType, ReaderAssumption
     DEF Init, ReaderAssumption, TimeInv, DecodeInv, Kept, NoFalseTimeout, NoFalseDecoding
<1>2. TypeOK /\ TimeInv /\ DecodeInv /\ [Next]_vars => (TypeOK /\ TimeInv /\ DecodeInv)'
  BY TypeStep, TimeStep, DecodeStep
<1>3. TimeInv /\ DecodeInv => NoFalseTimeout /\ NoFalseDecoding
  BY DEF TimeInv, DecodeInv
<1> QED
  BY <1>1, <1>2, <1>3, PTL DEF Spec

-----------------------------------------------------------------------------
(* The frames in step.  A header that has been parsed is the one of the    *)
(* next frame sent as long as the units consumed are those of the frames   *)
(* handled, for no two places of the stream are the same number of units   *)
(* from its beginning.                                                     *)

\* The sizes of frames are a sequence of numbers.
LEMMA Sizes ==
    ASSUME NEW fs \in Seq(Frames), NEW n \in Nat
    PROVE  [i \in 1..Len(fs) |-> n + fs[i].length] \in Seq(Nat)
<1>1. \A i \in 1..Len(fs) : n + fs[i].length \in Nat
  BY ReaderAssumption DEF ReaderAssumption, FrameRecords
<1> QED
  BY <1>1

\* One more frame.
LEMMA UnitsAppend ==
    ASSUME NEW fs \in Seq(Frames), NEW f \in Frames
    PROVE  /\ Units(fs) \in Nat /\ Units(Append(fs, f)) \in Nat /\ f.length \in Nat
           /\ Units(Append(fs, f)) = Units(fs) + HeaderLen + f.length
<1> DEFINE s == [i \in 1..Len(fs) |-> HeaderLen + fs[i].length]
           gs == Append(fs, f)
           t == [i \in 1..Len(gs) |-> HeaderLen + gs[i].length]
<1>1. /\ gs \in Seq(Frames) /\ Len(gs) = Len(fs) + 1 /\ gs[Len(fs) + 1] = f
      /\ \A i \in 1..Len(fs) : gs[i] = fs[i]
  OBVIOUS
<1>2. HeaderLen \in Nat /\ f.length \in Nat
  BY ReaderAssumption DEF ReaderAssumption, FrameRecords
<1> HIDE DEF gs
<1>3. s \in Seq(Nat) /\ t \in Seq(Nat)
  BY <1>1, <1>2, Sizes
<1>4. Len(s) = Len(fs) /\ Len(t) = Len(s) + 1 /\ \A i \in 1..Len(s) : t[i] = s[i]
  BY <1>1
<1>5. t[Len(s) + 1] = HeaderLen + f.length
  BY <1>1, <1>4
<1>6. Units(fs) = Total[s] /\ Units(gs) = Total[t]
  BY DEF Units
<1> HIDE DEF s, t
<1>7. Total[s] \in Nat /\ Total[t] \in Nat /\ s \in Seq(Int) /\ t \in Seq(Int)
  BY <1>3, TotalNatural
<1>8. Total[t] = Total[s] + t[Len(s) + 1]
  BY <1>4, <1>7, TotalLonger
<1>9. Units(gs) = Units(fs) + HeaderLen + f.length
  BY <1>2, <1>5, <1>6, <1>7, <1>8
<1> QED
  BY <1>2, <1>6, <1>7, <1>9 DEF gs

\* Nothing is no units.
LEMMA UnitsNone == Units(<< >>) = 0
<1>1. [i \in 1..Len(<< >>) |-> HeaderLen + << >>[i].length] = << >>
  OBVIOUS
<1> QED
  BY <1>1, TotalDefined DEF Units

LEMMA UnitsNatural == ASSUME NEW fs \in Seq(Frames) PROVE Units(fs) \in Nat
<1> DEFINE s == [i \in 1..Len(fs) |-> HeaderLen + fs[i].length]
<1>1. HeaderLen \in Nat
  BY ReaderAssumption DEF ReaderAssumption
<1>2. s \in Seq(Nat)
  BY <1>1, Sizes
<1> HIDE DEF s
<1>3. Total[s] \in Nat
  BY <1>2, TotalNatural
<1> QED
  BY <1>3 DEF Units, s

\* A longer part of the stream is more units.
LEMMA PrefixGrows ==
    ASSUME NEW fs \in Seq(Frames), NEW i \in 0..Len(fs) - 1
    PROVE  /\ Units(SubSeq(fs, 1, i)) \in Nat /\ Units(SubSeq(fs, 1, i + 1)) \in Nat
           /\ Units(SubSeq(fs, 1, i)) < Units(SubSeq(fs, 1, i + 1))
           /\ Units(SubSeq(fs, 1, i + 1)) =
                  Units(SubSeq(fs, 1, i)) + HeaderLen + fs[i + 1].length
<1> DEFINE gs == SubSeq(fs, 1, i)
<1>1. gs \in Seq(Frames) /\ fs[i + 1] \in Frames
  OBVIOUS
<1>2. SubSeq(fs, 1, i + 1) = Append(gs, fs[i + 1])
  OBVIOUS
<1> HIDE DEF gs
<1>3. /\ Units(gs) \in Nat /\ Units(Append(gs, fs[i + 1])) \in Nat /\ fs[i + 1].length \in Nat
      /\ Units(Append(gs, fs[i + 1])) = Units(gs) + HeaderLen + fs[i + 1].length
  BY <1>1, UnitsAppend
<1>4. HeaderLen \in Nat /\ HeaderLen # 0
  BY ReaderAssumption DEF ReaderAssumption
<1>5. Units(gs) < Units(Append(gs, fs[i + 1]))
  BY <1>3, <1>4
<1> QED
  BY <1>2, <1>3, <1>5 DEF gs

LEMMA PrefixOrder ==
    ASSUME NEW fs \in Seq(Frames), NEW i \in 0..Len(fs), NEW j \in 0..Len(fs), i < j
    PROVE  Units(SubSeq(fs, 1, i)) < Units(SubSeq(fs, 1, j))
<1> DEFINE u(n) == Units(SubSeq(fs, 1, n))
           T == {d \in Nat : \A n \in 0..Len(fs) :
                                 n + d + 1 <= Len(fs) => u(n) < u(n + d + 1)}
<1>1. \A n \in 0..Len(fs) - 1 : u(n) \in Nat /\ u(n + 1) \in Nat /\ u(n) < u(n + 1)
  BY PrefixGrows
<1>2. Len(fs) \in Nat
  OBVIOUS
<1> HIDE DEF u
<1>3. 0 \in T
  BY <1>1, <1>2
<1>4. ASSUME NEW d \in Nat, d \in T PROVE d + 1 \in T
  <2> SUFFICES ASSUME NEW n \in 0..Len(fs), n + (d + 1) + 1 <= Len(fs)
               PROVE  u(n) < u(n + (d + 1) + 1)
    OBVIOUS
  <2>1. u(n) < u(n + d + 1)
    BY <1>2, <1>4
  <2>2. PICK m \in 0..Len(fs) - 1 : m = n + d + 1
    BY <1>2
  <2>3. u(m) \in Nat /\ u(m + 1) \in Nat /\ u(m) < u(m + 1)
    BY <1>1
  <2>4. u(n) \in Nat
    BY <1>1, <1>2
  <2>5. m + 1 = n + (d + 1) + 1
    BY <2>2
  <2> QED
    BY <2>1, <2>2, <2>3, <2>4, <2>5
<1> HIDE DEF T
<1>5. Nat \subseteq T
  BY <1>3, <1>4, Induction
<1>6. PICK d \in Nat : d = j - i - 1
  BY <1>2
<1>7. j = i + d + 1
  BY <1>6
<1>8. d \in T
  BY <1>5
<1>9. u(i) < u(i + d + 1)
  BY <1>7, <1>8 DEF T
<1> QED
  BY <1>7, <1>9 DEF u

\* The frames of a sequence that is the beginning of another.
Begins(fs, gs) == Len(fs) <= Len(gs) /\ \A i \in 1..Len(fs) : fs[i] = gs[i]

LEMMA BeginsPrefix ==
    ASSUME NEW fs \in Seq(Frames), NEW gs \in Seq(Frames), Begins(fs, gs)
    PROVE  fs = SubSeq(gs, 1, Len(fs)) /\ IsPrefix(fs, gs)
<1>1. fs = SubSeq(gs, 1, Len(fs))
  BY DEF Begins
<1>2. fs = SubSeq(fs, 1, Len(fs))
  OBVIOUS
<1> QED
  BY <1>1, <1>2 DEF IsPrefix, Begins

\* Where the frames handled end, HeadersAt finds the next one sent and nothing else.
LEMMA NextHeader ==
    ASSUME sent \in Seq(Frames), NEW fs \in Seq(Frames), Begins(fs, sent),
           Units(fs) + HeaderLen <= Units(sent)
    PROVE  Len(fs) < Len(sent) /\ HeadersAt(Units(fs)) = {sent[Len(fs) + 1]}
<1> DEFINE starts == {k \in 1..Len(sent) : Units(SubSeq(sent, 1, k - 1)) = Units(fs)}
<1>1. fs = SubSeq(sent, 1, Len(fs))
  BY BeginsPrefix
<1>2. Len(fs) < Len(sent)
  <2> SUFFICES ASSUME Len(fs) = Len(sent) PROVE FALSE
    BY DEF Begins
  <2>1. fs = sent
    BY <1>1
  <2>2. Units(fs) \in Nat
    BY UnitsNatural
  <2> QED
    BY <2>1, <2>2, ReaderAssumption DEF ReaderAssumption
<1>3. PICK m \in 1..Len(sent) : m = Len(fs) + 1
  BY <1>2
<1>4. m \in starts
  <2>1. SubSeq(sent, 1, m - 1) = fs
    BY <1>1, <1>3
  <2> QED
    BY <2>1
<1>5. ASSUME NEW k \in starts PROVE k = m
  <2>1. k \in 1..Len(sent) /\ Units(SubSeq(sent, 1, k - 1)) = Units(SubSeq(sent, 1, m - 1))
    BY <1>4
  <2>2. k - 1 \in 0..Len(sent) /\ m - 1 \in 0..Len(sent)
    BY <2>1
  <2>3. Units(SubSeq(sent, 1, k - 1)) \in Nat
    BY <2>2, UnitsNatural
  <2>4. ~(k - 1 < m - 1) /\ ~(m - 1 < k - 1)
    BY <2>1, <2>2, <2>3, PrefixOrder
  <2> QED
    BY <2>1, <2>4
<1>6. starts = {m}
  BY <1>4, <1>5
<1>7. HeadersAt(Units(fs)) = {sent[k] : k \in starts}
  BY <1>6 DEF HeadersAt
<1> HIDE DEF starts
<1> QED
  BY <1>2, <1>3, <1>6, <1>7

\* Until a frame is torn: the frames handled are the first ones sent, and as many
\* units are consumed as they are, and the header of the next one if it is parsed.
InStep ==
    ~torn =>
        /\ Begins(handled, sent)
        /\ header = NoFrame => consumed = Units(handled)
        /\ header # NoFrame =>
              /\ Len(handled) < Len(sent) /\ header = sent[Len(handled) + 1]
              /\ consumed = Units(handled) + HeaderLen

StepInv == received <= Units(sent) /\ InStep

\* A frame that is sent comes behind the others.
LEMMA SendInStep == ASSUME TypeOK, StepInv, Send PROVE StepInv'
<1>1. PICK f \in Frames : sent' = Append(sent, f)
  BY DEF Send
<1>2. UNCHANGED <<received, consumed, header, handled, torn>>
  BY DEF Send, readVars
<1>3. sent \in Seq(Frames) /\ handled \in Seq(Frames) /\ received \in Nat
  BY DEF TypeOK
<1>4. /\ Len(sent') = Len(sent) + 1 /\ Len(sent) \in Nat /\ Len(handled) \in Nat
      /\ \A i \in 1..Len(sent) : sent'[i] = sent[i]
  BY <1>1, <1>3
<1>5. received <= Units(sent')
  <2>1. /\ Units(sent) \in Nat /\ f.length \in Nat
        /\ Units(sent') = Units(sent) + HeaderLen + f.length
    BY <1>1, <1>3, UnitsAppend
  <2>2. HeaderLen \in Nat /\ received <= Units(sent)
    BY ReaderAssumption DEF ReaderAssumption, StepInv
  <2> QED
    BY <1>3, <2>1, <2>2
<1>6. Begins(handled, sent) => Begins(handled, sent')
  BY <1>4 DEF Begins
<1>7. Len(handled) < Len(sent) =>
          Len(handled) < Len(sent') /\ sent'[Len(handled) + 1] = sent[Len(handled) + 1]
  BY <1>4
<1>8. Units(sent)' = Units(sent') /\ Units(handled)' = Units(handled)
  BY <1>2 DEF Units
<1> QED
  BY <1>2, <1>5, <1>6, <1>7, <1>8 DEF StepInv, InStep, Begins

\* The header that is parsed is the next one's.
LEMMA ParseInStep == ASSUME TypeOK, StepInv, ParseHeader PROVE StepInv'
<1>1. /\ UNCHANGED <<sent, torn, received, handled>> /\ header = NoFrame
      /\ HeaderLen <= received - consumed
      /\ header' \in HeadersAt(consumed) /\ consumed' = consumed + HeaderLen
  BY DEF ParseHeader, Buffered
<1>2. sent \in Seq(Frames) /\ handled \in Seq(Frames) /\ received \in Nat /\ consumed \in Nat
  BY DEF TypeOK
<1>3. SUFFICES ASSUME ~torn PROVE InStep'
  BY <1>1 DEF StepInv, InStep, Units
<1>4. Begins(handled, sent) /\ consumed = Units(handled) /\ received <= Units(sent)
  BY <1>1, <1>3 DEF StepInv, InStep
<1>5. Units(handled) + HeaderLen <= Units(sent)
  <2>1. Units(sent) \in Nat /\ HeaderLen \in Nat
    BY <1>2, UnitsNatural, ReaderAssumption DEF ReaderAssumption
  <2> QED
    BY <1>1, <1>2, <1>4, <2>1
<1>6. Len(handled) < Len(sent) /\ HeadersAt(Units(handled)) = {sent[Len(handled) + 1]}
  BY <1>2, <1>4, <1>5, NextHeader
<1>7. header' = sent[Len(handled) + 1]
  BY <1>1, <1>4, <1>6
<1>8. header' # NoFrame
  BY <1>2, <1>6, <1>7, ReaderAssumption DEF ReaderAssumption
<1>9. Units(handled)' = Units(handled) /\ Begins(handled, sent)'
  BY <1>1, <1>4 DEF Units, Begins
<1> QED
  BY <1>1, <1>4, <1>6, <1>7, <1>8, <1>9 DEF InStep

\* The frame that is taken is the next one, as a whole.
LEMMA TakeInStep == ASSUME TypeOK, StepInv, TakeFrame PROVE StepInv'
<1>1. /\ UNCHANGED <<sent, torn, received>> /\ header # NoFrame /\ header' = NoFrame
      /\ handled' = Append(handled, header) /\ consumed' = consumed + header.length
  BY DEF TakeFrame, TakePayload, PayloadRead
<1>2. sent \in Seq(Frames) /\ handled \in Seq(Frames) /\ header \in Frames
  BY <1>1 DEF TypeOK
<1>3. SUFFICES ASSUME ~torn PROVE InStep'
  BY <1>1 DEF StepInv, InStep, Units
<1>4. /\ Begins(handled, sent) /\ Len(handled) < Len(sent)
      /\ header = sent[Len(handled) + 1] /\ consumed = Units(handled) + HeaderLen
  BY <1>1, <1>3 DEF StepInv, InStep
<1>5. Units(handled') = Units(handled) + HeaderLen + header.length
  BY <1>1, <1>2, UnitsAppend
<1>6. Begins(handled', sent)
  <2>1. /\ Len(handled') = Len(handled) + 1 /\ handled'[Len(handled) + 1] = header
        /\ \A i \in 1..Len(handled) : handled'[i] = handled[i]
        /\ Len(handled) \in Nat /\ Len(sent) \in Nat
    BY <1>1, <1>2
  <2> QED
    BY <1>4, <2>1 DEF Begins
<1>7. Units(handled)' = Units(handled') /\ Begins(handled, sent)' = Begins(handled', sent)
  BY <1>1 DEF Units, Begins
<1>8. consumed' = Units(handled')
  BY <1>1, <1>4, <1>5
<1> QED
  BY <1>1, <1>6, <1>7, <1>8 DEF InStep

\* Dropping a read tears a frame, or leaves nothing behind.
LEMMA DropInStep == ASSUME StepInv, DropRead, UNCHANGED sent PROVE StepInv'
BY DEF DropRead, StepInv, InStep, Units, Begins

\* A step that neither sends nor reads.
LEMMA StepUntouched ==
    ASSUME StepInv, UNCHANGED <<sent, consumed, header, handled, torn>>,
           received' = received \/ received' <= Units(sent)
    PROVE  StepInv'
BY DEF StepInv, InStep, Units, Begins

\* Every step keeps reader and peer in step.
LEMMA StepStep == ASSUME TypeOK, StepInv, [Next]_vars PROVE StepInv'
<1>1. CASE UNCHANGED vars
  BY <1>1, StepUntouched DEF vars, readVars
<1>2. CASE Peer \/ Tasks
  BY <1>2, SendInStep, StepUntouched DEF Peer, PassTime, WriteEnds, Tasks, TaskExits, readVars
<1>3. CASE Reader
  <2>1. CASE ReadFromReader
    BY <2>1, StepUntouched DEF ReadFromReader
  <2>2. CASE ReadFails \/ FrameBufferFull \/ RefuseFrame
    BY <2>2, StepUntouched DEF ReadFails, FrameBufferFull, RefuseFrame, Leave, readVars
  <2> QED
    BY <1>3, <2>1, <2>2, ParseInStep DEF Reader
<1>4. CASE Handle
  BY <1>4, HandleTakes, TakeInStep
<1>5. CASE OtherBranches
  BY <1>5, DropInStep
     DEF OtherBranches, NoticeShutdown, CheckTimeouts, Requests, WriteBranch, DistributeFails,
         StreamFails, StreamClosing, StreamClosed, Branch
<1> QED
  BY <1>1, <1>2, <1>3, <1>4, <1>5 DEF Next

\* The peer and the reader begin together.
LEMMA InitInStep == Init => StepInv
<1> SUFFICES ASSUME Init PROVE StepInv
  OBVIOUS
<1>1. Units(sent) = 0 /\ Units(handled) = 0
  BY UnitsNone DEF Init
<1>2. Begins(handled, sent)
  BY DEF Init, Begins
<1> QED
  BY <1>1, <1>2 DEF Init, StepInv, InStep

\* However the stream is cut into reads and whatever comes in between: until a frame
\* is torn, the frames handled are the frames sent, in order and each once.
THEOREM FramesInOrder == Spec => []FramesInStep
<1>1. Init => TypeOK /\ StepInv
  BY InitType, InitInStep
<1>2. TypeOK /\ StepInv /\ [Next]_vars => (TypeOK /\ StepInv)'
  BY TypeStep, StepStep
<1>3. TypeOK /\ StepInv => FramesInStep
  <2> SUFFICES ASSUME TypeOK, StepInv, ~torn
               PROVE  /\ IsPrefix(handled, sent)
                      /\ header # NoFrame => IsPrefix(Append(handled, header), sent)
    BY DEF FramesInStep
  <2>1. sent \in Seq(Frames) /\ handled \in Seq(Frames) /\ Begins(handled, sent)
    BY DEF TypeOK, StepInv, InStep
  <2>2. ASSUME header # NoFrame PROVE IsPrefix(Append(handled, header), sent)
    <3>1. header \in Frames /\ Len(handled) < Len(sent) /\ header = sent[Len(handled) + 1]
      BY <2>2 DEF TypeOK, StepInv, InStep
    <3>2. Append(handled, header) \in Seq(Frames) /\ Begins(Append(handled, header), sent)
      BY <2>1, <3>1 DEF Begins
    <3> QED
      BY <2>1, <3>2, BeginsPrefix
  <2> QED
    BY <2>1, <2>2, BeginsPrefix
<1> QED
  BY <1>1, <1>2, <1>3, PTL DEF Spec

-----------------------------------------------------------------------------
(* A peer that plays by the rules.  As long as nothing is torn, the frame  *)
(* at hand is the next one it has sent, so that the rules for it speak of  *)
(* the frames handled before.  What main_loop knows of these is in its     *)
(* handles: a stream that was opened is there unless the server has        *)
(* refused or closed it, and the biggest number is one that was opened.    *)

Peaceful == ~torn /\ \A n \in DOMAIN sent : Lawful(sent, n)

Justified ==
    /\ exit \notin {"full", "flow control"}
    /\ exit = "refused frame" =>
          \/ LastRead.type \in {"UNKNOWN", "CONTINUATION"}
          \/ LastRead.type = "SETTINGS" /\ LastRead.content = "unusual"
    /\ exit = "protocol" =>
          \/ LastRead.type = "HEADERS" /\ FragmentLength(LastRead) > HeaderBufSize
          \/ LastRead.type \in {"HEADERS", "DATA"} /\ LastRead.stream \in dropped
    /\ exit = "stream gone" => gone # {}
    /\ exit = "stream failed" => \E i \in DOMAIN handled : handled[i].type = "DATA"

\* Streams that were opened.
Heard ==
    \A i \in DOMAIN handled :
        handled[i].type = "HEADERS" =>
            \/ handled[i].stream \in streams \union dropped
            \/ handled[i].stream = continuing /\ continuing # 0

Biggest ==
    \/ biggest_open_stream = 0
    \/ \E i \in DOMAIN handled :
           handled[i].type = "HEADERS" /\ handled[i].stream = biggest_open_stream

\* The loop for CONTINUATION is entered behind a frame that asks for one.
Waiting == continuing # 0 => handled # << >> /\ Unfinished(handled[Len(handled)])

StreamsInv == Running => Heard /\ Biggest /\ Waiting

\* No CONTINUATION is ever taken: its header is refused unless its stream is 0, and
\* that is not the stream that is waited for.
LEMMA ContinuationEnds == ASSUME RecvContinuation PROVE exit' = "protocol"
BY DEF RecvContinuation, Refused

\* Streams that are left alone, or given up, or closed, are still known.
LEMMA StreamErrorKnown ==
    ASSUME NEW id, StreamError(id)
    PROVE  streams \union dropped \subseteq streams' \union dropped' /\ id \in streams' \union dropped'
BY DEF StreamError

LEMMA OpenStreamKnown ==
    ASSUME NEW id, OpenStream(id)
    PROVE  streams \union dropped \subseteq streams' \union dropped' /\ id \in streams'
BY DEF OpenStream

\* A step that handles nothing and opens nothing.
LEMMA StreamsUntouched ==
    ASSUME StreamsInv, Running, UNCHANGED <<handled, continuing, biggest_open_stream>>,
           streams \union dropped \subseteq streams' \union dropped'
    PROVE  StreamsInv'
BY DEF StreamsInv, Heard, Biggest, Waiting, Unfinished

\* What the frames handled are after one more.
LEMMA TakeFrameLast ==
    ASSUME TypeOK, TakeFrame
    PROVE  /\ handled' # << >> /\ handled'[Len(handled')] = header
           /\ DOMAIN handled \subseteq DOMAIN handled' /\ Len(handled') \in DOMAIN handled'
           /\ \A i \in DOMAIN handled : handled'[i] = handled[i]
           /\ \A i \in DOMAIN handled' : i \in DOMAIN handled \/ i = Len(handled')
<1>1. handled \in Seq(Frames) /\ handled' = Append(handled, header)
  BY DEF TypeOK, TakeFrame
<1>2. /\ Len(handled) \in Nat /\ Len(handled') = Len(handled) + 1
      /\ DOMAIN handled = 1..Len(handled) /\ DOMAIN handled' = 1..Len(handled) + 1
      /\ handled'[Len(handled) + 1] = header
      /\ \A i \in 1..Len(handled) : handled'[i] = handled[i]
  BY <1>1
<1>3. handled' # << >>
  BY <1>2
<1> QED
  BY <1>2, <1>3

\* A frame that is not HEADERS, handled in select!.
LEMMA StreamsOther ==
    ASSUME TypeOK, StreamsInv, Running, TakeFrame, header.type # "HEADERS", continuing = 0,
           UNCHANGED <<continuing, biggest_open_stream>>,
           streams \union dropped \subseteq streams' \union dropped'
    PROVE  StreamsInv'
<1>1. Heard /\ Biggest
  BY DEF StreamsInv
<1>2. Heard'
  BY <1>1, TakeFrameLast DEF Heard
<1>3. Biggest'
  BY <1>1, TakeFrameLast DEF Biggest
<1>4. Waiting'
  BY DEF Waiting
<1> QED
  BY <1>2, <1>3, <1>4 DEF StreamsInv

\* HEADERS: its stream is opened, refused or waited for, unless the connection ends.
LEMMA StreamsHeaders == ASSUME TypeOK, StreamsInv, Running, RecvHeaders PROVE StreamsInv'
<1> SUFFICES ASSUME Running' PROVE Heard' /\ Biggest' /\ Waiting'
  BY DEF StreamsInv
<1>1. /\ TakeFrame /\ header \in Frames /\ header.type = "HEADERS" /\ continuing = 0
      /\ RecvFragment(header) /\ header.stream # 0
  <2>1. exit' # "protocol"
    BY DEF Running
  <2>2. TakeFrame /\ header.type = "HEADERS" /\ continuing = 0
    BY DEF RecvHeaders, Recv
  <2> QED
    BY <2>1, <2>2, FragmentComes
<1>2. Heard /\ Biggest
  BY DEF StreamsInv
<1>3. CASE /\ "END_HEADERS" \notin header.flags /\ continuing' = header.stream
           /\ UNCHANGED <<handleVars, countVars>>
  <2>1. UNCHANGED <<streams, dropped, biggest_open_stream>>
    BY <1>3 DEF handleVars, countVars
  <2>2. Heard'
    <3>1. ASSUME NEW i \in DOMAIN handled', handled'[i].type = "HEADERS"
          PROVE  \/ handled'[i].stream \in streams' \union dropped'
                 \/ handled'[i].stream = continuing' /\ continuing' # 0
      <4>1. CASE i = Len(handled')
        BY <1>1, <1>3, <4>1, TakeFrameLast
      <4>2. CASE i \in DOMAIN handled
        <5>1. handled[i].stream \in streams \union dropped
          BY <1>1, <1>2, <3>1, <4>2, TakeFrameLast DEF Heard
        <5> QED
          BY <1>1, <2>1, <3>1, <4>2, <5>1, TakeFrameLast
      <4> QED
        BY <1>1, <3>1, <4>1, <4>2, TakeFrameLast
    <3> QED
      BY <3>1 DEF Heard
  <2>3. Biggest'
    BY <1>1, <1>2, <2>1, TakeFrameLast DEF Biggest
  <2>4. Waiting'
    BY <1>1, <1>3, TakeFrameLast DEF Waiting, Unfinished
  <2> QED
    BY <2>2, <2>3, <2>4
<1>4. CASE /\ continuing' = 0
           /\ OpenStream(header.stream) \/ (StreamError(header.stream) /\ UNCHANGED countVars)
  <2>1. /\ streams \union dropped \subseteq streams' \union dropped'
        /\ header.stream \in streams' \union dropped'
    BY <1>4, StreamErrorKnown, OpenStreamKnown
  <2>2. biggest_open_stream' \in {biggest_open_stream, header.stream}
    BY <1>4 DEF OpenStream, countVars
  <2>3. Heard'
    BY <1>1, <1>2, <1>4, <2>1, TakeFrameLast DEF Heard
  <2>4. Biggest'
    BY <1>1, <1>2, <2>2, TakeFrameLast DEF Biggest
  <2> QED
    BY <1>4, <2>3, <2>4 DEF Waiting
<1> QED
  BY <1>1, <1>3, <1>4, FragmentSplit

\* Every step keeps what main_loop knows of the streams.
LEMMA StreamsStep == ASSUME TypeOK, StreamsInv, [Next]_vars PROVE StreamsInv'
<1>1. CASE UNCHANGED vars
  BY <1>1 DEF vars, readVars, loopVars, blockVars, handleVars, countVars, StreamsInv, Heard,
              Biggest, Waiting, Unfinished, Running
<1>2. CASE Next
  <2>1. Running
    BY <1>2, EndedStep
  <2>2. CASE Peer \/ Tasks \/ Reader
    <3>1. UNCHANGED <<handled, continuing, biggest_open_stream, streams, dropped>>
      BY <2>2, BlocksKept
         DEF Peer, Send, PassTime, WriteEnds, Tasks, TaskExits, Reader, ReadFromReader,
             ReadFails, FrameBufferFull, ParseHeader, RefuseFrame, Leave, readVars, blockVars,
             loopVars, handleVars, countVars
    <3> QED
      BY <2>1, <3>1, StreamsUntouched
  <2>3. CASE RecvHeaders
    BY <2>1, <2>3, StreamsHeaders
  <2>4. CASE RecvContinuation
    BY <2>4, ContinuationEnds DEF StreamsInv, Running
  <2>5. CASE Panic \/ RecvGoAway \/ RecvUnexpected
    BY <2>5 DEF Panic, RecvGoAway, RecvUnexpected, StreamsInv, Running
  <2>6. CASE RecvData \/ RecvSettings \/ RecvPing \/ RecvIgnored \/ RecvWindowUpdate
    <3>1. TakeFrame /\ continuing = 0 /\ header.type # "HEADERS"
      BY <2>6 DEF RecvData, RecvSettings, RecvPing, RecvIgnored, RecvWindowUpdate, Recv
    <3>2. UNCHANGED <<continuing, biggest_open_stream>>
      BY <2>6, BlocksKept DEF blockVars, RecvData, RecvSettings, RecvPing, RecvIgnored,
                              RecvWindowUpdate, loopVars, countVars
    <3>3. streams \union dropped \subseteq streams' \union dropped'
      BY <2>6, StreamErrorKnown DEF RecvData, RecvSettings, RecvPing, RecvIgnored,
                                    RecvWindowUpdate, loopVars, handleVars
    <3> QED
      BY <2>1, <3>1, <3>2, <3>3, StreamsOther
  <2>7. CASE OtherBranches
    <3>1. UNCHANGED <<handled, continuing, biggest_open_stream>>
      BY <2>7, BlocksKept
         DEF OtherBranches, NoticeShutdown, CheckTimeouts, Requests, WriteBranch,
             DistributeFails, StreamFails, StreamClosing, StreamClosed, Branch, DropRead,
             blockVars, loopVars, countVars
    <3>2. streams \union dropped \subseteq streams' \union dropped'
      <4>1. CASE NoticeShutdown \/ CheckTimeouts \/ WriteBranch \/ DistributeFails \/ StreamFails
        BY <4>1 DEF NoticeShutdown, CheckTimeouts, WriteBranch, DistributeFails, StreamFails,
                    loopVars, handleVars
      <4>2. ASSUME NEW id \in Ids, StreamClosing(id) \/ StreamClosed(id)
            PROVE  streams \union dropped \subseteq streams' \union dropped'
        BY <4>2, StreamErrorKnown DEF StreamClosing, StreamClosed, handleVars
      <4> QED
        BY <2>7, <4>1, <4>2 DEF OtherBranches, Requests
    <3> QED
      BY <2>1, <3>1, <3>2, StreamsUntouched
  <2> QED
    BY <1>2, <2>2, <2>3, <2>4, <2>5, <2>6, <2>7 DEF Next, Handle
<1> QED
  BY <1>1, <1>2

\* The rules for a frame speak of those before it alone.
LEMMA LawfulBegins ==
    ASSUME NEW fs \in Seq(Frames), NEW gs \in Seq(Frames), Begins(fs, gs),
           NEW n \in 1..Len(fs), Lawful(gs, n)
    PROVE  Lawful(fs, n)
<1>1. \A i \in 1..n : fs[i] = gs[i]
  BY DEF Begins
<1>2. \A i \in 1..n - 1 : fs[i] = gs[i]
  BY <1>1
<1>3. \A id : Opened(fs, n, id) <=> Opened(gs, n, id)
  BY <1>2 DEF Opened
<1>4. n > 1 => fs[n - 1] = gs[n - 1]
  BY <1>1
<1>5. fs[n] = gs[n]
  BY <1>1
<1> QED
  BY <1>2, <1>3, <1>4, <1>5 DEF Lawful

\* A peer that plays by the rules after a step did so before.
LEMMA PeacefulBefore == ASSUME TypeOK, [Next]_vars, Peaceful' PROVE Peaceful
<1>1. ~torn
  BY DEF Peaceful, vars, Next, Peer, Send, PassTime, WriteEnds, Tasks, TaskExits, Reader,
         ReadFromReader, ReadFails, FrameBufferFull, ParseHeader, RefuseFrame, Leave, Handle,
         RecvHeaders, Panic, RecvContinuation, RecvData, RecvSettings, RecvPing,
         RecvWindowUpdate, RecvGoAway, RecvUnexpected, RecvIgnored, Recv, TakeFrame,
         OtherBranches, NoticeShutdown, CheckTimeouts, Requests, WriteBranch, DistributeFails,
         StreamFails, StreamClosing, StreamClosed, Branch, DropRead
<1>2. sent' = sent \/ \E f \in Frames : sent' = Append(sent, f)
  <2>1. CASE UNCHANGED vars \/ Peer \/ Tasks \/ Reader
    BY <2>1 DEF vars, Peer, Send, PassTime, WriteEnds, Tasks, TaskExits, Reader,
                ReadFromReader, ReadFails, FrameBufferFull, ParseHeader, RefuseFrame, Leave
  <2>2. CASE Handle
    BY <2>2, HandleTakes DEF TakeFrame
  <2>3. CASE OtherBranches
    BY <2>3 DEF OtherBranches, NoticeShutdown, CheckTimeouts, Requests, WriteBranch,
                DistributeFails, StreamFails, StreamClosing, StreamClosed, Branch
  <2> QED
    BY <2>1, <2>2, <2>3 DEF Next
<1>3. sent \in Seq(Frames) /\ sent' \in Seq(Frames) /\ Begins(sent, sent')
  <2>1. sent \in Seq(Frames)
    BY DEF TypeOK
  <2>2. ASSUME NEW f \in Frames, sent' = Append(sent, f)
        PROVE  sent' \in Seq(Frames) /\ Begins(sent, sent')
    <3>1. /\ sent' \in Seq(Frames) /\ Len(sent') = Len(sent) + 1 /\ Len(sent) \in Nat
          /\ \A i \in 1..Len(sent) : sent'[i] = sent[i]
      BY <2>1, <2>2
    <3> QED
      BY <3>1 DEF Begins
  <2>3. Begins(sent, sent)
    BY <2>1 DEF Begins
  <2> QED
    BY <1>2, <2>1, <2>2, <2>3
<1>4. DOMAIN sent = 1..Len(sent) /\ DOMAIN sent \subseteq DOMAIN sent'
  BY <1>3 DEF Begins
<1>5. \A n \in DOMAIN sent' : Lawful(sent', n)
  BY DEF Peaceful, Lawful, Opened
<1>6. ASSUME NEW n \in DOMAIN sent PROVE Lawful(sent, n)
  <2>1. n \in 1..Len(sent) /\ Lawful(sent', n)
    BY <1>4, <1>5
  <2> QED
    BY <1>3, <2>1, LawfulBegins
<1> QED
  BY <1>1, <1>6 DEF Peaceful

\* What the rules say of the frame at hand, in terms of those handled.
LEMMA NextLawful ==
    ASSUME TypeOK, StepInv, Peaceful, header # NoFrame
    PROVE  /\ LawfulFrame(header) /\ header \in Frames
           /\ header.type \in {"DATA", "HEADERS"} =>
                 \/ \E i \in DOMAIN handled :
                        handled[i].type = "HEADERS" /\ handled[i].stream = header.stream
                 \/ /\ header.type = "HEADERS"
                    /\ \A i \in DOMAIN handled :
                           handled[i].type = "HEADERS" => handled[i].stream < header.stream
           /\ header.type = "CONTINUATION" <=>
                 handled # << >> /\ Unfinished(handled[Len(handled)])
<1> DEFINE n == Len(handled) + 1
<1>1. /\ sent \in Seq(Frames) /\ handled \in Seq(Frames) /\ Len(handled) \in Nat
      /\ DOMAIN handled = 1..Len(handled)
  BY DEF TypeOK
<1>2. Begins(handled, sent) /\ Len(handled) < Len(sent) /\ header = sent[n]
  BY DEF StepInv, InStep, Peaceful
<1>3. /\ n \in DOMAIN sent /\ n - 1 = Len(handled) /\ 1..n - 1 = DOMAIN handled
      /\ (n > 1 <=> handled # << >>)
  <2>1. n > 1 <=> handled # << >>
    BY <1>1
  <2> QED
    BY <1>1, <1>2, <2>1
<1>4. Lawful(sent, n) /\ header \in Frames
  BY <1>1, <1>2, <1>3 DEF Peaceful
<1>5. \A i \in DOMAIN handled : sent[i] = handled[i]
  BY <1>1, <1>2 DEF Begins
<1> HIDE DEF n
<1>6. Opened(sent, n, header.stream) <=>
          \E i \in DOMAIN handled :
              handled[i].type = "HEADERS" /\ handled[i].stream = header.stream
  BY <1>3, <1>5 DEF Opened
<1>7. header.type = "CONTINUATION" <=> handled # << >> /\ Unfinished(handled[Len(handled)])
  <2>1. handled # << >> => sent[n - 1] = handled[Len(handled)]
    BY <1>1, <1>3, <1>5
  <2> QED
    BY <1>2, <1>3, <1>4, <2>1 DEF Lawful
<1> QED
  BY <1>2, <1>3, <1>4, <1>5, <1>6, <1>7 DEF Lawful

\* None of the frames handled is forbidden in itself.
LEMMA HandledLawful ==
    ASSUME TypeOK, StepInv, Peaceful
    PROVE  ~Misused({"WINDOW_UPDATE"}) /\ ~Misused({"WINDOW_UPDATE", "SETTINGS"})
<1>1. Begins(handled, sent) /\ sent \in Seq(Frames) /\ handled \in Seq(Frames)
  BY DEF TypeOK, StepInv, InStep, Peaceful
<1>2. ASSUME NEW i \in DOMAIN handled PROVE handled[i].content # "bad"
  <2>1. i \in DOMAIN sent /\ handled[i] = sent[i]
    BY <1>1 DEF Begins
  <2> QED
    BY <2>1 DEF Peaceful, Lawful, LawfulFrame
<1> QED
  BY <1>2 DEF Misused

\* The frame read last is the one that has just been handled,
LEMMA LastHandled == ASSUME TypeOK, TakeFrame PROVE LastRead' = header
BY TakeFrameLast DEF LastRead, TakeFrame, TakePayload, Last

\* or with the one whose header has been parsed.
LEMMA LastParsed == ASSUME header # NoFrame, UNCHANGED header PROVE LastRead' = header
BY DEF LastRead

\* A frame whose header is refused, or that does not fit, is one of those named.
LEMMA RefusedJustified ==
    ASSUME TypeOK, StepInv, Peaceful, RefuseFrame PROVE Justified'
<1>1. header # NoFrame /\ Refused(header) /\ exit' = "refused frame" /\ UNCHANGED header
  BY DEF RefuseFrame, PayloadRead, Leave, readVars
<1>2. LawfulFrame(header)
  BY <1>1, NextLawful
<1>3. header.type \in {"UNKNOWN", "CONTINUATION"}
  BY <1>1, <1>2 DEF Refused, LawfulFrame
<1> QED
  BY <1>1, <1>3, LastParsed DEF Justified

\* The buffer has room for a frame of a lawful length.
LEMMA FullJustified ==
    ASSUME TypeOK, StepInv, Peaceful, FrameBufferFull PROVE FALSE
<1>1. header # NoFrame /\ ~(header.length <= Buffered) /\ Buffered = MaxFrameSize
  BY DEF FrameBufferFull, PayloadRead
<1>2. header.length <= MaxFrameSize
  BY <1>1, NextLawful DEF LawfulFrame
<1> QED
  BY <1>1, <1>2

\* HEADERS are refused for their size, or for a stream that was given up before.
LEMMA HeadersJustified ==
    ASSUME TypeOK, StepInv, BlockInv, StreamsInv, Peaceful, RecvHeaders PROVE Justified'
<1>1. /\ TakeFrame /\ Running /\ header # NoFrame /\ continuing = 0 /\ header.type = "HEADERS"
      /\ header_buffer = << >>
  BY DEF RecvHeaders, Recv, TakeFrame, PayloadRead, Ready, BlockInv, BufferInv
<1>2. /\ LawfulFrame(header) /\ header \in Frames
      /\ \/ \E i \in DOMAIN handled :
                handled[i].type = "HEADERS" /\ handled[i].stream = header.stream
         \/ \A i \in DOMAIN handled :
                handled[i].type = "HEADERS" => handled[i].stream < header.stream
  BY <1>1, NextLawful
<1>3. LastRead' = header
  BY <1>1, LastHandled
<1>4. header.stream \in Nat /\ header.stream % 2 = 1
  BY <1>1, <1>2, FrameFields DEF LawfulFrame
<1>5. CASE Misnumbered(header)
  <2>1. exit' = "protocol" /\ UNCHANGED handleVars
    BY <1>5 DEF RecvHeaders
  <2>2. header.stream \notin streams /\ biggest_open_stream >= header.stream
    BY <1>4, <1>5 DEF Misnumbered
  <2>3. Heard /\ Biggest
    BY <1>1 DEF StreamsInv
  <2>4. CASE \E i \in DOMAIN handled :
                 handled[i].type = "HEADERS" /\ handled[i].stream = header.stream
    <3>1. header.stream \in dropped
      BY <1>1, <2>2, <2>3, <2>4 DEF Heard
    <3> QED
      BY <1>1, <1>3, <2>1, <3>1 DEF Justified, handleVars
  <2>5. CASE \A i \in DOMAIN handled :
                 handled[i].type = "HEADERS" => handled[i].stream < header.stream
    <3>1. handled \in Seq(Frames)
      BY DEF TypeOK
    <3>2. \A i \in DOMAIN handled : handled[i].stream \in Nat
      BY <3>1, FrameFields
    <3>3. biggest_open_stream = 0 \/ biggest_open_stream < header.stream
      BY <2>3, <2>5 DEF Biggest
    <3>4. header.stream # 0
      BY <1>4
    <3>5. biggest_open_stream \in Nat
      BY DEF TypeOK
    <3> QED
      BY <1>4, <2>2, <3>3, <3>4, <3>5
  <2> QED
    BY <1>2, <2>4, <2>5
<1>6. CASE ~Misnumbered(header)
  <2>1. RecvFragment(header)
    BY <1>6 DEF RecvHeaders
  <2>2. ASSUME ~Fits(header) PROVE FragmentLength(header) > HeaderBufSize
    <3>1. [i \in 1..Len(<< >>) |-> FragmentLength(<< >>[i].of)] = << >>
      OBVIOUS
    <3>2. FragmentUnits(header_buffer) = 0
      BY <1>1, <3>1, TotalDefined DEF FragmentUnits
    <3>3. FragmentLength(header) \in Int /\ HeaderBufSize \in Nat
      BY <1>2, FrameFields, ReaderAssumption DEF FragmentLength, ReaderAssumption
    <3> QED
      BY <2>2, <3>2, <3>3 DEF Fits
  <2>3. \/ UNCHANGED exit
        \/ exit' = "protocol" /\ ~Fits(header)
        \/ exit' = "compression"
    BY <1>1, <1>2, <2>1, FragmentSplit DEF DecodingFails
  <2> QED
    BY <1>1, <1>3, <2>2, <2>3 DEF Justified, Running
<1> QED
  BY <1>5, <1>6

\* Behind HEADERS without END_HEADERS a peer that plays by the rules sends
\* CONTINUATION, which is refused before it comes this far.
LEMMA ContinuationJustified ==
    ASSUME TypeOK, StepInv, StreamsInv, Peaceful, RecvContinuation \/ RecvUnexpected PROVE FALSE
<1>1. TakeFrame /\ Running /\ header # NoFrame /\ ~Refused(header)
  BY DEF RecvContinuation, RecvUnexpected, Recv, TakeFrame, PayloadRead, Ready
<1>2. LawfulFrame(header)
  BY <1>1, NextLawful
<1>3. header.type = "CONTINUATION"
  <2>1. CASE RecvUnexpected
    BY <2>1 DEF RecvUnexpected, Recv
  <2>2. CASE RecvContinuation
    <3>1. handled # << >> /\ Unfinished(handled[Len(handled)])
      BY <1>1, <2>2 DEF RecvContinuation, StreamsInv, Waiting
    <3> QED
      BY <1>1, <3>1, NextLawful
  <2> QED
    BY <2>1, <2>2
<1> QED
  BY <1>1, <1>2, <1>3 DEF Refused, LawfulFrame

\* The other frames.
LEMMA OthersJustified ==
    ASSUME TypeOK, StepInv, StreamsInv, Peaceful,
           \/ Panic \/ RecvData \/ RecvSettings \/ RecvPing \/ RecvWindowUpdate \/ RecvGoAway
           \/ RecvIgnored
    PROVE  Justified'
<1>1. /\ TakeFrame /\ Running /\ exit = "running" /\ header # NoFrame /\ continuing = 0
  BY DEF Panic, RecvData, RecvSettings, RecvPing, RecvWindowUpdate, RecvGoAway, RecvIgnored,
         Recv, TakeFrame, PayloadRead, Ready, Running
<1>2. LawfulFrame(header) /\ header \in Frames /\ LastRead' = header
  BY <1>1, NextLawful, LastHandled
<1>3. CASE RecvData
  <2>1. header.type = "DATA" /\ UNCHANGED <<gone, dropped, streams>>
    BY <1>3 DEF RecvData, Recv, loopVars, handleVars
  <2>2. ASSUME header.stream \notin streams PROVE header.stream \in dropped
    <3>1. \E i \in DOMAIN handled :
              handled[i].type = "HEADERS" /\ handled[i].stream = header.stream
      BY <1>1, <2>1, NextLawful
    <3> QED
      BY <1>1, <2>2, <3>1 DEF StreamsInv, Heard
  <2>3. header.content # "bad"
    BY <1>2 DEF LawfulFrame
  <2> QED
    BY <1>1, <1>2, <1>3, <2>1, <2>2, <2>3 DEF RecvData, Justified
<1>4. CASE RecvSettings
  <2>1. header.type = "SETTINGS" /\ UNCHANGED gone
    BY <1>4 DEF RecvSettings, Recv, loopVars, handleVars
  <2>2. header.content # "good" => header.content = "unusual"
    BY <1>2, FrameFields DEF LawfulFrame
  <2> QED
    BY <1>1, <1>2, <1>4, <2>1, <2>2 DEF RecvSettings, Justified
<1>5. CASE RecvPing
  <2>1. header.content # "bad"
    BY <1>2 DEF LawfulFrame
  <2> QED
    BY <1>1, <1>5, <2>1 DEF RecvPing, Justified
<1>6. CASE RecvWindowUpdate
  <2>1. header.content # "bad"
    BY <1>2 DEF LawfulFrame
  <2> QED
    BY <1>1, <1>6, <2>1 DEF RecvWindowUpdate, Justified
<1>7. CASE Panic \/ RecvGoAway \/ RecvIgnored
  BY <1>1, <1>7 DEF Panic, RecvGoAway, RecvIgnored, Justified
<1> QED
  BY <1>3, <1>4, <1>5, <1>6, <1>7

\* The other branches.
LEMMA BranchesJustified ==
    ASSUME TypeOK, StepInv, Peaceful, OtherBranches PROVE Justified'
<1>1. exit = "running"
  BY DEF OtherBranches, NoticeShutdown, CheckTimeouts, Requests, WriteBranch, DistributeFails,
         StreamFails, StreamClosing, StreamClosed, Branch, Ready, Running
<1>2. CASE NoticeShutdown \/ CheckTimeouts
  BY <1>1, <1>2 DEF NoticeShutdown, CheckTimeouts, Justified
<1>3. CASE WriteBranch
  BY <1>1, <1>3 DEF WriteBranch, Justified
<1>4. CASE DistributeFails
  <2>1. gone # {} /\ exit' = "stream gone" /\ UNCHANGED gone
    BY <1>4, HandledLawful DEF DistributeFails, loopVars, handleVars
  <2> QED
    BY <2>1 DEF Justified
<1>5. CASE StreamFails
  <2>1. /\ \E i \in DOMAIN handled : handled[i].type = "DATA"
        /\ exit' = "stream failed" /\ UNCHANGED handled
    BY <1>5, HandledLawful DEF StreamFails, Branch, DropRead
  <2> QED
    BY <2>1 DEF Justified
<1>6. ASSUME NEW id \in Ids, StreamClosing(id) \/ StreamClosed(id) PROVE Justified'
  BY <1>1, <1>6 DEF StreamClosing, StreamClosed, Justified
<1> QED
  BY <1>2, <1>3, <1>4, <1>5, <1>6 DEF OtherBranches, Requests

\* Every step of a connection whose peer plays by the rules leaves it running, or
\* has one of the named reasons.
LEMMA JustifiedStep ==
    ASSUME TypeOK, StepInv, BlockInv, StreamsInv, Peaceful, Next PROVE Justified'
<1>1. exit = "running"
  BY EndedStep DEF Running
<1>2. CASE Peer \/ Tasks
  BY <1>1, <1>2 DEF Peer, Send, PassTime, WriteEnds, Tasks, TaskExits, Justified
<1>3. CASE ReadFromReader \/ ReadFails \/ ParseHeader
  BY <1>1, <1>3 DEF ReadFromReader, ReadFails, ParseHeader, Leave, Justified
<1> QED
  BY <1>2, <1>3, RefusedJustified, FullJustified, HeadersJustified, ContinuationJustified,
     OthersJustified, BranchesJustified DEF Next, Reader, Handle

\* Every step keeps a connection from being ended for another reason.
LEMMA RefusalStep ==
    ASSUME TypeOK, StepInv, BlockInv, StreamsInv, NoFalseRefusal, [Next]_vars
    PROVE  NoFalseRefusal'
<1>1. NoFalseRefusal' <=> (Peaceful' => Justified')
  BY DEF NoFalseRefusal, Peaceful, Justified
<1>2. NoFalseRefusal <=> (Peaceful => Justified)
  BY DEF NoFalseRefusal, Peaceful, Justified
<1>3. CASE UNCHANGED vars
  <2>1. UNCHANGED <<sent, torn, exit, header, handled, gone, dropped>>
    BY <1>3 DEF vars, readVars, loopVars, handleVars
  <2>2. Peaceful' <=> Peaceful
    BY <2>1 DEF Peaceful, Lawful, Opened
  <2>3. Justified' <=> Justified
    BY <2>1 DEF Justified, LastRead
  <2> QED
    BY <1>1, <1>2, <2>2, <2>3
<1>4. CASE Next
  BY <1>1, <1>4, PeacefulBefore, JustifiedStep
<1> QED
  BY <1>3, <1>4

\* A connection is ended for nothing but the named reasons: for a deadline that has
\* passed, for a decoder that was given a torn, refused, undecodable or garbled block,
\* for a frame the rules do not allow or one that was torn; and, for a peer that plays
\* by the rules, for what this server does not take although it should.
THEOREM NobodyThrownOut == Spec => []NoFalseExit
<1>1. Init => TypeOK /\ StepInv /\ BlockInv /\ StreamsInv /\ NoFalseRefusal
  <2> SUFFICES ASSUME Init PROVE StreamsInv /\ NoFalseRefusal /\ BlockInv
    BY InitType, InitInStep
  <2>1. StreamsInv
    BY DEF Init, StreamsInv, Heard, Biggest, Waiting
  <2>2. NoFalseRefusal
    BY DEF Init, NoFalseRefusal
  <2> QED
    BY <2>1, <2>2 DEF Init, BlockInv, BlocksFramed, BufferInv
<1>2. TypeOK /\ StepInv /\ BlockInv /\ StreamsInv /\ NoFalseRefusal /\ [Next]_vars
          => (TypeOK /\ StepInv /\ BlockInv /\ StreamsInv /\ NoFalseRefusal)'
  BY TypeStep, StepStep, BlocksStep, StreamsStep, RefusalStep
<1>3. NoFalseTimeout /\ NoFalseDecoding /\ NoFalseRefusal => NoFalseExit
  BY DEF NoFalseExit
<1> QED
  BY <1>1, <1>2, <1>3, ExitsJustified, PTL DEF Spec

-----------------------------------------------------------------------------
(* The blocks as a whole.  FlattenSeq and FragmentsAmong go through their  *)
(* sequence place by place; what one more element adds is enough to follow *)
(* a fragment from the frame into the buffer and on into its block.         *)

\* FlattenSeq's own recursion.
FlattenIs(u, ss) ==
    /\ u[1] = ss[1]
    /\ \A n \in 2..Len(ss) : u[n] = u[n - 1] \o ss[n]

LEMMA FlattenDefined ==
    ASSUME NEW ss \in Seq(Seq(FragmentRecords)), ss # << >>
    PROVE  \E u \in [1..Len(ss) -> Seq(FragmentRecords)] :
               FlattenIs(u, ss) /\ FlattenSeq(ss) = u[Len(ss)]
<1> DEFINE N == Len(ss)
           V == Seq(FragmentRecords)
           base == << >>
           step == [n \in 1..N |-> [v \in V |-> v \o ss[n]]]
           Rec(u) == u = [i \in 1..N |-> IF i = 1 THEN ss[i] ELSE u[i - 1] \o ss[i]]
<1>1. N \in Nat /\ N > 0 /\ \A n \in 1..N : ss[n] \in V
  OBVIOUS
<1>2. base \in V /\ \A v \in V, w \in V : v \o w \in V
  OBVIOUS
<1>3. step \in [1..N -> [V -> V]]
  BY <1>1, <1>2
<1>4. \A n \in 1..N, v \in V : step[n][v] = v \o ss[n]
  OBVIOUS
<1>5. \A v \in V : base \o v = v
  OBVIOUS
<1>6. FlattenSeq(ss) = (CHOOSE u : Rec(u))[N]
  BY <1>1 DEF FlattenSeq
<1> HIDE DEF N, V, base, step
<1>7. PICK f : IsRecursion(f, N, V, base, step)
  <2>1. N \in Nat /\ base \in V
    BY <1>1, <1>2
  <2> QED
    BY <1>3, <2>1, Recursion
<1> DEFINE g == [i \in 1..N |-> f[i]]
<1>8. ASSUME NEW n \in 1..N PROVE f[n - 1] \in V /\ f[n] = f[n - 1] \o ss[n]
  <2>1. n - 1 \in 0..N
    BY <1>1
  <2>2. f[n - 1] \in V
    BY <1>7, <2>1 DEF IsRecursion
  <2>3. f[n] = step[n][f[n - 1]]
    BY <1>7 DEF IsRecursion
  <2> QED
    BY <1>4, <2>2, <2>3
<1>9. f[1] = ss[1]
  <2>1. 1 \in 1..N /\ 1 - 1 = 0
    BY <1>1
  <2>2. f[1] = f[0] \o ss[1] /\ f[0] = base /\ ss[1] \in V
    BY <1>1, <1>7, <1>8, <2>1 DEF IsRecursion
  <2> QED
    BY <1>5, <2>2
<1>10. Rec(g)
  <2>1. ASSUME NEW i \in 1..N PROVE g[i] = IF i = 1 THEN ss[i] ELSE g[i - 1] \o ss[i]
    <3>1. g[i] = f[i]
      OBVIOUS
    <3>2. CASE i = 1
      BY <1>9, <3>1, <3>2
    <3>3. CASE i # 1
      <4>1. i - 1 \in 1..N
        BY <1>1, <3>3
      <4>2. g[i - 1] = f[i - 1]
        BY <4>1
      <4> QED
        BY <1>8, <3>1, <3>3, <4>2
    <3> QED
      BY <3>2, <3>3
  <2> HIDE DEF g
  <2>2. g = [i \in 1..N |-> g[i]]
    BY DEF g
  <2> QED
    BY <2>1, <2>2
<1> DEFINE u == CHOOSE w : Rec(w)
<1>11. Rec(u)
  BY <1>10
<1> HIDE DEF g, u
<1>12. /\ u = [i \in 1..N |-> u[i]]
       /\ \A i \in 1..N : u[i] = IF i = 1 THEN ss[i] ELSE u[i - 1] \o ss[i]
  BY <1>11
<1>13. FlattenIs(u, ss)
  <2>1. 1 \in 1..N /\ \A n \in 2..N : n \in 1..N /\ n # 1
    BY <1>1
  <2>2. u[1] = ss[1] /\ \A n \in 2..N : u[n] = u[n - 1] \o ss[n]
    BY <1>12, <2>1
  <2> QED
    BY <2>2 DEF FlattenIs, N
<1>14. \A n \in 1..N : u[n] = f[n]
  <2> DEFINE T == {k \in Nat : k + 1 <= N => u[k + 1] = f[k + 1]}
  <2>1. 0 \in T
    <3>1. 1 \in 1..N
      BY <1>1
    <3>2. u[1] = f[1]
      BY <1>9, <1>12, <3>1
    <3> QED
      BY <3>2
  <2>2. ASSUME NEW k \in Nat, k \in T PROVE k + 1 \in T
    <3> SUFFICES ASSUME (k + 1) + 1 <= N PROVE u[(k + 1) + 1] = f[(k + 1) + 1]
      OBVIOUS
    <3>1. PICK m \in 1..N : m = (k + 1) + 1
      BY <1>1
    <3>2. m # 1 /\ m - 1 = k + 1 /\ k + 1 <= N
      BY <1>1, <3>1
    <3>3. u[m - 1] = f[m - 1]
      BY <2>2, <3>2
    <3>4. u[m] = u[m - 1] \o ss[m] /\ f[m] = f[m - 1] \o ss[m]
      BY <1>8, <1>12, <3>2
    <3> QED
      BY <3>1, <3>3, <3>4
  <2> HIDE DEF T
  <2>3. Nat \subseteq T
    BY <2>1, <2>2, Induction
  <2>4. ASSUME NEW n \in 1..N PROVE u[n] = f[n]
    <3>1. n - 1 \in T /\ (n - 1) + 1 = n /\ n <= N
      BY <1>1, <2>3
    <3> QED
      BY <3>1 DEF T
  <2> QED
    BY <2>4
<1>15. u \in [1..N -> V]
  BY <1>1, <1>7, <1>12, <1>14 DEF IsRecursion
<1> QED
  BY <1>6, <1>13, <1>15 DEF N, V, u

\* One more block is joined to the end, and none is nothing.
LEMMA FlattenAppend ==
    ASSUME NEW ss \in Seq(Seq(FragmentRecords)), NEW s \in Seq(FragmentRecords)
    PROVE  /\ FlattenSeq(ss) \in Seq(FragmentRecords)
           /\ FlattenSeq(Append(ss, s)) = FlattenSeq(ss) \o s
<1> DEFINE N == Len(ss)
           tt == Append(ss, s)
<1>1. /\ tt \in Seq(Seq(FragmentRecords)) /\ tt # << >> /\ Len(tt) = N + 1 /\ N \in Nat
      /\ tt[N + 1] = s /\ \A i \in 1..N : tt[i] = ss[i]
  <2> DEFINE V == Seq(FragmentRecords)
  <2>1. ss \in Seq(V) /\ s \in V
    OBVIOUS
  <2> HIDE DEF V
  <2>2. /\ tt \in Seq(V) /\ Len(tt) = N + 1 /\ N \in Nat
        /\ tt[N + 1] = s /\ \A i \in 1..N : tt[i] = ss[i]
    BY <2>1
  <2>3. tt # << >>
    <3>1. Len(tt) # 0 /\ Len(<< >>) = 0
      BY <2>2
    <3> QED
      BY <3>1
  <2> QED
    BY <2>2, <2>3 DEF V
<1> HIDE DEF tt
<1>2. PICK v \in [1..Len(tt) -> Seq(FragmentRecords)] : FlattenIs(v, tt) /\ FlattenSeq(tt) = v[Len(tt)]
  BY <1>1, FlattenDefined
<1>3. CASE ss = << >>
  <2>1. FlattenSeq(ss) = << >>
    BY <1>3 DEF FlattenSeq
  <2>2. FlattenSeq(tt) = s
    BY <1>1, <1>2, <1>3 DEF FlattenIs
  <2> QED
    BY <2>1, <2>2 DEF tt
<1>4. CASE ss # << >>
  <2>1. PICK u \in [1..N -> Seq(FragmentRecords)] : FlattenIs(u, ss) /\ FlattenSeq(ss) = u[N]
    BY <1>4, FlattenDefined
  <2>2. N > 0
    BY <1>4
  <2> DEFINE T == {k \in Nat : k + 1 <= N => u[k + 1] = v[k + 1]}
  <2>3. 0 \in T
    BY <1>1, <1>2, <2>1, <2>2 DEF FlattenIs
  <2>4. ASSUME NEW k \in Nat, k \in T PROVE k + 1 \in T
    <3> SUFFICES ASSUME (k + 1) + 1 <= N PROVE u[(k + 1) + 1] = v[(k + 1) + 1]
      OBVIOUS
    <3>1. PICK m \in 2..N : m = (k + 1) + 1
      BY <1>1
    <3>2. m - 1 = k + 1 /\ k + 1 <= N /\ m \in 1..N /\ m \in 2..N + 1
      BY <1>1, <3>1
    <3>3. u[m - 1] = v[m - 1]
      BY <2>4, <3>2
    <3>4. u[m] = u[m - 1] \o ss[m] /\ v[m] = v[m - 1] \o tt[m] /\ tt[m] = ss[m]
      BY <1>1, <1>2, <2>1, <3>2 DEF FlattenIs
    <3> QED
      BY <3>1, <3>3, <3>4
  <2> HIDE DEF T
  <2>5. Nat \subseteq T
    BY <2>3, <2>4, Induction
  <2>6. N - 1 \in T /\ (N - 1) + 1 = N
    BY <1>1, <2>2, <2>5
  <2>7. u[N] = v[N]
    BY <2>6 DEF T
  <2>8. v[N + 1] = v[N] \o tt[N + 1]
    <3>1. N + 1 \in 2..Len(tt) /\ (N + 1) - 1 = N
      BY <1>1, <2>2
    <3> QED
      BY <1>2, <3>1 DEF FlattenIs
  <2>9. u[N] \in Seq(FragmentRecords)
    BY <1>1, <2>1, <2>2
  <2> QED
    BY <1>1, <1>2, <2>1, <2>7, <2>8, <2>9 DEF tt
<1> QED
  BY <1>3, <1>4

\* The recursion of FragmentsAmong.
IsFragment(f) == f.type \in {"HEADERS", "CONTINUATION"}

AmongIs(u, fs) ==
    /\ u[0] = << >>
    /\ \A n \in 1..Len(fs) : u[n] = IF IsFragment(fs[n]) THEN Append(u[n - 1], fs[n])
                                    ELSE u[n - 1]

LEMMA AmongDefined ==
    ASSUME NEW fs \in Seq(Frames)
    PROVE  \E u : /\ u \in [0..Len(fs) -> Seq(Frames)]
                  /\ AmongIs(u, fs) /\ FragmentsAmong(fs) = u[Len(fs)]
<1> DEFINE N == Len(fs)
           V == Seq(Frames)
           base == << >>
           next(n, v) == IF IsFragment(fs[n]) THEN Append(v, fs[n]) ELSE v
           step == [n \in 1..N |-> [v \in V |-> next(n, v)]]
           Rec(u) == u = [n \in 0..N |-> IF n = 0 THEN base ELSE next(n, u[n - 1])]
<1>1. N \in Nat /\ \A n \in 1..N : fs[n] \in Frames
  OBVIOUS
<1>2. base \in V
  OBVIOUS
<1>3. \A n \in 1..N, v \in V : next(n, v) \in V
  BY <1>1
<1>4. step \in [1..N -> [V -> V]] /\ \A n \in 1..N, v \in V : step[n][v] = next(n, v)
  BY <1>3
<1>5. FragmentsAmong(fs) = (CHOOSE u : Rec(u))[N]
  <2>1. \A u : [n \in 0..Len(fs) |->
                    IF n = 0 THEN << >>
                    ELSE IF fs[n].type \in {"HEADERS", "CONTINUATION"}
                         THEN Append(u[n - 1], fs[n]) ELSE u[n - 1]]
               = [n \in 0..N |-> IF n = 0 THEN base ELSE next(n, u[n - 1])]
    BY DEF IsFragment
  <2> QED
    BY <2>1, Zenon DEF FragmentsAmong, IsFragment
<1> HIDE DEF N, V, base, next, step
<1>6. PICK f : IsRecursion(f, N, V, base, step)
  BY <1>1, <1>2, <1>4, Recursion
<1>7. ASSUME NEW n \in 1..N PROVE f[n] = next(n, f[n - 1])
  <2>1. n - 1 \in 0..N /\ f[n] = step[n][f[n - 1]]
    BY <1>1, <1>6 DEF IsRecursion
  <2>2. f[n - 1] \in V
    BY <1>6, <2>1 DEF IsRecursion
  <2> QED
    BY <1>4, <2>1, <2>2
<1>8. Rec(f)
  <2>1. ASSUME NEW n \in 0..N PROVE f[n] = IF n = 0 THEN base ELSE next(n, f[n - 1])
    <3>1. n # 0 => n \in 1..N
      BY <1>1
    <3> QED
      BY <1>6, <1>7, <3>1 DEF IsRecursion
  <2>2. f = [n \in 0..N |-> f[n]]
    BY <1>6 DEF IsRecursion
  <2> QED
    BY <2>1, <2>2
<1> DEFINE u == CHOOSE w : Rec(w)
<1>9. Rec(u)
  BY <1>8
<1> HIDE DEF u
<1>10. /\ u = [n \in 0..N |-> u[n]]
       /\ \A n \in 0..N : u[n] = IF n = 0 THEN base ELSE next(n, u[n - 1])
  BY <1>9
<1>11. u[0] = base /\ \A n \in 1..N : u[n] = next(n, u[n - 1])
  BY <1>1, <1>10
<1>12. \A n \in 0..N : u[n] = f[n]
  <2>1. u[0] = f[0]
    BY <1>6, <1>11 DEF IsRecursion
  <2>2. \A n \in 1..N : u[n - 1] = f[n - 1] => u[n] = f[n]
    BY <1>7, <1>11
  <2> QED
    BY <1>1, <2>1, <2>2, RecursionAgrees, ZenonT(60)
<1>13. u \in [0..N -> V]
  BY <1>6, <1>10, <1>12 DEF IsRecursion
<1>14. AmongIs(u, fs)
  BY <1>11 DEF AmongIs, N, base, next
<1> QED
  BY <1>5, <1>13, <1>14 DEF N, V, u

\* One more frame is one more fragment, or none.
LEMMA AmongAppend ==
    ASSUME NEW fs \in Seq(Frames), NEW f \in Frames
    PROVE  /\ FragmentsAmong(fs) \in Seq(Frames)
           /\ FragmentsAmong(Append(fs, f)) =
                  IF IsFragment(f) THEN Append(FragmentsAmong(fs), f) ELSE FragmentsAmong(fs)
<1> DEFINE N == Len(fs)
           gs == Append(fs, f)
<1>1. /\ gs \in Seq(Frames) /\ Len(gs) = N + 1 /\ N \in Nat /\ gs[N + 1] = f
      /\ \A i \in 1..N : gs[i] = fs[i]
  OBVIOUS
<1> HIDE DEF gs
<1>2. PICK u : /\ u \in [0..N -> Seq(Frames)]
               /\ AmongIs(u, fs) /\ FragmentsAmong(fs) = u[N]
  BY AmongDefined
<1>3. PICK v : /\ v \in [0..Len(gs) -> Seq(Frames)]
               /\ AmongIs(v, gs) /\ FragmentsAmong(gs) = v[Len(gs)]
  BY <1>1, AmongDefined
<1>4. \A n \in 0..N : u[n] = v[n]
  <2>1. u[0] = v[0]
    BY <1>2, <1>3 DEF AmongIs
  <2>2. ASSUME NEW n \in 1..N, u[n - 1] = v[n - 1] PROVE u[n] = v[n]
    <3>1. n \in 1..Len(gs) /\ gs[n] = fs[n]
      BY <1>1
    <3> QED
      BY <1>2, <1>3, <2>2, <3>1 DEF AmongIs
  <2> QED
    BY <1>1, <2>1, <2>2, RecursionAgrees, ZenonT(60)
<1>5. u[N] = v[N] /\ u[N] \in Seq(Frames)
  BY <1>1, <1>2, <1>4
<1>6. v[N + 1] = IF IsFragment(f) THEN Append(v[N], f) ELSE v[N]
  <2>1. N + 1 \in 1..Len(gs) /\ (N + 1) - 1 = N
    BY <1>1
  <2> QED
    BY <1>1, <1>3, <2>1 DEF AmongIs
<1> QED
  BY <1>1, <1>2, <1>3, <1>5, <1>6 DEF gs

\* A fragment that is put into the buffer is put at the end of all of them.
LEMMA BufferAppend ==
    ASSUME NEW ss \in Seq(Seq(FragmentRecords)), NEW s \in Seq(FragmentRecords), NEW f \in FragmentRecords
    PROVE  /\ FlattenSeq(Append(ss, Append(s, f))) = Append(FlattenSeq(Append(ss, s)), f)
           /\ FlattenSeq(Append(Append(ss, s), << >>)) = FlattenSeq(Append(ss, s))
<1> DEFINE x == FlattenSeq(ss)
           y == FlattenSeq(Append(ss, s))
<1>1. x \in Seq(FragmentRecords) /\ y = x \o s
  BY FlattenAppend
<1>2. Append(s, f) \in Seq(FragmentRecords) /\ << >> \in Seq(FragmentRecords)
  OBVIOUS
<1>3. Append(ss, s) \in Seq(Seq(FragmentRecords))
  <2> DEFINE V == Seq(FragmentRecords)
  <2>1. ss \in Seq(V) /\ s \in V
    OBVIOUS
  <2> HIDE DEF V
  <2>2. Append(ss, s) \in Seq(V)
    BY <2>1
  <2> QED
    BY <2>2 DEF V
<1>4. FlattenSeq(Append(ss, Append(s, f))) = x \o Append(s, f)
  BY <1>2, FlattenAppend
<1>5. y \in Seq(FragmentRecords) /\ FlattenSeq(Append(Append(ss, s), << >>)) = y \o << >>
  BY <1>2, <1>3, FlattenAppend
<1> HIDE DEF x, y
<1>6. x \o Append(s, f) = Append(x \o s, f)
  BY <1>1
<1>7. y \o << >> = y
  BY <1>5
<1> QED
  BY <1>1, <1>4, <1>5, <1>6, <1>7 DEF y

-----------------------------------------------------------------------------

FragmentsOf(fs) == [i \in DOMAIN fs |-> Fragment(fs[i])]

\* One more frame is one more fragment, and none is none.
LEMMA FragmentsAppend ==
    ASSUME NEW fs \in Seq(Frames), NEW f \in Frames
    PROVE  FragmentsOf(Append(fs, f)) = Append(FragmentsOf(fs), Fragment(f))
<1> DEFINE gs == Append(fs, f)
           s == FragmentsOf(fs)
           t == FragmentsOf(gs)
<1>1. \A g \in Frames : Fragment(g) \in FragmentRecords
  BY DEF Fragment, FragmentRecords, Garbled
<1>2. /\ gs \in Seq(Frames) /\ Len(gs) = Len(fs) + 1 /\ gs[Len(fs) + 1] = f /\ Len(fs) \in Nat
      /\ \A i \in 1..Len(fs) : gs[i] = fs[i] /\ fs[i] \in Frames
      /\ DOMAIN fs = 1..Len(fs) /\ DOMAIN gs = 1..Len(fs) + 1
  OBVIOUS
<1> HIDE DEF gs
<1>3. s = [i \in 1..Len(fs) |-> Fragment(fs[i])] /\ t = [i \in 1..Len(fs) + 1 |-> Fragment(gs[i])]
  BY <1>2 DEF FragmentsOf
<1> HIDE DEF s, t
<1>4. /\ s \in Seq(FragmentRecords) /\ Len(s) = Len(fs)
      /\ \A i \in 1..Len(fs) : s[i] = Fragment(fs[i])
  BY <1>1, <1>2, <1>3
<1>5. /\ t \in Seq(FragmentRecords) /\ Len(t) = Len(fs) + 1
      /\ \A i \in 1..Len(fs) + 1 : t[i] = Fragment(gs[i])
  <2>1. \A i \in 1..Len(fs) + 1 : gs[i] \in Frames
    BY <1>2
  <2> QED
    BY <1>1, <1>2, <1>3, <2>1
<1>6. Fragment(f) \in FragmentRecords
  BY <1>1
<1>7. t[Len(s) + 1] = Fragment(f) /\ \A i \in 1..Len(s) : t[i] = s[i]
  BY <1>2, <1>4, <1>5
<1>8. t = Append(s, Fragment(f))
  BY <1>2, <1>4, <1>5, <1>6, <1>7
<1> QED
  BY <1>8 DEF s, t, gs

WholeInv == Running => Fragments = FragmentsOf(FragmentsAmong(handled))

\* A step that leaves the blocks alone and handles no fragment.
LEMMA WholeUntouched ==
    ASSUME WholeInv, Running, UNCHANGED <<header_buffer, ended>>,
           FragmentsAmong(handled') = FragmentsAmong(handled)
    PROVE  WholeInv'
<1>1. FragmentsAmong(handled)' = FragmentsAmong(handled')
  BY DEF FragmentsAmong
<1>2. Fragments' = Fragments
  BY DEF Fragments
<1>3. Fragments = FragmentsOf(FragmentsAmong(handled))
  BY DEF WholeInv
<1>4. Fragments' = FragmentsOf(FragmentsAmong(handled'))
  BY <1>2, <1>3
<1>5. FragmentsOf(FragmentsAmong(handled))' = FragmentsOf(FragmentsAmong(handled'))
  BY <1>1 DEF FragmentsOf, Fragment, Garbled
<1> QED
  BY <1>4, <1>5 DEF WholeInv

\* A fragment goes into the buffer, and with its block out of it.
LEMMA FragmentWhole ==
    ASSUME TypeOK, WholeInv, Running, TakeFrame, IsFragment(header), RecvFragment(header)
    PROVE  WholeInv'
<1> SUFFICES ASSUME Running' PROVE Fragments' = FragmentsOf(FragmentsAmong(handled))'
  BY DEF WholeInv
<1>1. header \in Frames /\ handled \in Seq(Frames) /\ handled' = Append(handled, header)
  BY TakeFrameType DEF TypeOK, TakeFrame
<1> DEFINE fragment == Fragment(header)
           block == Append(header_buffer, fragment)
           among == FragmentsAmong(handled)
<1>2. /\ ended \in Seq(Seq(FragmentRecords)) /\ header_buffer \in Seq(FragmentRecords)
      /\ fragment \in FragmentRecords /\ block \in Seq(FragmentRecords)
  BY <1>1, FragmentAppended DEF TypeOK
<1>3. among \in Seq(Frames) /\ FragmentsAmong(handled') = Append(among, header)
  BY <1>1, AmongAppend
<1>4. FragmentsOf(FragmentsAmong(handled))' = FragmentsOf(FragmentsAmong(handled'))
  BY DEF FragmentsOf, Fragment, Garbled, FragmentsAmong
<1>5. FragmentsOf(Append(among, header)) = Append(FragmentsOf(among), fragment)
  BY <1>1, <1>3, FragmentsAppend
<1>6. FlattenSeq(Append(ended, header_buffer)) = FragmentsOf(among)
  BY DEF WholeInv, Fragments
<1>7. FlattenSeq(Append(ended, block)) = Append(FlattenSeq(Append(ended, header_buffer)), fragment)
  BY <1>2, BufferAppend
<1>8. FlattenSeq(Append(Append(ended, block), << >>)) = FlattenSeq(Append(ended, block))
  BY <1>2, BufferAppend
<1>9. \/ ended' = ended /\ header_buffer' = block
      \/ ended' = Append(ended, block) /\ header_buffer' = << >>
  BY <1>1, FragmentSplit
<1>10. Fragments' = FlattenSeq(Append(ended', header_buffer'))
  BY DEF Fragments
<1> HIDE DEF block, fragment, among
<1>11. Fragments' = FlattenSeq(Append(ended, block))
  BY <1>8, <1>9, <1>10
<1> QED
  BY <1>3, <1>4, <1>5, <1>6, <1>7, <1>11

\* Every step keeps the blocks in step with the frames handled.
LEMMA WholeStep == ASSUME TypeOK, WholeInv, [Next]_vars PROVE WholeInv'
<1>1. CASE UNCHANGED vars
  <2>1. UNCHANGED <<handled, header_buffer, ended, exit>>
    BY <1>1 DEF vars, readVars, loopVars, blockVars
  <2>2. CASE Running
    BY <2>1, <2>2, WholeUntouched
  <2>3. CASE ~Running
    BY <2>1, <2>3 DEF WholeInv, Running
  <2> QED
    BY <2>2, <2>3
<1>2. CASE Next
  <2>1. Running
    BY <1>2, EndedStep
  <2>2. CASE Peer \/ Tasks \/ Reader \/ OtherBranches
    <3>1. UNCHANGED <<header_buffer, ended>>
      BY <2>2, BlocksKept DEF blockVars
    <3>2. UNCHANGED handled
      BY <2>2
         DEF Peer, Send, PassTime, WriteEnds, Tasks, TaskExits, Reader, ReadFromReader,
             ReadFails, FrameBufferFull, ParseHeader, RefuseFrame, Leave, readVars,
             OtherBranches, NoticeShutdown, CheckTimeouts, Requests, WriteBranch,
             DistributeFails, StreamFails, StreamClosing, StreamClosed, Branch, DropRead
    <3> QED
      BY <2>1, <3>1, <3>2, WholeUntouched
  <2>3. ASSUME exit' # "running" PROVE WholeInv'
    BY <2>3 DEF WholeInv, Running
  <2>4. CASE RecvHeaders
    <3>1. IsFragment(header)
      BY <2>4 DEF RecvHeaders, Recv, IsFragment
    <3> QED
      BY <2>1, <2>3, <2>4, <3>1, FragmentComes, FragmentWhole
  <2>5. CASE RecvContinuation
    BY <2>3, <2>5, ContinuationEnds
  <2>6. CASE Panic \/ RecvGoAway \/ RecvUnexpected
    BY <2>3, <2>6 DEF Panic, RecvGoAway, RecvUnexpected
  <2>7. CASE RecvData \/ RecvSettings \/ RecvPing \/ RecvWindowUpdate \/ RecvIgnored
    <3>1. TakeFrame /\ ~IsFragment(header) /\ UNCHANGED <<header_buffer, ended>>
      BY <2>7, BlocksKept DEF RecvData, RecvSettings, RecvPing, RecvWindowUpdate, RecvIgnored,
                              Recv, IsFragment, blockVars
    <3>2. header \in Frames /\ handled \in Seq(Frames) /\ handled' = Append(handled, header)
      BY <3>1, TakeFrameType DEF TypeOK, TakeFrame
    <3>3. FragmentsAmong(handled') = FragmentsAmong(handled)
      BY <3>1, <3>2, AmongAppend
    <3> QED
      BY <2>1, <3>1, <3>3, WholeUntouched
  <2> QED
    BY <1>2, <2>2, <2>4, <2>5, <2>6, <2>7 DEF Next, Handle
<1> QED
  BY <1>1, <1>2

\* Fragments that are not cut are whole.
LEMMA WholeImplies == ASSUME TypeOK, StepInv, BlocksFramed, WholeInv PROVE BlocksWhole
<1> SUFFICES ASSUME Running
             PROVE  /\ Fragments = FragmentsOf(FragmentsAmong(handled))
                    /\ ~torn /\ (\A i \in DOMAIN Fragments : ~Fragments[i].cut) =>
                          LET frames == FragmentsAmong(SubSeq(sent, 1, Len(handled)))
                          IN  Fragments = [i \in DOMAIN frames |->
                                              [of |-> frames[i], cut |-> FALSE]]
  BY DEF BlocksWhole, FragmentsOf
<1>1. Fragments = FragmentsOf(FragmentsAmong(handled))
  BY DEF WholeInv
<1>2. ASSUME ~torn, \A i \in DOMAIN Fragments : ~Fragments[i].cut
      PROVE  LET frames == FragmentsAmong(SubSeq(sent, 1, Len(handled)))
             IN  Fragments = [i \in DOMAIN frames |-> [of |-> frames[i], cut |-> FALSE]]
  <2>1. handled = SubSeq(sent, 1, Len(handled))
    BY <1>2, BeginsPrefix DEF TypeOK, StepInv, InStep
  <2> DEFINE frames == FragmentsAmong(handled)
  <2>2. Fragments = [i \in DOMAIN frames |-> Fragment(frames[i])]
    BY <1>1 DEF FragmentsOf
  <2> HIDE DEF frames
  <2>3. ASSUME NEW i \in DOMAIN frames
        PROVE  Fragment(frames[i]) = [of |-> frames[i], cut |-> FALSE]
    <3>1. ~Fragment(frames[i]).cut
      BY <1>2, <2>2
    <3> QED
      BY <3>1 DEF Fragment, Garbled
  <2>4. Fragments = [i \in DOMAIN frames |-> [of |-> frames[i], cut |-> FALSE]]
    BY <2>2, <2>3
  <2> QED
    BY <2>1, <2>4 DEF frames
<1> QED
  BY <1>1, <1>2

\* Whatever the peer sends and however main_loop is interrupted: every fragment that
\* was handled is in exactly one block, in order, refused or not; and until a frame is
\* torn or a fragment cut, the blocks are the ones the peer has sent, whole.
THEOREM FragmentsInOrder == Spec => []BlocksWhole
<1>1. Init => TypeOK /\ StepInv /\ BlockInv /\ WholeInv
  <2> SUFFICES ASSUME Init PROVE WholeInv /\ BlockInv
    BY InitType, InitInStep
  <2>1. ended = << >> /\ header_buffer = << >> /\ handled = << >>
    BY DEF Init
  <2>2. << >> \in Seq(Seq(FragmentRecords)) /\ << >> \in Seq(FragmentRecords)
        /\ << >> \in Seq(Frames)
    OBVIOUS
  <2>3. FlattenSeq(Append(<< >>, << >>)) = FlattenSeq(<< >>) \o << >>
    BY <2>2, FlattenAppend
  <2>4. FlattenSeq(<< >>) = << >>
    BY DEF FlattenSeq
  <2>5. FragmentsAmong(<< >>) = << >>
    <3>1. PICK u : AmongIs(u, << >>) /\ FragmentsAmong(<< >>) = u[Len(<< >>)]
      BY <2>2, AmongDefined
    <3> QED
      BY <3>1 DEF AmongIs
  <2>6. FragmentsOf(<< >>) = << >>
    BY DEF FragmentsOf
  <2>7. WholeInv
    BY <2>1, <2>3, <2>4, <2>5, <2>6 DEF WholeInv, Fragments
  <2> QED
    BY <2>1, <2>7 DEF Init, BlockInv, BlocksFramed, BufferInv
<1>2. TypeOK /\ StepInv /\ BlockInv /\ WholeInv /\ [Next]_vars
          => (TypeOK /\ StepInv /\ BlockInv /\ WholeInv)'
  BY TypeStep, StepStep, BlocksStep, WholeStep
<1>3. TypeOK /\ StepInv /\ BlockInv /\ WholeInv => BlocksWhole
  BY WholeImplies DEF BlockInv
<1> QED
  BY <1>1, <1>2, <1>3, PTL DEF Spec
=============================================================================
