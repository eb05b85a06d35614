------------------------- MODULE H2Connection_proofs -------------------------
(***************************************************************************)
(* Proofs about the connection task of HTTP/2 and its stream tasks, for    *)
(* every value of the constants, in three parts.                           *)
(*                                                                         *)
(* About H2Connection: the types, the count of open streams and the limit  *)
(* on them, and that a graceful shutdown cuts no response off.  About      *)
(* H2SendWindow: no window is lost or counted twice, a task asks for what  *)
(* its chunk needs, and none waits with its wake-up lost.  About           *)
(* H2SendWire: H2Connection implements H2Wire, so that the frames of a     *)
(* response come in order, and DATA stays within the window of the         *)
(* connection and the highest of its stream.                               *)
(***************************************************************************)
EXTENDS H2SendWire, FiniteSetTheorems, Sums_proofs

\* The types are inductive only with two facts they rest on: a task that runs
\* has a stream, and distribute_window's loop has something to distribute.
TypeInv ==
    /\ TypeOK
    /\ \A t \in Tasks : task[t].at # "unused" => task[t].id \in StreamIds
    /\ Running /\ distributing => global_window > 0 /\ pending_window_req # << >>

-----------------------------------------------------------------------------

\* What a connection can write to the channel of a stream task has its type.
LEMMA TellType ==
    ASSUME TypeInv, NEW ts, NEW req \in StreamReq, Tell(ts, req)
    PROVE  rx' \in [Tasks -> Seq(StreamReq)]
BY DEF TypeInv, TypeOK, Tell

\* A request of a running task has its type.
LEMMA RequestType ==
    ASSUME TypeInv, NEW t \in Tasks, task[t].at # "unused",
           NEW kind \in {"Response", "Frame", "GetWindow", "PutWindow",
                         "StreamClosing", "StreamClosed"},
           NEW amount \in Nat, NEW end_stream \in BOOLEAN
    PROVE  Request(kind, t, amount, end_stream) \in ConnectionReq
BY DEF TypeInv, TypeOK, Request, ConnectionReq, Task

\* The initial state has its types.
LEMMA InitType == ASSUME ConstantsAssumption, Init PROVE TypeInv
<1> USE DEF ConstantsAssumption, Init
<1>1. task \in [Tasks -> Task]
  BY DEF Task, Places, Errors
<1>2. /\ global_window \in Int /\ credit \in Int /\ initial_window_size \in Nat
      /\ stream_credit \in [StreamIds -> Int]
  BY DEF InI32
<1>3. /\ pending_window_req \in Seq([id : StreamIds, amount : Int])
      /\ conn_rx \in Seq(ConnectionReq)
      /\ rx \in [Tasks -> Seq(StreamReq)]
  OBVIOUS
<1>4. /\ streams \in [StreamIds -> Tasks \cup {NoTask}]
      /\ wire \in [StreamIds -> SUBSET {"headers", "data", "end_stream", "rst"}]
  OBVIOUS
<1>5. TypeOK
  BY <1>1, <1>2, <1>3, <1>4 DEF TypeOK, Exits
<1>6. \A t \in Tasks : task[t].at = "unused"
  OBVIOUS
<1> QED
  BY <1>5, <1>6 DEF TypeInv

\* Replacing the state of one task by one of the type keeps the type.
LEMMA TaskType ==
    ASSUME TypeInv, NEW t \in Tasks, NEW r \in Task,
           task' = [task EXCEPT ![t] = r]
    PROVE  task' \in [Tasks -> Task]
BY DEF TypeInv, TypeOK

\* The head and the tail of a queue.
LEMMA HeadTail ==
    ASSUME NEW S, NEW s \in Seq(S), s # << >>
    PROVE  s[1] \in S /\ Head(s) \in S /\ Tail(s) \in Seq(S)
OBVIOUS

\* Taking part of the first window request keeps the type of the queue.
LEMMA PartlyGivenType ==
    ASSUME NEW S, NEW s \in Seq([id : S, amount : Int]), s # << >>, NEW n \in Int
    PROVE  [s EXCEPT ![1].amount = @ - n] \in Seq([id : S, amount : Int])
<1>1. s[1] \in [id : S, amount : Int]
  BY HeadTail
<1>2. ASSUME NEW r \in [id : S, amount : Int]
      PROVE  [r EXCEPT !.amount = @ - n] \in [id : S, amount : Int]
  OBVIOUS
<1>3. [s[1] EXCEPT !.amount = @ - n] \in [id : S, amount : Int]
  BY <1>1, <1>2
<1>4. [s EXCEPT ![1].amount = @ - n] = [s EXCEPT ![1] = [s[1] EXCEPT !.amount = @ - n]]
  OBVIOUS
<1> QED
  BY <1>3, <1>4

\* handle_possible_stream_error keeps the types.
LEMMA ResetType ==
    ASSUME TypeInv, NEW id \in StreamIds, ResetStream(id)
    PROVE  /\ rx' \in [Tasks -> Seq(StreamReq)]
           /\ streams' \in [StreamIds -> Tasks \cup {NoTask}]
           /\ wire' \in [StreamIds -> SUBSET {"headers", "data", "end_stream", "rst"}]
           /\ unflushed' \in BOOLEAN
<1>1. [kind |-> "Reset", amount |-> 0] \in StreamReq
  BY DEF StreamReq
<1>2. rx' \in [Tasks -> Seq(StreamReq)]
  BY <1>1, TellType DEF ResetStream
<1>3. streams' \in [StreamIds -> Tasks \cup {NoTask}]
  BY DEF ResetStream, TypeInv, TypeOK
<1>4. wire' \in [StreamIds -> SUBSET {"headers", "data", "end_stream", "rst"}]
  BY DEF ResetStream, Write, TypeInv, TypeOK
<1> QED
  BY <1>2, <1>3, <1>4 DEF ResetStream, Write

\* Frames of the peer keep the types.
LEMMA PeerType ==
    ASSUME ConstantsAssumption, TypeInv, Peer
    PROVE  TypeInv'
<1> USE DEF loopVars, windowVars, streamVars, shutdownVars, taskVars, peerVars,
            wireVars, Running, Selecting, Close, Distribute, Write
<1>1. ASSUME NEW id \in StreamIds, NEW kind \in PeerSends, RecvIllegalHeaders(id, kind)
      PROVE  TypeInv'
  BY <1>1 DEF RecvIllegalHeaders, Leave, TypeInv, TypeOK, Exits
<1>2. ASSUME NEW id \in StreamIds, NEW kind \in PeerSends, RecvRejectedHeaders(id, kind)
      PROVE  TypeInv'
  <2>1. ResetStream(id)
    BY <1>2 DEF RecvRejectedHeaders, TypeInv, TypeOK
  <2> QED
    BY <1>2, <2>1, ResetType DEF RecvRejectedHeaders, TypeInv, TypeOK
<1>3. ASSUME NEW id \in StreamIds, RecvUndecodableHeaders(id)
      PROVE  TypeInv'
  BY <1>3 DEF RecvUndecodableHeaders, Leave, TypeInv, TypeOK, Exits
<1>4. ASSUME NEW id \in StreamIds, NEW kind \in PeerSends, NEW t \in Tasks,
             RecvRequest(id, kind, t)
      PROVE  TypeInv'
  <2> DEFINE r == [task[t] EXCEPT !.at = "handling", !.id = id,
                                  !.window = initial_window_size]
  <2>1. task[t] \in Task /\ initial_window_size \in Int /\ initial_window_size \in Nat
    BY DEF TypeInv, TypeOK
  <2>2. r \in Task
    BY <2>1 DEF Task, Places
  <2>3. task' = [task EXCEPT ![t] = r]
    BY <1>4 DEF RecvRequest
  <2>4. task' \in [Tasks -> Task]
    BY <2>2, <2>3, TaskType
  <2>5. \A u \in Tasks : task'[u].at # "unused" => task'[u].id \in StreamIds
    BY <2>1, <2>3 DEF TypeInv, TypeOK, Task
  <2>6. stream_credit' \in [StreamIds -> Int]
    BY <1>4, <2>1 DEF RecvRequest, TypeInv, TypeOK
  <2>7. /\ biggest_open_stream' \in StreamIds \cup {0}
        /\ streams' \in [StreamIds -> Tasks \cup {NoTask}]
        /\ open_streams' \in Nat
    BY <1>4, SMTT(30) DEF RecvRequest, TypeInv, TypeOK
  <2> QED
    BY <1>4, <2>4, <2>5, <2>6, <2>7 DEF RecvRequest, TypeInv, TypeOK
<1>5. ASSUME NEW n \in Increments, RecvGlobalWindowUpdate(n)
      PROVE  TypeInv'
  <2>1. n \in Int /\ global_window \in Int /\ credit \in Int
    BY DEF ConstantsAssumption, TypeInv, TypeOK
  <2>5. global_window + n \in Int /\ credit + n \in Int
    BY <2>1
  <2>2. global_window' \in Int /\ credit' \in Int
    BY <1>5, <2>1, <2>5 DEF RecvGlobalWindowUpdate
  <2>4. exit' \in Exits
    BY <1>5 DEF RecvGlobalWindowUpdate, Exits
  <2>3. distributing' \in BOOLEAN /\ (distributing' => Running')
        /\ (distributing' => global_window' > 0 /\ pending_window_req' # << >>)
    BY <1>5 DEF RecvGlobalWindowUpdate, TypeInv, TypeOK
  <2> QED
    BY <1>5, <2>2, <2>3, <2>4 DEF RecvGlobalWindowUpdate, TypeInv, TypeOK
<1>6. ASSUME NEW id \in StreamIds, NEW n \in Increments, RecvStreamWindowUpdate(id, n)
      PROVE  TypeInv'
  <2>1. n \in Nat
    BY DEF ConstantsAssumption
  <2>2. [kind |-> "WindowUpdate", amount |-> n] \in StreamReq
    BY <2>1 DEF StreamReq
  <2>3. CASE streams[id] # NoTask /\ Alive(streams[id])
    <3>1. rx' \in [Tasks -> Seq(StreamReq)]
      BY <1>6, <2>2, <2>3, TellType DEF RecvStreamWindowUpdate
    <3>2. stream_credit' \in [StreamIds -> Int]
      BY <1>6, <2>1, <2>3 DEF RecvStreamWindowUpdate, TypeInv, TypeOK
    <3> QED
      BY <1>6, <2>3, <3>1, <3>2 DEF RecvStreamWindowUpdate, TypeInv, TypeOK
  <2>4. CASE streams[id] # NoTask /\ ~Alive(streams[id])
    <3>1. ResetStream(id)
      BY <1>6, <2>4 DEF RecvStreamWindowUpdate
    <3> QED
      BY <1>6, <2>4, <3>1, ResetType DEF RecvStreamWindowUpdate, TypeInv, TypeOK
  <2>5. CASE streams[id] = NoTask
    BY <1>6, <2>5 DEF RecvStreamWindowUpdate, TypeInv, TypeOK
  <2> QED
    BY <2>3, <2>4, <2>5
<1>7. ASSUME NEW size \in InitialWindows, RecvSettings(size)
      PROVE  TypeInv'
  <2>1. size \in Nat
    BY DEF ConstantsAssumption
  <2>2. size - initial_window_size \in Int
    BY <2>1 DEF TypeInv, TypeOK
  <2>3. [kind |-> "WindowUpdate", amount |-> size - initial_window_size] \in StreamReq
    BY <2>2 DEF StreamReq
  <2>4. rx' \in [Tasks -> Seq(StreamReq)]
    BY <1>7, <2>3, TellType DEF RecvSettings
  <2>5. stream_credit' \in [StreamIds -> Int]
    <3> DEFINE added == [id \in StreamIds |->
                   IF streams[id] # NoTask
                   THEN stream_credit[id] + (size - initial_window_size)
                   ELSE stream_credit[id]]
    <3>1. stream_credit' = stream_credit \/ stream_credit' = added
      BY <1>7 DEF RecvSettings
    <3>2. stream_credit \in [StreamIds -> Int]
      BY DEF TypeInv, TypeOK
    <3>3. added \in [StreamIds -> Int]
      BY <2>2, <3>2
    <3> QED
      BY <3>1, <3>2, <3>3
  <2>6. exit' \in Exits
    BY <1>7 DEF RecvSettings, TypeInv, TypeOK, Exits
  <2> QED
    BY <1>7, <2>1, <2>4, <2>5, <2>6 DEF RecvSettings, TypeInv, TypeOK
<1>8. ASSUME NEW id \in StreamIds, RecvRstStream(id)
      PROVE  TypeInv'
  BY <1>8 DEF RecvRstStream, TypeInv, TypeOK
<1>9. CASE RecvGoAway \/ ConnectionFails
  BY <1>9 DEF RecvGoAway, ConnectionFails, Leave, TypeInv, TypeOK, Exits
<1> QED
  BY <1>1, <1>2, <1>3, <1>4, <1>5, <1>6, <1>7, <1>8, <1>9 DEF Peer

\* So do the requests of the streams and the distribution of the window.
LEMMA ConnectionType ==
    ASSUME ConstantsAssumption, TypeInv,
           AnnounceShutdown \/ NoticeShutdown \/ FlushWriteBuffer
               \/ Streams \/ DistributeWindow
    PROVE  TypeInv'
<1> USE DEF loopVars, windowVars, streamVars, shutdownVars, taskVars, peerVars,
            wireVars, Running, Selecting, Close, Distribute, Write, Take
<1>1. CASE AnnounceShutdown
  BY <1>1 DEF AnnounceShutdown, TypeInv, TypeOK
<1>12. CASE FlushWriteBuffer
  BY <1>12 DEF FlushWriteBuffer, TypeInv, TypeOK
<1>11. CASE NoticeShutdown
  <2>1. exit' \in Exits /\ pending_gracefull_shutdown' \in BOOLEAN
    BY <1>11 DEF NoticeShutdown, StopAccepting, TypeInv, TypeOK, Exits
  <2> QED
    BY <1>11, <2>1 DEF NoticeShutdown, StopAccepting, TypeInv, TypeOK
<1>2. ASSUME conn_rx # << >>
      PROVE  /\ Head(conn_rx) \in ConnectionReq
             /\ Tail(conn_rx) \in Seq(ConnectionReq)
  BY <1>2 DEF TypeInv, TypeOK
<1>3. CASE WriteResponse
  BY <1>2, <1>3 DEF WriteResponse, ConnectionReq, TypeInv, TypeOK
<1>4. CASE WriteFrame
  <2> DEFINE req == Head(conn_rx)
  <2>1. req.id \in StreamIds /\ req.amount \in Int /\ conn_rx # << >>
    BY <1>2, <1>4 DEF WriteFrame, ConnectionReq
  <2>2. wire' \in [StreamIds -> SUBSET {"headers", "data", "end_stream", "rst"}]
    BY <1>4, <2>1 DEF WriteFrame, TypeInv, TypeOK
  <2>3. credit' \in Int
    BY <1>4, <2>1 DEF WriteFrame, TypeInv, TypeOK
  <2>5. stream_credit \in [StreamIds -> Int]
    BY DEF TypeInv, TypeOK
  <2>6. stream_credit[req.id] - req.amount \in Int
    <3>1. stream_credit[req.id] \in Int
      BY <2>1, <2>5
    <3> QED
      BY <2>1, <3>1
  <2>4. stream_credit' \in [StreamIds -> Int]
    BY <1>4, <2>1, <2>5, <2>6 DEF WriteFrame
  <2> QED
    BY <1>2, <1>4, <2>1, <2>2, <2>3, <2>4 DEF WriteFrame, TypeInv, TypeOK
<1>5. CASE GetWindow
  <2>1. Head(conn_rx).id \in StreamIds /\ Head(conn_rx).amount \in Int /\ conn_rx # << >>
    BY <1>2, <1>5 DEF GetWindow, ConnectionReq
  <2>2. pending_window_req' \in Seq([id : StreamIds, amount : Int])
    BY <1>5, <2>1 DEF GetWindow, TypeInv, TypeOK
  <2> QED
    BY <1>2, <1>5, <2>1, <2>2 DEF GetWindow, TypeInv, TypeOK
<1>6. CASE PutWindow
  <2>1. Head(conn_rx).amount \in Nat /\ conn_rx # << >>
    BY <1>2, <1>6 DEF PutWindow, ConnectionReq
  <2>2. global_window + Head(conn_rx).amount \in Int /\ global_window \in Int
    BY <2>1 DEF TypeInv, TypeOK
  <2>4. global_window' \in Int
    BY <1>6, <2>2 DEF PutWindow
  <2>5. exit' \in Exits
    BY <1>6 DEF PutWindow, Exits
  <2>3. distributing' \in BOOLEAN /\ (distributing' => Running')
        /\ (distributing' => global_window' > 0 /\ pending_window_req' # << >>)
    BY <1>6 DEF PutWindow, TypeInv, TypeOK
  <2> QED
    BY <1>2, <1>6, <2>1, <2>3, <2>4, <2>5 DEF PutWindow, TypeInv, TypeOK
<1>7. CASE StreamClosing
  <2> DEFINE req == Head(conn_rx)
  <2>1. conn_rx # << >> /\ req.id \in StreamIds /\ conn_rx' = Tail(conn_rx)
    BY <1>2, <1>7 DEF StreamClosing, ConnectionReq
  <2>2. open_streams' \in Nat
    <3>1. open_streams \in Nat
      BY DEF TypeInv, TypeOK
    <3>2. \/ open_streams' = open_streams
          \/ open_streams # 0 /\ open_streams' = open_streams - 1
      <4>1. CASE req.error = "connection"
        BY <1>7, <4>1 DEF StreamClosing
      <4>2. CASE req.error # "connection"
        <5>1. Uncount(req.error = "stream")
          BY <1>7, <4>2 DEF StreamClosing
        <5> QED
          BY <5>1 DEF Uncount
      <4> QED
        BY <4>1, <4>2
    <3> QED
      BY <3>1, <3>2
  <2>5. exit' \in Exits
    BY <1>7 DEF StreamClosing, Uncount, Exits
  <2>3. CASE req.error = "stream"
    <3>1. ResetStream(req.id)
      BY <1>7, <2>3 DEF StreamClosing
    <3> QED
      BY <1>2, <1>7, <2>1, <2>2, <2>5, <3>1, ResetType DEF StreamClosing, TypeInv, TypeOK
  <2>4. CASE req.error # "stream"
    BY <1>2, <1>7, <2>1, <2>2, <2>4, <2>5 DEF StreamClosing, TypeInv, TypeOK
  <2> QED
    BY <2>3, <2>4
<1>8. CASE StreamClosed
  BY <1>2, <1>8 DEF StreamClosed, ConnectionReq, TypeInv, TypeOK
<1>9. CASE DropWindowRequest
  <2>1. pending_window_req # << >>
    BY <1>9 DEF DropWindowRequest, TypeInv
  <2>2. pending_window_req' \in Seq([id : StreamIds, amount : Int])
    BY <1>9, <2>1 DEF DropWindowRequest, TypeInv, TypeOK
  <2> QED
    BY <1>9, <2>2 DEF DropWindowRequest, TypeInv, TypeOK
<1>10. CASE GiveWindow
  <2>1. global_window \in Int /\ global_window > 0 /\ pending_window_req # << >>
    BY <1>10 DEF GiveWindow, TypeInv, TypeOK
  <2>2. Asked \in [id : StreamIds, amount : Int]
    BY <2>1, HeadTail DEF Asked, TypeInv, TypeOK
  <2>6. Asked.amount > 0
    BY <1>10 DEF GiveWindow
  <2>3. Given \in Nat /\ Given \in Int
    BY <2>1, <2>2, <2>6 DEF Given
  <2>4. CASE Alive(streams[Asked.id])
    <3>1. [kind |-> "AvailableWindow", amount |-> Given] \in StreamReq
      BY <2>3 DEF StreamReq
    <3>2. rx' \in [Tasks -> Seq(StreamReq)]
      BY <1>10, <2>4, <3>1, TellType DEF GiveWindow
    <3>3. global_window' \in Int
      BY <1>10, <2>1, <2>3, <2>4 DEF GiveWindow
    <3>4. pending_window_req' \in Seq([id : StreamIds, amount : Int])
      <4>1. pending_window_req \in Seq([id : StreamIds, amount : Int])
        BY DEF TypeInv, TypeOK
      <4>2. [pending_window_req EXCEPT ![1].amount = @ - Given]
                \in Seq([id : StreamIds, amount : Int])
        BY <2>1, <2>3, <4>1, PartlyGivenType
      <4>3. Tail(pending_window_req) \in Seq([id : StreamIds, amount : Int])
        BY <2>1, <4>1
      <4> QED
        BY <1>10, <2>4, <4>2, <4>3 DEF GiveWindow
    <3>5. distributing' \in BOOLEAN /\ (distributing' =>
              global_window' > 0 /\ pending_window_req' # << >>)
      BY <1>10, <2>4 DEF GiveWindow
    <3> QED
      BY <1>10, <2>4, <3>2, <3>3, <3>4, <3>5 DEF GiveWindow, TypeInv, TypeOK
  <2>5. CASE ~Alive(streams[Asked.id])
    BY <1>10, <2>5 DEF GiveWindow, TypeInv, TypeOK, Exits
  <2> QED
    BY <2>4, <2>5
<1> QED
  BY <1>1, <1>3, <1>4, <1>5, <1>6, <1>7, <1>8, <1>9, <1>10, <1>11, <1>12
      DEF Streams, DistributeWindow

\* A step of a stream task keeps the types.
LEMMA StreamTaskType ==
    ASSUME ConstantsAssumption, TypeInv, NEW t \in Tasks, StreamTask(t)
    PROVE  TypeInv'
<1> DEFINE T == task[t]
<1>1. T \in Task /\ (T.at # "unused" => T.id \in StreamIds)
  BY DEF TypeInv, TypeOK
<1>2. \A req \in ConnectionReq : Append(conn_rx, req) \in Seq(ConnectionReq)
  BY DEF TypeInv, TypeOK
\* All that is left to show of an action: the new state of its task, and what it
\* sends.
<1>3. ASSUME TaskStep, T.at # "unused", rx' \in [Tasks -> Seq(StreamReq)],
             NEW r \in Task, task' = [task EXCEPT ![t] = r], r.id = T.id,
             \/ conn_rx' = conn_rx
             \/ \E req \in ConnectionReq : conn_rx' = Append(conn_rx, req)
      PROVE  TypeInv'
  <2>1. task' \in [Tasks -> Task]
    BY <1>3, TaskType
  <2>2. conn_rx' \in Seq(ConnectionReq)
    BY <1>2, <1>3 DEF TypeInv, TypeOK
  <2>3. \A u \in Tasks : task'[u].at # "unused" => task'[u].id \in StreamIds
    BY <1>1, <1>3 DEF TypeInv, TypeOK
  <2> QED
    BY <1>3, <2>1, <2>2, <2>3 DEF TaskStep, TypeInv, TypeOK, loopVars, windowVars,
       streamVars, shutdownVars, peerVars, wireVars, Running
<1>4. rx \in [Tasks -> Seq(StreamReq)]
  BY DEF TypeInv, TypeOK
<1>5. CASE SendResponse(t)
  <2>1. PICK size \in 0..MaxBody, no_body \in BOOLEAN :
            /\ conn_rx' = Append(conn_rx, Request("Response", t, 0, no_body))
            /\ task' = [task EXCEPT ![t].at = IF no_body THEN "closing" ELSE "reading",
                                    ![t].body = size]
    BY <1>5 DEF SendResponse, Send
  <2> DEFINE r == [T EXCEPT !.at = IF no_body THEN "closing" ELSE "reading", !.body = size]
  <2>2. size \in Nat
    BY DEF ConstantsAssumption
  <2>3. r \in Task /\ r.id = T.id
    BY <1>1, <2>2 DEF Task, Places
  <2>4. task' = [task EXCEPT ![t] = r]
    BY <2>1
  <2>5. T.at # "unused"
    BY <1>5 DEF SendResponse
  <2>6. Request("Response", t, 0, no_body) \in ConnectionReq
    BY <2>5, RequestType
  <2> QED
    BY <1>3, <1>4, <1>5, <2>1, <2>3, <2>4, <2>5, <2>6 DEF SendResponse
<1>6. CASE ReadChunk(t)
  <2>1. PICK n \in 1..MaxChunk :
            /\ n <= T.body
            /\ task' = [task EXCEPT ![t].at = "sending", ![t].body = @ - n,
                                    ![t].left = n, ![t].window_needed = n]
    BY <1>6 DEF ReadChunk
  <2>2. n \in Nat /\ T.body \in Nat
    BY <1>1 DEF ConstantsAssumption, Task
  <2>3. T.body - n \in Nat
    BY <2>1, <2>2
  <2> DEFINE r == [T EXCEPT !.at = "sending", !.body = T.body - n, !.left = n,
                            !.window_needed = n]
  <2>4. r \in Task /\ r.id = T.id
    BY <1>1, <2>2, <2>3 DEF Task, Places
  <2>5. task' = [task EXCEPT ![t] = r]
    BY <2>1
  <2> QED
    BY <1>3, <1>4, <1>6, <2>4, <2>5 DEF ReadChunk
<1>7. CASE ReadFails(t)
  <2> DEFINE r == [T EXCEPT !.at = "closing", !.error = "stream"]
  <2>1. r \in Task /\ r.id = T.id
    BY <1>1 DEF Task, Places, Errors
  <2>2. task' = [task EXCEPT ![t] = r]
    BY <1>7 DEF ReadFails
  <2> QED
    BY <1>3, <1>4, <1>7, <2>1, <2>2 DEF ReadFails
<1>8. CASE EndBody(t)
  <2> DEFINE r == [T EXCEPT !.at = "closing"]
  <2>1. r \in Task /\ r.id = T.id
    BY <1>1 DEF Task, Places
  <2>2. task' = [task EXCEPT ![t] = r]
    BY <1>8 DEF EndBody
  <2>4. T.at # "unused"
    BY <1>8 DEF EndBody
  <2>3. Request("Frame", t, 0, TRUE) \in ConnectionReq
    BY <2>4, RequestType
  <2> QED
    BY <1>3, <1>4, <1>8, <2>1, <2>2, <2>3 DEF EndBody, Send
<1>9. CASE RequestWindow(t)
  <2>1. /\ T.window \in Int /\ T.window > 0
        /\ T.window_needed \in Nat /\ T.window_needed > 0
    BY <1>1, <1>9 DEF RequestWindow, CanRequest, Task
  <2>2. /\ AskFor(t) \in Nat /\ AskFor(t) <= T.window_needed
        /\ T.window - AskFor(t) \in Int
        /\ T.window_needed - AskFor(t) \in Nat
    BY <2>1 DEF AskFor
  <2> DEFINE r == [T EXCEPT !.window = T.window - AskFor(t),
                            !.window_needed = T.window_needed - AskFor(t)]
  <2>3. r \in Task /\ r.id = T.id
    BY <1>1, <2>2 DEF Task
  <2>4. task' = [task EXCEPT ![t] = r]
    BY <1>9 DEF RequestWindow
  <2>5. Request("GetWindow", t, AskFor(t), FALSE) \in ConnectionReq
    BY <1>9, <2>2, RequestType DEF RequestWindow
  <2> QED
    BY <1>3, <1>4, <1>9, <2>3, <2>4, <2>5 DEF RequestWindow, Send
<1>10. CASE SendData(t)
  <2> DEFINE amount == IF T.available_window > T.left THEN T.left ELSE T.available_window
             r == [T EXCEPT !.available_window = T.available_window - amount,
                            !.left = T.left - amount,
                            !.at = IF T.left = amount THEN "reading" ELSE "sending"]
  <2>1. T.available_window \in Nat /\ T.left \in Nat
    BY <1>1 DEF Task
  <2>2. /\ amount \in Nat /\ T.available_window - amount \in Nat
        /\ T.left - amount \in Nat
    BY <2>1
  <2> HIDE DEF amount
  <2>3. r \in Task /\ r.id = T.id
    BY <1>1, <2>2 DEF Task, Places
  <2>4. task' = [task EXCEPT ![t] = r]
    BY <1>10 DEF SendData, Spent, amount
  <2>5. Request("Frame", t, amount, FALSE) \in ConnectionReq
    BY <1>10, <2>2, RequestType DEF SendData
  <2>6. conn_rx' = Append(conn_rx, Request("Frame", t, amount, FALSE))
    BY <1>10 DEF SendData, Send, amount
  <2> QED
    BY <1>3, <1>4, <1>10, <2>3, <2>4, <2>5, <2>6 DEF SendData
<1>11. CASE Receive(t)
  <2> DEFINE req == Head(rx[t])
             got == T.available_window + req.amount
             win == T.window + req.amount
  <2>1. /\ rx[t] \in Seq(StreamReq) /\ rx[t] # << >>
        /\ rx' = [rx EXCEPT ![t] = Tail(@)]
    BY <1>4, <1>11 DEF Receive
  <2>2. req \in StreamReq /\ Tail(rx[t]) \in Seq(StreamReq)
    BY <2>1, HeadTail
  <2>3. rx' \in [Tasks -> Seq(StreamReq)]
    BY <1>4, <2>1, <2>2
  <2>4. /\ TaskStep /\ conn_rx' = conn_rx
        /\ T.at # "unused"
    BY <1>11 DEF Receive, WaitsForWindow
  <2>5. CASE req.kind = "AvailableWindow" /\ InI32(got)
    <3> DEFINE r == [T EXCEPT !.available_window = got]
    <3>1. req.amount \in Nat /\ T.available_window \in Nat
      BY <1>1, <2>2, <2>5 DEF StreamReq, Task
    <3>2. got \in Nat
      BY <3>1
    <3>3. task' = [task EXCEPT ![t] = r]
      BY <1>11, <2>5 DEF Receive
    <3> HIDE DEF got
    <3>4. r \in Task /\ r.id = T.id
      BY <1>1, <3>2 DEF Task
    <3> QED
      BY <1>3, <2>3, <2>4, <3>3, <3>4
  <2>6. CASE req.kind = "WindowUpdate" /\ InI32(win)
    <3> DEFINE r == [T EXCEPT !.window = win]
    <3>1. req.amount \in Int /\ T.window \in Int
      BY <1>1, <2>2, <2>6 DEF StreamReq, Task
    <3>2. win \in Int
      BY <3>1
    <3>3. task' = [task EXCEPT ![t] = r]
      BY <1>11, <2>6 DEF Receive
    <3> HIDE DEF win
    <3>4. r \in Task /\ r.id = T.id
      BY <1>1, <3>2 DEF Task
    <3> QED
      BY <1>3, <2>3, <2>4, <3>3, <3>4
  <2>7. CASE /\ ~(req.kind = "AvailableWindow" /\ InI32(got))
             /\ ~(req.kind = "WindowUpdate" /\ InI32(win))
    <3> DEFINE r(error) == [T EXCEPT !.at = "closing", !.error = error]
    <3>1. \A error \in Errors : r(error) \in Task /\ r(error).id = T.id
      BY <1>1 DEF Task, Places
    <3>2. \E error \in Errors : task' = [task EXCEPT ![t] = r(error)]
      BY <1>11, <2>7 DEF Receive, Errors
    <3> QED
      BY <1>3, <2>3, <2>4, <3>1, <3>2
  <2> QED
    BY <2>5, <2>6, <2>7
<1>12. CASE GiveBack(t)
  <2> DEFINE r == [T EXCEPT !.available_window = 0]
  <2>1. r \in Task /\ r.id = T.id
    BY <1>1 DEF Task
  <2>2. task' = [task EXCEPT ![t] = r]
    BY <1>12 DEF GiveBack
  <2>3. T.available_window \in Nat
    BY <1>1 DEF Task
  <2>4. Request("PutWindow", t, T.available_window, FALSE) \in ConnectionReq
    BY <1>12, <2>3, RequestType DEF GiveBack
  <2> QED
    BY <1>3, <1>4, <1>12, <2>1, <2>2, <2>4 DEF GiveBack, Send
<1>13. CASE SendClosing(t)
  <2> DEFINE r == [T EXCEPT !.at = "announced"]
  <2>1. r \in Task /\ r.id = T.id
    BY <1>1 DEF Task, Places
  <2>2. task' = [task EXCEPT ![t] = r]
    BY <1>13 DEF SendClosing
  <2>3. Request("StreamClosing", t, 0, FALSE) \in ConnectionReq
    BY <1>13, RequestType DEF SendClosing
  <2> QED
    BY <1>3, <1>4, <1>13, <2>1, <2>2, <2>3 DEF SendClosing, Send
<1>14. CASE SendClosed(t)
  <2> DEFINE r == [T EXCEPT !.at = "exited"]
  <2>1. r \in Task /\ r.id = T.id
    BY <1>1 DEF Task, Places
  <2>2. task' = [task EXCEPT ![t] = r]
    BY <1>14 DEF SendClosed
  <2>3. Request("StreamClosed", t, 0, FALSE) \in ConnectionReq
    BY <1>14, RequestType DEF SendClosed
  <2> QED
    BY <1>3, <1>4, <1>14, <2>1, <2>2, <2>3 DEF SendClosed, Send
<1>15. CASE SendFails(t)
  <2> DEFINE r == [T EXCEPT !.at = "exited"]
  <2>1. r \in Task /\ r.id = T.id
    BY <1>1 DEF Task, Places
  <2>2. task' = [task EXCEPT ![t] = r]
    BY <1>15 DEF SendFails
  <2> QED
    BY <1>3, <1>4, <1>15, <2>1, <2>2 DEF SendFails
<1> QED
  BY <1>5, <1>6, <1>7, <1>8, <1>9, <1>10, <1>11, <1>12, <1>13, <1>14, <1>15 DEF StreamTask

-----------------------------------------------------------------------------

\* Every step keeps the types.
LEMMA TypeStep ==
    ASSUME ConstantsAssumption, TypeInv, [Next]_vars
    PROVE  TypeInv'
<1>1. CASE UNCHANGED vars
  BY <1>1 DEF vars, loopVars, windowVars, streamVars, shutdownVars, taskVars, peerVars,
     wireVars, TypeInv, TypeOK, Running
<1> QED
  BY <1>1, PeerType, ConnectionType, StreamTaskType DEF Next

\* The type of every variable, for all constants.
THEOREM TypeCorrect == Spec => []TypeOK
<1>1. Init => TypeInv
  BY ConstantsAssumption, InitType
<1>2. TypeInv /\ [Next]_vars => TypeInv'
  BY ConstantsAssumption, TypeStep
<1>3. TypeInv => TypeOK
  BY DEF TypeInv
<1> QED
  BY <1>1, <1>2, <1>3, PTL DEF Spec

-----------------------------------------------------------------------------

Closes(req, t) == req.kind = "StreamClosing" /\ req.from = t

\* OpenStreamsExact is inductive with the reason why no stream is counted down
\* twice: a task announces its end once, and only when it is done.
CountInv ==
    /\ OpenStreamsExact
    /\ Running => open_streams <= MaxConcurrent
    /\ Running => \A t \in Tasks :
           Working(t) \/ task[t].at = "unused" => ~InQueue("StreamClosing", t)
    /\ Running => \A t \in Tasks, i, j \in DOMAIN conn_rx :
           Closes(conn_rx[i], t) /\ Closes(conn_rx[j], t) => i = j

\* A request is sent: the announcements are the ones before and, perhaps, it.
LEMMA AppendClosing ==
    ASSUME NEW S, NEW s \in Seq(S), NEW req \in S, NEW t
    PROVE  LET q == Append(s, req) IN
           /\ (\E i \in DOMAIN q : Closes(q[i], t))
                  <=> (\E i \in DOMAIN s : Closes(s[i], t)) \/ Closes(req, t)
           /\ /\ \A i, j \in DOMAIN s : Closes(s[i], t) /\ Closes(s[j], t) => i = j
              /\ Closes(req, t) => \A i \in DOMAIN s : ~Closes(s[i], t)
              => \A i, j \in DOMAIN q : Closes(q[i], t) /\ Closes(q[j], t) => i = j
<1> DEFINE q == Append(s, req)
<1>1. /\ DOMAIN q = 1..(Len(s) + 1) /\ DOMAIN s = 1..Len(s) /\ Len(s) \in Nat
      /\ \A i \in 1..Len(s) : q[i] = s[i]
      /\ q[Len(s) + 1] = req
  OBVIOUS
<1> HIDE DEF q
<1>2. \A i \in DOMAIN q : i \in DOMAIN s \/ i = Len(s) + 1
  BY <1>1
<1>3. DOMAIN s \subseteq DOMAIN q /\ Len(s) + 1 \in DOMAIN q /\ Len(s) + 1 \notin DOMAIN s
  BY <1>1
<1>4. \A i \in DOMAIN s : q[i] = s[i]
  BY <1>1
<1> QED
  BY <1>1, <1>2, <1>3, <1>4 DEF q

\* The first request is taken: what is announced but by it is so still.
LEMMA TailClosing ==
    ASSUME NEW S, NEW s \in Seq(S), s # << >>, NEW t
    PROVE  LET q == Tail(s) IN
           /\ ~Closes(Head(s), t) =>
                  ((\E i \in DOMAIN q : Closes(q[i], t))
                      <=> (\E i \in DOMAIN s : Closes(s[i], t)))
           /\ (\A i, j \in DOMAIN s : Closes(s[i], t) /\ Closes(s[j], t) => i = j)
              => /\ \A i, j \in DOMAIN q : Closes(q[i], t) /\ Closes(q[j], t) => i = j
                 /\ Closes(Head(s), t) => \A i \in DOMAIN q : ~Closes(q[i], t)
<1> DEFINE q == Tail(s)
<1>1. /\ DOMAIN q = 1..(Len(s) - 1) /\ DOMAIN s = 1..Len(s) /\ Len(s) \in Nat /\ Len(s) > 0
      /\ \A i \in 1..(Len(s) - 1) : q[i] = s[i + 1]
      /\ Head(s) = s[1]
  OBVIOUS
<1> HIDE DEF q
<1>2. \A i \in DOMAIN q : i \in Nat /\ i + 1 \in DOMAIN s /\ q[i] = s[i + 1] /\ i + 1 # 1
  BY <1>1
<1>3. \A i \in DOMAIN s : i = 1 \/ (i - 1 \in DOMAIN q /\ q[i - 1] = s[i])
  BY <1>1
<1>4. 1 \in DOMAIN s
  BY <1>1
<1>5. ASSUME ~Closes(Head(s), t)
      PROVE  (\E i \in DOMAIN q : Closes(q[i], t)) <=> (\E i \in DOMAIN s : Closes(s[i], t))
  BY <1>1, <1>2, <1>3, <1>5
<1>6. ASSUME \A i, j \in DOMAIN s : Closes(s[i], t) /\ Closes(s[j], t) => i = j
      PROVE  /\ \A i, j \in DOMAIN q : Closes(q[i], t) /\ Closes(q[j], t) => i = j
             /\ Closes(Head(s), t) => \A i \in DOMAIN q : ~Closes(q[i], t)
  <2>1. \A i, j \in DOMAIN q : Closes(q[i], t) /\ Closes(q[j], t) => i + 1 = j + 1
    BY <1>2, <1>6
  <2>2. \A i, j \in DOMAIN q : i + 1 = j + 1 => i = j
    BY <1>2
  <2>3. Closes(Head(s), t) => \A i \in DOMAIN q : ~Closes(q[i], t)
    BY <1>1, <1>2, <1>4, <1>6
  <2> QED
    BY <2>1, <2>2, <2>3
<1> QED
  BY <1>5, <1>6 DEF q

\* A step that neither counts a stream nor announces the end of one.
LEMMA QuietCount ==
    ASSUME TypeInv, CountInv, exit' # "underflow", Running' => Running,
           Running' => open_streams' = open_streams,
           Running' => \A t \in Tasks : /\ Working(t)' = Working(t)
                                        /\ (task[t].at = "unused")' = (task[t].at = "unused"),
           Running' => \/ conn_rx' = conn_rx
                       \/ /\ conn_rx # << >> /\ Head(conn_rx).kind # "StreamClosing"
                          /\ conn_rx' = Tail(conn_rx)
                       \/ \E req \in ConnectionReq : /\ req.kind # "StreamClosing"
                                                     /\ conn_rx' = Append(conn_rx, req)
    PROVE  CountInv'
<1>1. CASE ~Running'
  BY <1>1 DEF CountInv, OpenStreamsExact
<1>2. CASE Running'
  <2>1. Running /\ conn_rx \in Seq(ConnectionReq)
    BY <1>2 DEF TypeInv, TypeOK
  <2> DEFINE queued(t) == \E i \in DOMAIN conn_rx : Closes(conn_rx[i], t)
             once(t) == \A i, j \in DOMAIN conn_rx :
                            Closes(conn_rx[i], t) /\ Closes(conn_rx[j], t) => i = j
  <2>2. ASSUME NEW t \in Tasks
        PROVE  queued(t)' = queued(t) /\ (once(t) => once(t)')
    <3>1. CASE conn_rx' = conn_rx
      BY <3>1
    <3>2. CASE /\ conn_rx # << >> /\ Head(conn_rx).kind # "StreamClosing"
               /\ conn_rx' = Tail(conn_rx)
      <4>1. ~Closes(Head(conn_rx), t)
        BY <3>2 DEF Closes
      <4>2. /\ (\E i \in DOMAIN Tail(conn_rx) : Closes(Tail(conn_rx)[i], t)) = queued(t)
            /\ once(t) => \A i, j \in DOMAIN Tail(conn_rx) :
                   Closes(Tail(conn_rx)[i], t) /\ Closes(Tail(conn_rx)[j], t) => i = j
        BY <2>1, <3>2, <4>1, TailClosing
      <4> QED
        BY <3>2, <4>2 DEF Closes
    <3>3. ASSUME NEW req \in ConnectionReq, req.kind # "StreamClosing",
                 conn_rx' = Append(conn_rx, req)
          PROVE  queued(t)' = queued(t) /\ (once(t) => once(t)')
      <4>1. ~Closes(req, t)
        BY <3>3 DEF Closes
      <4> DEFINE q == Append(conn_rx, req)
      <4>2. /\ (\E i \in DOMAIN q : Closes(q[i], t)) = queued(t)
            /\ once(t) => \A i, j \in DOMAIN q : Closes(q[i], t) /\ Closes(q[j], t) => i = j
        BY <2>1, <4>1, AppendClosing
      <4> QED
        BY <3>3, <4>2 DEF Closes
    <3> QED
      BY <1>2, <3>1, <3>2, <3>3
  <2>3. \A t \in Tasks : InQueue("StreamClosing", t) = queued(t)
    BY DEF InQueue, Closes
  <2>4. \A t \in Tasks : InQueue("StreamClosing", t)' = queued(t)'
    BY DEF InQueue, Closes
  <2>5. OpenStreams' = OpenStreams
    BY <1>2, <2>2, <2>3, <2>4 DEF OpenStreams
  <2>6. OpenStreamsExact' /\ (open_streams <= MaxConcurrent)'
    BY <1>2, <2>1, <2>5 DEF CountInv, OpenStreamsExact
  <2>7. \A t \in Tasks : (Working(t) \/ task[t].at = "unused" => ~InQueue("StreamClosing", t))'
    BY <1>2, <2>1, <2>2, <2>3, <2>4 DEF CountInv
  <2>8. \A t \in Tasks : once(t)'
    BY <2>1, <2>2 DEF CountInv
  <2> QED
    BY <1>2, <2>6, <2>7, <2>8 DEF CountInv
<1> QED
  BY <1>1, <1>2

\* No stream is counted at the start.
LEMMA InitCount == ASSUME ConstantsAssumption, Init PROVE CountInv
<1>1. OpenStreams = {}
  BY DEF Init, OpenStreams, Working, InQueue
<1>2. Cardinality(OpenStreams) = 0
  BY <1>1, FS_EmptySet
<1> QED
  BY <1>2 DEF ConstantsAssumption, Init, CountInv, OpenStreamsExact, Running, InQueue

\* The streams are finitely many, so that counting them adds up.
LEMMA OpenStreamsFinite ==
    ASSUME ConstantsAssumption
    PROVE  IsFiniteSet(OpenStreams)
<1>1. OpenStreams \subseteq Tasks /\ IsFiniteSet(Tasks)
  BY DEF OpenStreams, ConstantsAssumption
<1> QED
  BY <1>1, FS_Subset

\* An accepted request is one more stream, within the limit.
LEMMA RequestCount ==
    ASSUME ConstantsAssumption, TypeInv, CountInv,
           NEW id \in StreamIds, NEW kind \in PeerSends, NEW t \in Tasks,
           RecvRequest(id, kind, t)
    PROVE  CountInv'
<1>1. /\ Running /\ exit' = exit /\ conn_rx' = conn_rx /\ task[t].at = "unused"
      /\ open_streams' = open_streams + 1
      /\ task' = [task EXCEPT ![t].at = "handling", ![t].id = id,
                              ![t].window = initial_window_size]
  BY DEF RecvRequest, loopVars, Selecting
<1>2. open_streams < MaxConcurrent
  BY DEF RecvRequest, MustRefuse, TypeInv, TypeOK, ConstantsAssumption
<1>3. /\ task'[t].at = "handling"
      /\ \A u \in Tasks \ {t} : task'[u] = task[u]
  BY <1>1 DEF TypeInv, TypeOK
<1>4. \A u \in Tasks : InQueue("StreamClosing", u)' = InQueue("StreamClosing", u)
  BY <1>1 DEF InQueue
<1>5. ~Working(t) /\ ~InQueue("StreamClosing", t)
  BY <1>1 DEF Working, CountInv
<1>6. t \notin OpenStreams /\ OpenStreams' = OpenStreams \cup {t}
  BY <1>3, <1>4, <1>5 DEF OpenStreams, Working
<1>7. Cardinality(OpenStreams') = Cardinality(OpenStreams) + 1
  BY <1>6, OpenStreamsFinite, FS_AddElement
<1>8. OpenStreamsExact' /\ (open_streams <= MaxConcurrent)'
  BY <1>1, <1>2, <1>7 DEF CountInv, OpenStreamsExact, TypeInv, TypeOK, ConstantsAssumption
<1>9. \A u \in Tasks : (Working(u) \/ task[u].at = "unused" => ~InQueue("StreamClosing", u))'
  BY <1>1, <1>3, <1>4, <1>5 DEF CountInv, Working
<1>10. \A u \in Tasks, i, j \in DOMAIN conn_rx' :
           Closes(conn_rx'[i], u) /\ Closes(conn_rx'[j], u) => i = j
  BY <1>1 DEF CountInv
<1> QED
  BY <1>8, <1>9, <1>10 DEF CountInv, Closes

\* The end of a stream is announced once.
LEMMA AnnounceCount ==
    ASSUME ConstantsAssumption, TypeInv, CountInv, NEW t \in Tasks, SendClosing(t)
    PROVE  CountInv'
<1> DEFINE req == Request("StreamClosing", t, 0, FALSE)
           q == Append(conn_rx, req)
<1>1. /\ Running /\ exit' = exit /\ open_streams' = open_streams /\ conn_rx' = q
      /\ task[t].at = "closing" /\ task' = [task EXCEPT ![t].at = "announced"]
  BY DEF SendClosing, Send, TaskStep, loopVars, streamVars
<1>2. req \in ConnectionReq /\ conn_rx \in Seq(ConnectionReq)
  <2>1. task[t].at # "unused"
    BY <1>1
  <2> QED
    BY <2>1, RequestType DEF TypeInv, TypeOK
<1>3. \A u \in Tasks : Closes(req, u) <=> u = t
  BY DEF Closes, Request
<1>4. task'[t].at = "announced" /\ \A u \in Tasks \ {t} : task'[u] = task[u]
  BY <1>1 DEF TypeInv, TypeOK
<1>5. Working(t) /\ ~InQueue("StreamClosing", t)
  BY <1>1 DEF Working, CountInv
<1> HIDE DEF req
<1>6. ASSUME NEW u \in Tasks
      PROVE  /\ (\E i \in DOMAIN q : Closes(q[i], u))
                    <=> (\E i \in DOMAIN conn_rx : Closes(conn_rx[i], u)) \/ Closes(req, u)
             /\ \A i, j \in DOMAIN q : Closes(q[i], u) /\ Closes(q[j], u) => i = j
  <2>1. \A i, j \in DOMAIN conn_rx : Closes(conn_rx[i], u) /\ Closes(conn_rx[j], u) => i = j
    BY <1>1 DEF CountInv
  <2>2. Closes(req, u) => \A i \in DOMAIN conn_rx : ~Closes(conn_rx[i], u)
    BY <1>3, <1>5 DEF InQueue, Closes
  <2> QED
    BY <1>2, <2>1, <2>2, AppendClosing
<1>7. \A u \in Tasks : InQueue("StreamClosing", u)' <=> InQueue("StreamClosing", u) \/ u = t
  BY <1>1, <1>3, <1>6 DEF InQueue, Closes
<1>8. OpenStreams' = OpenStreams
  BY <1>4, <1>5, <1>7 DEF OpenStreams, Working
<1>9. OpenStreamsExact' /\ (open_streams <= MaxConcurrent)'
  BY <1>1, <1>8 DEF CountInv, OpenStreamsExact
<1>10. \A u \in Tasks : (Working(u) \/ task[u].at = "unused" => ~InQueue("StreamClosing", u))'
  BY <1>1, <1>4, <1>7 DEF CountInv, Working
<1>11. \A u \in Tasks, i, j \in DOMAIN conn_rx' :
           Closes(conn_rx'[i], u) /\ Closes(conn_rx'[j], u) => i = j
  BY <1>1, <1>6
<1> QED
  BY <1>9, <1>10, <1>11 DEF CountInv, Closes

\* Handling the announcement counts down by the stream it is about.
LEMMA ClosingCount ==
    ASSUME ConstantsAssumption, TypeInv, CountInv, StreamClosing
    PROVE  CountInv'
<1> DEFINE t == Head(conn_rx).from
           q == Tail(conn_rx)
<1>1. /\ Running /\ conn_rx # << >> /\ Head(conn_rx).kind = "StreamClosing"
      /\ conn_rx' = q /\ task' = task
  BY DEF StreamClosing, Take, Selecting
<1>2. /\ conn_rx \in Seq(ConnectionReq) /\ Head(conn_rx) \in ConnectionReq
      /\ t \in Tasks
  <2>1. conn_rx \in Seq(ConnectionReq)
    BY DEF TypeInv, TypeOK
  <2>2. Head(conn_rx) \in ConnectionReq
    BY <1>1, <2>1, HeadTail
  <2> QED
    BY <2>1, <2>2 DEF ConnectionReq
<1>3. \A u \in Tasks : Closes(Head(conn_rx), u) <=> u = t
  BY <1>1 DEF Closes
<1>4. InQueue("StreamClosing", t)
  <2>1. 1 \in DOMAIN conn_rx /\ Head(conn_rx) = conn_rx[1]
    BY <1>1, <1>2
  <2> QED
    BY <1>1, <2>1 DEF InQueue
<1>5. t \in OpenStreams /\ ~Working(t)
  BY <1>1, <1>2, <1>4 DEF OpenStreams, CountInv
<1> HIDE DEF t
<1>6. ASSUME NEW u \in Tasks
      PROVE  /\ InQueue("StreamClosing", u)' <=> InQueue("StreamClosing", u) /\ u # t
             /\ \A i, j \in DOMAIN q : Closes(q[i], u) /\ Closes(q[j], u) => i = j
  <2>1. \A i, j \in DOMAIN conn_rx : Closes(conn_rx[i], u) /\ Closes(conn_rx[j], u) => i = j
    BY <1>1 DEF CountInv
  <2>2. /\ u # t => ((\E i \in DOMAIN q : Closes(q[i], u))
                          <=> (\E i \in DOMAIN conn_rx : Closes(conn_rx[i], u)))
        /\ \A i, j \in DOMAIN q : Closes(q[i], u) /\ Closes(q[j], u) => i = j
        /\ u = t => \A i \in DOMAIN q : ~Closes(q[i], u)
    BY <1>1, <1>2, <1>3, <2>1, TailClosing
  <2> QED
    BY <1>1, <2>2 DEF InQueue, Closes
<1>7. OpenStreams' = OpenStreams \ {t}
  BY <1>1, <1>5, <1>6 DEF OpenStreams, Working
<1>8. /\ Cardinality(OpenStreams') = Cardinality(OpenStreams) - 1
      /\ Cardinality(OpenStreams) \in Nat /\ open_streams = Cardinality(OpenStreams)
      /\ open_streams > 0
  <2>1. Cardinality(OpenStreams \ {t}) = Cardinality(OpenStreams) - 1
    BY <1>5, OpenStreamsFinite, FS_RemoveElement
  <2>2. Cardinality(OpenStreams) \in Nat /\ Cardinality(OpenStreams) # 0
    BY <1>5, OpenStreamsFinite, FS_CardinalityType, FS_EmptySet
  <2> QED
    BY <1>1, <1>7, <2>1, <2>2 DEF CountInv, OpenStreamsExact
<1>9. /\ exit' # "underflow"
      /\ Running' => open_streams' = open_streams - 1
  <2>1. CASE Head(conn_rx).error = "connection"
    BY <2>1 DEF StreamClosing, Close, Running
  <2>2. CASE Head(conn_rx).error # "connection"
    <3>1. Uncount(Head(conn_rx).error = "stream")
      BY <2>2 DEF StreamClosing
    <3> QED
      BY <1>1, <1>8, <3>1 DEF Uncount, Close, Running
  <2> QED
    BY <2>1, <2>2
<1>10. OpenStreamsExact' /\ (Running => open_streams <= MaxConcurrent)'
  BY <1>1, <1>7, <1>8, <1>9 DEF CountInv, OpenStreamsExact, ConstantsAssumption
<1>11. \A u \in Tasks : (Working(u) \/ task[u].at = "unused" => ~InQueue("StreamClosing", u))'
  BY <1>1, <1>6 DEF CountInv, Working
<1>12. \A u \in Tasks, i, j \in DOMAIN conn_rx' :
           Closes(conn_rx'[i], u) /\ Closes(conn_rx'[j], u) => i = j
  BY <1>1, <1>6
<1> QED
  BY <1>10, <1>11, <1>12 DEF CountInv, Closes

\* A step of a stream task but SendClosing neither opens nor closes a stream.
LEMMA StreamTaskCount ==
    ASSUME ConstantsAssumption, TypeInv, CountInv, NEW t \in Tasks, StreamTask(t)
    PROVE  CountInv'
<1>1. ASSUME TaskStep,
             Running => task'[t].at # "unused" /\ task[t].at # "unused",
             Running => (Working(t)' = Working(t)),
             \A u \in Tasks \ {t} : task'[u] = task[u],
             \/ conn_rx' = conn_rx
             \/ \E req \in ConnectionReq : /\ req.kind # "StreamClosing"
                                           /\ conn_rx' = Append(conn_rx, req)
      PROVE  CountInv'
  <2>1. exit' = exit /\ open_streams' = open_streams
    BY <1>1 DEF TaskStep, loopVars, streamVars
  <2>2. Running' = Running /\ exit' # "underflow"
    BY <2>1 DEF Running, CountInv, OpenStreamsExact
  <2>3. Running' => \A u \in Tasks : /\ Working(u)' = Working(u)
                                     /\ (task[u].at = "unused")' = (task[u].at = "unused")
    BY <1>1, <2>2 DEF Working
  <2> QED
    BY <1>1, <2>1, <2>2, <2>3, QuietCount
<1>2. task \in [Tasks -> Task]
  BY DEF TypeInv, TypeOK
<1>3. ASSUME task[t].at # "unused"
      PROVE  \A kind \in {"Response", "Frame", "GetWindow", "PutWindow", "StreamClosed"},
                amount \in Nat, b \in BOOLEAN :
                 /\ Request(kind, t, amount, b) \in ConnectionReq
                 /\ Request(kind, t, amount, b).kind # "StreamClosing"
  <2>1. ASSUME NEW kind \in {"Response", "Frame", "GetWindow", "PutWindow", "StreamClosed"},
               NEW amount \in Nat, NEW b \in BOOLEAN
        PROVE  /\ Request(kind, t, amount, b) \in ConnectionReq
               /\ Request(kind, t, amount, b).kind # "StreamClosing"
    BY <1>3, RequestType DEF Request
  <2> QED
    BY <2>1
<1>4. CASE SendResponse(t)
  <2>1. PICK no_body \in BOOLEAN :
            conn_rx' = Append(conn_rx, Request("Response", t, 0, no_body))
    BY <1>4 DEF SendResponse, Send
  <2>2. task[t].at = "handling" /\ task'[t].at \in {"closing", "reading"}
    BY <1>2, <1>4 DEF SendResponse
  <2>3. \A u \in Tasks \ {t} : task'[u] = task[u]
    BY <1>2, <1>4 DEF SendResponse
  <2>4. \E req \in ConnectionReq : /\ req.kind # "StreamClosing"
                                   /\ conn_rx' = Append(conn_rx, req)
    BY <1>3, <2>1, <2>2
  <2>5. Working(t) /\ Working(t)'
    BY <2>2 DEF Working
  <2> QED
    BY <1>1, <1>4, <2>2, <2>3, <2>4, <2>5 DEF SendResponse
<1>5. CASE ReadChunk(t)
  <2>1. /\ task[t].at = "reading" /\ task'[t].at = "sending"
        /\ \A u \in Tasks \ {t} : task'[u] = task[u]
    BY <1>2, <1>5 DEF ReadChunk
  <2>2. Working(t) /\ Working(t)'
    BY <2>1 DEF Working
  <2> QED
    BY <1>1, <1>5, <2>1, <2>2 DEF ReadChunk
<1>14. CASE ReadFails(t)
  <2>1. /\ task[t].at = "reading" /\ task'[t].at = "closing"
        /\ \A u \in Tasks \ {t} : task'[u] = task[u]
    BY <1>2, <1>14 DEF ReadFails
  <2>2. Working(t) /\ Working(t)'
    BY <2>1 DEF Working
  <2> QED
    BY <1>1, <1>14, <2>1, <2>2 DEF ReadFails
<1>6. CASE EndBody(t)
  <2>1. /\ task[t].at = "reading" /\ task'[t].at = "closing"
        /\ \A u \in Tasks \ {t} : task'[u] = task[u]
    BY <1>2, <1>6 DEF EndBody
  <2>2. \E req \in ConnectionReq : /\ req.kind # "StreamClosing"
                                   /\ conn_rx' = Append(conn_rx, req)
    <3>1. conn_rx' = Append(conn_rx, Request("Frame", t, 0, TRUE))
      BY <1>6 DEF EndBody, Send
    <3> QED
      BY <1>3, <2>1, <3>1
  <2> QED
    BY <1>1, <1>6, <2>1, <2>2 DEF EndBody, Working
<1>7. CASE RequestWindow(t)
  <2>1. /\ task[t].at = "sending" /\ task'[t].at = "sending"
        /\ \A u \in Tasks \ {t} : task'[u] = task[u]
    BY <1>2, <1>7 DEF RequestWindow
  <2>2. AskFor(t) \in Nat
    BY <1>2, <1>7 DEF RequestWindow, CanRequest, AskFor, Task
  <2>3. \E req \in ConnectionReq : /\ req.kind # "StreamClosing"
                                   /\ conn_rx' = Append(conn_rx, req)
    BY <1>3, <1>7, <2>1, <2>2 DEF RequestWindow, Send
  <2> QED
    BY <1>1, <1>7, <2>1, <2>3 DEF RequestWindow, Working
<1>8. CASE SendData(t)
  <2>1. /\ task[t].at = "sending" /\ task'[t].at \in {"sending", "reading"}
        /\ \A u \in Tasks \ {t} : task'[u] = task[u]
    BY <1>2, <1>8 DEF SendData
  <2> DEFINE amount == IF task[t].available_window > task[t].left
                       THEN task[t].left ELSE task[t].available_window
  <2>2. amount \in Nat
    BY <1>2 DEF Task
  <2>3. conn_rx' = Append(conn_rx, Request("Frame", t, amount, FALSE))
    BY <1>8 DEF SendData, Send
  <2> HIDE DEF amount
  <2>4. \E req \in ConnectionReq : /\ req.kind # "StreamClosing"
                                   /\ conn_rx' = Append(conn_rx, req)
    BY <1>3, <2>1, <2>2, <2>3
  <2>5. Working(t) /\ Working(t)'
    BY <2>1 DEF Working
  <2> QED
    BY <1>1, <1>8, <2>1, <2>4, <2>5 DEF SendData
<1>9. CASE Receive(t)
  <2>1. /\ task[t].at \in {"handling", "reading", "sending"}
        /\ task'[t].at = task[t].at \/ task'[t].at = "closing"
        /\ \A u \in Tasks \ {t} : task'[u] = task[u]
    BY <1>2, <1>9 DEF Receive, WaitsForWindow, Task
  <2>2. /\ Working(t) /\ Working(t)'
        /\ task[t].at # "unused" /\ task'[t].at # "unused"
    BY <2>1 DEF Working
  <2> QED
    BY <1>1, <1>9, <2>1, <2>2 DEF Receive
<1>10. CASE GiveBack(t)
  <2>1. /\ task[t].at = "closing" /\ task'[t].at = "closing"
        /\ \A u \in Tasks \ {t} : task'[u] = task[u]
    BY <1>2, <1>10 DEF GiveBack, Task
  <2>2. task[t].available_window \in Nat
    BY <1>2 DEF Task
  <2>3. \E req \in ConnectionReq : /\ req.kind # "StreamClosing"
                                   /\ conn_rx' = Append(conn_rx, req)
    BY <1>3, <1>10, <2>1, <2>2 DEF GiveBack, Send
  <2> QED
    BY <1>1, <1>10, <2>1, <2>3 DEF GiveBack, Working
<1>11. CASE SendClosing(t)
  BY <1>11, AnnounceCount
<1>12. CASE SendClosed(t)
  <2>1. /\ task[t].at = "announced" /\ task'[t].at = "exited"
        /\ \A u \in Tasks \ {t} : task'[u] = task[u]
    BY <1>2, <1>12 DEF SendClosed
  <2>2. \E req \in ConnectionReq : /\ req.kind # "StreamClosing"
                                   /\ conn_rx' = Append(conn_rx, req)
    BY <1>3, <1>12, <2>1 DEF SendClosed, Send
  <2> QED
    BY <1>1, <1>12, <2>1, <2>2 DEF SendClosed, Working
<1>13. CASE SendFails(t)
  <2>1. ~Running /\ \A u \in Tasks \ {t} : task'[u] = task[u]
    BY <1>2, <1>13 DEF SendFails
  <2> QED
    BY <1>1, <1>13, <2>1 DEF SendFails
<1> QED
  BY <1>4, <1>5, <1>6, <1>7, <1>8, <1>9, <1>10, <1>11, <1>12, <1>13,
     <1>14 DEF StreamTask

\* Nor does any other step of the connection task.
LEMMA ConnectionCount ==
    ASSUME ConstantsAssumption, TypeInv, CountInv,
           Peer \/ AnnounceShutdown \/ NoticeShutdown \/ FlushWriteBuffer
               \/ Streams \/ DistributeWindow
    PROVE  CountInv'
<1> USE DEF loopVars, windowVars, streamVars, shutdownVars, taskVars, peerVars,
            wireVars, Running, Selecting, Close, Leave, Take
<1>1. ASSUME exit' # "underflow", Running' => Running, task' = task,
             open_streams' = open_streams,
             \/ conn_rx' = conn_rx
             \/ /\ conn_rx # << >> /\ Head(conn_rx).kind # "StreamClosing"
                /\ conn_rx' = Tail(conn_rx)
      PROVE  CountInv'
  BY <1>1, QuietCount DEF Working
<1>2. exit # "underflow"
  BY DEF CountInv, OpenStreamsExact
<1>3. CASE Peer
  <2>1. ASSUME NEW id \in StreamIds, NEW kind \in PeerSends,
               RecvIllegalHeaders(id, kind) \/ RecvRejectedHeaders(id, kind)
        PROVE  CountInv'
    BY <1>1, <1>2, <2>1 DEF RecvIllegalHeaders, RecvRejectedHeaders
  <2>2. ASSUME NEW id \in StreamIds, NEW kind \in PeerSends, NEW t \in Tasks,
               RecvRequest(id, kind, t)
        PROVE  CountInv'
    BY <2>2, RequestCount
  <2>3. ASSUME NEW id \in StreamIds, RecvUndecodableHeaders(id) \/ RecvRstStream(id)
        PROVE  CountInv'
    BY <1>1, <1>2, <2>3 DEF RecvUndecodableHeaders, RecvRstStream
  <2>4. ASSUME NEW n \in Increments, RecvGlobalWindowUpdate(n)
        PROVE  CountInv'
    BY <1>1, <1>2, <2>4 DEF RecvGlobalWindowUpdate
  <2>5. ASSUME NEW id \in StreamIds, NEW n \in Increments, RecvStreamWindowUpdate(id, n)
        PROVE  CountInv'
    BY <1>1, <1>2, <2>5 DEF RecvStreamWindowUpdate
  <2>6. ASSUME NEW size \in InitialWindows, RecvSettings(size)
        PROVE  CountInv'
    BY <1>1, <1>2, <2>6 DEF RecvSettings
  <2>7. CASE RecvGoAway \/ ConnectionFails
    BY <1>1, <2>7 DEF RecvGoAway, ConnectionFails
  <2> QED
    BY <1>3, <2>1, <2>2, <2>3, <2>4, <2>5, <2>6, <2>7 DEF Peer
<1>4. CASE AnnounceShutdown \/ FlushWriteBuffer
  BY <1>1, <1>2, <1>4 DEF AnnounceShutdown, FlushWriteBuffer
<1>5. CASE NoticeShutdown
  BY <1>1, <1>2, <1>5 DEF NoticeShutdown, StopAccepting
<1>6. CASE WriteResponse \/ WriteFrame
  BY <1>1, <1>2, <1>6 DEF WriteResponse, WriteFrame
<1>7. CASE GetWindow \/ PutWindow
  BY <1>1, <1>2, <1>7 DEF GetWindow, PutWindow
<1>8. CASE StreamClosing
  BY <1>8, ClosingCount
<1>9. CASE StreamClosed
  BY <1>1, <1>2, <1>9 DEF StreamClosed
<1>10. CASE DistributeWindow
  BY <1>1, <1>2, <1>10 DEF DistributeWindow, DropWindowRequest, GiveWindow
<1> QED
  BY <1>3, <1>4, <1>5, <1>6, <1>7, <1>8, <1>9, <1>10 DEF Streams

\* Every step keeps the count.
LEMMA CountStep ==
    ASSUME ConstantsAssumption, TypeInv, CountInv, [Next]_vars
    PROVE  CountInv'
<1>1. CASE UNCHANGED vars
  <2>1. /\ exit' = exit /\ open_streams' = open_streams /\ task' = task
        /\ conn_rx' = conn_rx
    BY <1>1 DEF vars, loopVars, streamVars, taskVars
  <2> QED
    BY <2>1, QuietCount DEF Running, Working, CountInv, OpenStreamsExact
<1> QED
  BY <1>1, ConnectionCount, StreamTaskCount DEF Next

\* The invariants the theorems about the count come from.
LEMMA CountInvariant == Spec => [](TypeInv /\ CountInv)
<1>1. Init => TypeInv /\ CountInv
  BY ConstantsAssumption, InitType, InitCount
<1>2. (TypeInv /\ CountInv) /\ [Next]_vars => (TypeInv /\ CountInv)'
  BY ConstantsAssumption, TypeStep, CountStep
<1> QED
  BY <1>1, <1>2, PTL DEF Spec

\* open_streams is the number of streams opened and not yet handled as closing,
\* and the branch for its underflow is never taken.
THEOREM OpenStreamsCounted == Spec => []OpenStreamsExact
<1>1. TypeInv /\ CountInv => OpenStreamsExact
  BY DEF CountInv
<1> QED
  BY <1>1, CountInvariant, PTL

\* The tasks at work never exceed max_concurrent_streams.
THEOREM ConcurrencyLimited == Spec => []ConcurrencyLimit
<1>1. ASSUME TypeInv, CountInv
      PROVE  ConcurrencyLimit
  <2> DEFINE W == {t \in Tasks : Working(t)}
  <2>1. SUFFICES ASSUME Running PROVE Cardinality(W) <= MaxConcurrent
    BY DEF ConcurrencyLimit
  <2>2. W \subseteq OpenStreams /\ IsFiniteSet(OpenStreams)
    BY ConstantsAssumption, OpenStreamsFinite DEF OpenStreams
  <2>3. /\ Cardinality(W) <= Cardinality(OpenStreams)
        /\ Cardinality(W) \in Nat /\ Cardinality(OpenStreams) \in Nat
    BY <2>2, FS_Subset, FS_CardinalityType
  <2>4. Cardinality(OpenStreams) <= MaxConcurrent
    BY <1>1, <2>1 DEF CountInv, OpenStreamsExact
  <2> QED
    BY ConstantsAssumption, <2>3, <2>4 DEF ConstantsAssumption
<1> QED
  BY <1>1, CountInvariant, PTL

-----------------------------------------------------------------------------
(* Graceful shutdown.  That it cuts no response off rests on the order of the *)
(* requests of one stream task in the channel that all share: its frames are  *)
(* in front of its StreamClosing.                                             *)
\* The frames that decide whether a response is whole, as a request carries them.
FramesOf(req) ==
    {f \in {"headers", "end_stream"} :
        \/ f = "headers" /\ req.kind = "Response"
        \/ f = "end_stream" /\ req.kind \in {"Response", "Frame"} /\ req.end_stream}

\* Task t has sent f: it is written, or on its way in front of place n.
Sent(t, f, n) ==
    \/ f \in wire[task[t].id]
    \/ \E i \in DOMAIN conn_rx :
           i < n /\ conn_rx[i].from = t /\ f \in FramesOf(conn_rx[i])

Complete(t, n) == Sent(t, "headers", n) /\ Sent(t, "end_stream", n)

End == Len(conn_rx) + 1

\* A request in the channel is of a task that was spawned, about its stream; one
\* that announces an end without an error has the whole response in front of it.
RequestInOrder(i) ==
    LET req == conn_rx[i] IN
    /\ task[req.from].at # "unused" /\ req.id = task[req.from].id
    /\ req.kind = "StreamClosing" /\ req.error = "none" => Complete(req.from, i)

\* Where a task stands tells what it has sent.
TaskInOrder(t) ==
    /\ task[t].at \in {"reading", "sending"} => Sent(t, "headers", End)
    /\ task[t].at = "closing" /\ task[t].error = "none" => Complete(t, End)
    /\ task[t].at \in {"announced", "exited"} =>
           InQueue("StreamClosing", t) \/ Finished(task[t].id)

OrderInv ==
    /\ \A i \in DOMAIN conn_rx : RequestInOrder(i)
    /\ \A t \in Tasks : TaskInOrder(t)

ShutdownInv == (Running => OrderInv) /\ ShutdownFinishesStreams

\* A spawned task keeps its stream, and what is written stays written.
Steady ==
    /\ \A t \in Tasks : task[t].at # "unused" =>
           task'[t].at # "unused" /\ task'[t].id = task[t].id
    /\ \A id \in StreamIds : wire[id] \subseteq wire'[id]

Grows == conn_rx' = conn_rx \/ \E req \in ConnectionReq : conn_rx' = Append(conn_rx, req)

-----------------------------------------------------------------------------
(* The channel. *)

\* A request that is added leaves the others where they are.
LEMMA AppendPlaces ==
    ASSUME NEW S, NEW s \in Seq(S), NEW req \in S, NEW q, q = Append(s, req)
    PROVE  /\ Len(q) = Len(s) + 1 /\ q[Len(s) + 1] = req
           /\ Len(s) \in Nat /\ Len(s) + 1 \in DOMAIN q
           /\ \A i \in DOMAIN s : i \in DOMAIN q /\ q[i] = s[i] /\ i \in Nat /\ i < Len(s) + 1
           /\ \A i \in DOMAIN q : i \in DOMAIN s \/ i = Len(s) + 1
<1>1. /\ DOMAIN q = 1..(Len(s) + 1) /\ DOMAIN s = 1..Len(s) /\ Len(s) \in Nat
      /\ \A i \in 1..Len(s) : q[i] = s[i]
      /\ q[Len(s) + 1] = req /\ Len(q) = Len(s) + 1
  OBVIOUS
<1>2. Len(s) + 1 \in DOMAIN q
  BY <1>1
<1>3. \A i \in DOMAIN s : i \in DOMAIN q /\ q[i] = s[i] /\ i \in Nat /\ i < Len(s) + 1
  BY <1>1
<1>4. \A i \in DOMAIN q : i \in DOMAIN s \/ i = Len(s) + 1
  BY <1>1
<1> QED
  BY <1>1, <1>2, <1>3, <1>4

\* When the first is taken the others move up by one.
LEMMA TailPlaces ==
    ASSUME NEW S, NEW s \in Seq(S), s # << >>
    PROVE  LET q == Tail(s) IN
           /\ Len(q) = Len(s) - 1 /\ Len(s) \in Nat /\ Head(s) = s[1] /\ 1 \in DOMAIN s
           /\ \A i \in DOMAIN s : i \in Nat /\ (i = 1 \/ (i - 1 \in DOMAIN q /\ q[i - 1] = s[i]))
           /\ \A i \in DOMAIN q : i \in Nat /\ i + 1 \in DOMAIN s /\ s[i + 1] = q[i]
<1> DEFINE q == Tail(s)
<1>1. /\ DOMAIN q = 1..(Len(s) - 1) /\ DOMAIN s = 1..Len(s) /\ Len(s) \in Nat /\ Len(s) > 0
      /\ \A i \in 1..(Len(s) - 1) : q[i] = s[i + 1]
      /\ Head(s) = s[1] /\ Len(q) = Len(s) - 1
  OBVIOUS
<1> HIDE DEF q
<1>2. \A i \in DOMAIN q : i \in Nat /\ i + 1 \in DOMAIN s /\ s[i + 1] = q[i]
  BY <1>1
<1>3. \A i \in DOMAIN s : i \in Nat /\ (i = 1 \/ (i - 1 \in DOMAIN q /\ q[i - 1] = s[i]))
  BY <1>1
<1>4. 1 \in DOMAIN s
  BY <1>1
<1> QED
  BY <1>1, <1>2, <1>3, <1>4 DEF q

\* What has been sent stays sent while requests are added.
LEMMA SentGrows ==
    ASSUME TypeInv, Steady, Grows, NEW t \in Tasks, task[t].at # "unused",
           NEW f, NEW n \in Nat, Sent(t, f, n)
    PROVE  Sent(t, f, n)'
<1>1. conn_rx \in Seq(ConnectionReq) /\ task[t].id \in StreamIds
  BY DEF TypeInv, TypeOK
<1>2. task'[t].id = task[t].id /\ wire[task[t].id] \subseteq wire'[task[t].id]
  BY <1>1 DEF Steady
<1>3. \A i \in DOMAIN conn_rx : i \in DOMAIN conn_rx' /\ conn_rx'[i] = conn_rx[i]
  BY <1>1, AppendPlaces DEF Grows
<1> QED
  BY <1>2, <1>3 DEF Sent

\* And while the first request is taken, if what it carries is written.
LEMMA SentMoves ==
    ASSUME TypeInv, Steady, conn_rx # << >>, conn_rx' = Tail(conn_rx),
           NEW t \in Tasks, task[t].at # "unused",
           Head(conn_rx).from = t => FramesOf(Head(conn_rx)) \subseteq wire'[task[t].id],
           NEW f, NEW n \in Nat, Sent(t, f, n)
    PROVE  Sent(t, f, n - 1)'
<1>1. conn_rx \in Seq(ConnectionReq) /\ task[t].id \in StreamIds
  BY DEF TypeInv, TypeOK
<1>2. task'[t].id = task[t].id /\ wire[task[t].id] \subseteq wire'[task[t].id]
  BY <1>1 DEF Steady
<1>3. CASE f \in wire[task[t].id]
  BY <1>2, <1>3 DEF Sent
<1>4. ASSUME NEW i \in DOMAIN conn_rx, i < n, conn_rx[i].from = t, f \in FramesOf(conn_rx[i])
      PROVE  Sent(t, f, n - 1)'
  <2>1. CASE i = 1
    BY <1>1, <1>2, <1>4, <2>1, TailPlaces DEF Sent
  <2>2. CASE i # 1
    <3>1. /\ i - 1 \in DOMAIN conn_rx' /\ conn_rx'[i - 1] = conn_rx[i] /\ i \in Nat
      BY <1>1, <2>2, TailPlaces
    <3>2. i - 1 < n - 1
      BY <1>4, <3>1
    <3> QED
      BY <1>4, <3>1, <3>2 DEF Sent
  <2> QED
    BY <2>1, <2>2
<1> QED
  BY <1>3, <1>4 DEF Sent

\* What is in front of one place is in front of a later one.
LEMMA SentBefore ==
    ASSUME TypeInv, NEW t \in Tasks, NEW f, NEW n \in Nat, NEW m \in Nat, n <= m, Sent(t, f, n)
    PROVE  Sent(t, f, m)
<1>1. \A i \in DOMAIN conn_rx : i \in Nat
  BY DEF TypeInv, TypeOK
<1> QED
  BY <1>1 DEF Sent

\* A request that is sent now is in front of what is sent next.
LEMMA SentNow ==
    ASSUME TypeInv, NEW req \in ConnectionReq, conn_rx' = Append(conn_rx, req),
           NEW f \in FramesOf(req)
    PROVE  Sent(req.from, f, End)'
<1>1. conn_rx \in Seq(ConnectionReq)
  BY DEF TypeInv, TypeOK
<1>2. /\ Len(conn_rx) + 1 \in DOMAIN conn_rx' /\ conn_rx'[Len(conn_rx) + 1] = req
      /\ Len(conn_rx') = Len(conn_rx) + 1 /\ Len(conn_rx) \in Nat
  BY <1>1, AppendPlaces
<1>3. Len(conn_rx) + 1 < Len(conn_rx') + 1
  BY <1>2
<1> QED
  BY <1>2, <1>3 DEF Sent, End

\* What has been sent is in front of what is sent next, however much is added.
LEMMA SentStays ==
    ASSUME TypeInv, Steady, Grows, NEW t \in Tasks, task[t].at # "unused",
           NEW f, Sent(t, f, End)
    PROVE  Sent(t, f, End)' /\ \A n \in Nat : n = End => Sent(t, f, n)'
<1>1. conn_rx \in Seq(ConnectionReq)
  BY DEF TypeInv, TypeOK
<1>2. /\ Len(conn_rx) \in Nat /\ Len(conn_rx') \in Nat
      /\ Len(conn_rx) <= Len(conn_rx')
  BY <1>1, AppendPlaces DEF Grows
<1>3. PICK n \in Nat : n = Len(conn_rx) + 1
  BY <1>2
<1>4. Sent(t, f, n)'
  BY <1>3, SentGrows DEF End
<1>5. \A i \in DOMAIN conn_rx' : i \in Nat
  BY <1>1, AppendPlaces DEF Grows
<1>6. \A i \in DOMAIN conn_rx' : i < n => i < Len(conn_rx') + 1
  BY <1>2, <1>3, <1>5
<1>7. Sent(t, f, End)'
  BY <1>4, <1>6 DEF Sent, End
<1> QED
  BY <1>3, <1>4, <1>7 DEF End
-----------------------------------------------------------------------------
(* The invariant. *)

\* A stream that is finished stays finished.
LEMMA FinishedStays ==
    ASSUME Steady, NEW id \in StreamIds, Finished(id)
    PROVE  Finished(id)'
<1>1. wire[id] \subseteq wire'[id]
  BY DEF Steady
<1> QED
  BY <1>1 DEF Finished

\* A task that does nothing loses nothing while requests are added.
LEMMA TaskKept ==
    ASSUME TypeInv, Steady, Grows, NEW t \in Tasks, TaskInOrder(t), task'[t] = task[t]
    PROVE  TaskInOrder(t)'
<1>1. conn_rx \in Seq(ConnectionReq)
  BY DEF TypeInv, TypeOK
<1>2. CASE task[t].at \in {"reading", "sending"}
  BY <1>2, SentStays DEF TaskInOrder
<1>3. CASE task[t].at = "closing"
  BY <1>3, SentStays DEF TaskInOrder, Complete
<1>4. CASE task[t].at \in {"announced", "exited"}
  <2>1. task[t].id \in StreamIds
    BY <1>4 DEF TypeInv
  <2>2. InQueue("StreamClosing", t) => InQueue("StreamClosing", t)'
    BY <1>1, AppendPlaces DEF InQueue, Grows
  <2> QED
    BY <1>4, <2>1, <2>2, FinishedStays DEF TaskInOrder
<1> QED
  BY <1>2, <1>3, <1>4 DEF TaskInOrder

\* What the next request must be for the order to be kept.
NextInOrder(req) ==
    /\ task[req.from].at # "unused" /\ req.id = task[req.from].id
    /\ req.kind = "StreamClosing" /\ req.error = "none" => Complete(req.from, End)

\* A step that sends a request, or none.
LEMMA GrowOrder ==
    ASSUME TypeInv, OrderInv, Steady,
           \/ conn_rx' = conn_rx
           \/ \E req \in ConnectionReq : conn_rx' = Append(conn_rx, req) /\ NextInOrder(req),
           \A t \in Tasks : task'[t] = task[t] \/ TaskInOrder(t)'
    PROVE  OrderInv'
<1>1. conn_rx \in Seq(ConnectionReq) /\ Grows
  BY DEF TypeInv, TypeOK, Grows
<1>2. \A t \in Tasks : TaskInOrder(t)'
  BY <1>1, TaskKept DEF OrderInv
<1>3. ASSUME NEW i \in DOMAIN conn_rx, conn_rx'[i] = conn_rx[i]
      PROVE  RequestInOrder(i)'
  <2>1. i \in Nat /\ conn_rx[i] \in ConnectionReq /\ RequestInOrder(i)
    BY <1>1 DEF OrderInv
  <2>2. PICK t \in Tasks : t = conn_rx[i].from /\ task[t].at # "unused" /\ conn_rx[i].id = task[t].id
    BY <2>1 DEF ConnectionReq, RequestInOrder
  <2>3. Complete(t, i) => Complete(t, i)'
    BY <1>1, <2>1, <2>2, SentGrows DEF Complete
  <2> QED
    BY <1>3, <2>1, <2>2, <2>3 DEF RequestInOrder, Steady
<1>4. ASSUME NEW req \in ConnectionReq, conn_rx' = Append(conn_rx, req), NextInOrder(req),
             NEW n \in Nat, n = Len(conn_rx) + 1
      PROVE  RequestInOrder(n)'
  <2>1. PICK t \in Tasks : t = req.from /\ conn_rx'[n] = req
    BY <1>1, <1>4, AppendPlaces DEF ConnectionReq
  <2>2. task'[t].at # "unused" /\ req.id = task'[t].id
    BY <1>4, <2>1 DEF NextInOrder, Steady
  <2>3. req.kind = "StreamClosing" /\ req.error = "none" => Complete(t, n)'
    BY <1>1, <1>4, <2>1, SentStays DEF NextInOrder, Complete, End
  <2> QED
    BY <2>1, <2>2, <2>3 DEF RequestInOrder
<1>5. \A i \in DOMAIN conn_rx' : RequestInOrder(i)'
  <2>1. CASE conn_rx' = conn_rx
    BY <1>3, <2>1
  <2>2. ASSUME NEW req \in ConnectionReq, conn_rx' = Append(conn_rx, req), NextInOrder(req)
        PROVE  \A i \in DOMAIN conn_rx' : RequestInOrder(i)'
    <3>1. \A i \in DOMAIN conn_rx' :
              \/ i \in DOMAIN conn_rx /\ conn_rx'[i] = conn_rx[i]
              \/ i \in Nat /\ i = Len(conn_rx) + 1
      BY <1>1, <2>2, AppendPlaces
    <3> QED
      BY <1>3, <1>4, <2>2, <3>1
  <2> QED
    BY <2>1, <2>2
<1> QED
  BY <1>2, <1>5 DEF OrderInv

\* A step that takes the first request: its frames are written, and if it
\* announces an end, the stream is finished.
LEMMA TakeOrder ==
    ASSUME TypeInv, OrderInv, Steady, task' = task,
           conn_rx # << >>, conn_rx' = Tail(conn_rx),
           NEW id \in StreamIds, id = Head(conn_rx).id,
           FramesOf(Head(conn_rx)) \subseteq wire'[id],
           Head(conn_rx).kind = "StreamClosing" => Finished(id)'
    PROVE  OrderInv'
<1>1. /\ conn_rx \in Seq(ConnectionReq) /\ Len(conn_rx) \in Nat
      /\ Len(conn_rx') = Len(conn_rx) - 1
      /\ Head(conn_rx) = conn_rx[1] /\ 1 \in DOMAIN conn_rx
  BY TailPlaces DEF TypeInv, TypeOK
<1>2. RequestInOrder(1)
  BY <1>1 DEF OrderInv
<1>3. ASSUME NEW t \in Tasks, task[t].at # "unused", NEW f, NEW n \in Nat, Sent(t, f, n)
      PROVE  Sent(t, f, n - 1)'
  <2>1. Head(conn_rx).from = t => Head(conn_rx).id = task[t].id
    BY <1>1, <1>2 DEF RequestInOrder
  <2> QED
    BY <1>3, <2>1, SentMoves
<1>4. ASSUME NEW i \in DOMAIN conn_rx'
      PROVE  RequestInOrder(i)'
  <2>1. PICK k \in DOMAIN conn_rx :
            i \in Nat /\ k \in Nat /\ k - 1 = i /\ conn_rx[k] = conn_rx'[i]
    <3>1. i \in Nat /\ i + 1 \in DOMAIN conn_rx /\ conn_rx[i + 1] = conn_rx'[i]
      BY <1>1, TailPlaces
    <3>2. i + 1 \in Nat /\ (i + 1) - 1 = i
      BY <3>1
    <3> QED
      BY <3>1, <3>2
  <2>2. RequestInOrder(k) /\ conn_rx[k] \in ConnectionReq
    BY <1>1, <2>1 DEF OrderInv
  <2>3. PICK t \in Tasks :
            t = conn_rx'[i].from /\ task[t].at # "unused" /\ conn_rx'[i].id = task[t].id
    BY <2>1, <2>2 DEF ConnectionReq, RequestInOrder
  <2>4. Complete(t, k) => Complete(t, i)'
    BY <1>3, <2>1, <2>3 DEF Complete
  <2> QED
    BY <2>1, <2>2, <2>3, <2>4 DEF RequestInOrder
<1>5. ASSUME NEW t \in Tasks
      PROVE  TaskInOrder(t)'
  <2>1. TaskInOrder(t)
    BY DEF OrderInv
  <2>2. ASSUME NEW f, task[t].at # "unused", Sent(t, f, End)
        PROVE  Sent(t, f, End)'
    <3>1. PICK n \in Nat : n = Len(conn_rx) + 1 /\ n - 1 = Len(conn_rx') + 1
      BY <1>1
    <3>2. Sent(t, f, n - 1)'
      BY <1>3, <2>2, <3>1 DEF End
    <3> QED
      BY <3>1, <3>2 DEF Sent, End
  <2>3. CASE task[t].at \in {"announced", "exited"}
    <3>1. task[t].id \in StreamIds
      BY <2>3 DEF TypeInv
    <3>2. CASE Finished(task[t].id)
      BY <2>3, <3>1, <3>2, FinishedStays DEF TaskInOrder
    <3>3. ASSUME NEW i \in DOMAIN conn_rx, conn_rx[i].kind = "StreamClosing",
                 conn_rx[i].from = t
          PROVE  InQueue("StreamClosing", t)' \/ Finished(task[t].id)'
      <4>1. CASE i = 1
        <5>1. Head(conn_rx).kind = "StreamClosing" /\ id = task'[t].id
          BY <1>1, <1>2, <3>3, <4>1 DEF RequestInOrder
        <5> QED
          BY <5>1
      <4>2. CASE i # 1
        <5>1. PICK k \in DOMAIN conn_rx' : conn_rx'[k] = conn_rx[i]
          BY <1>1, <4>2, TailPlaces
        <5> QED
          BY <3>3, <5>1 DEF InQueue
      <4> QED
        BY <4>1, <4>2
    <3> QED
      BY <2>1, <2>3, <3>2, <3>3 DEF TaskInOrder, InQueue
  <2>4. CASE task[t].at \notin {"announced", "exited"}
    BY <2>1, <2>2, <2>4 DEF TaskInOrder, Complete
  <2> QED
    BY <2>3, <2>4
<1> QED
  BY <1>4, <1>5 DEF OrderInv
-----------------------------------------------------------------------------
(* The steps of a connection that runs. *)

\* A step of a stream task.
LEMMA StreamTaskOrder ==
    ASSUME TypeInv, OrderInv, Running, NEW t \in Tasks, StreamTask(t)
    PROVE  OrderInv'
<1>1. task \in [Tasks -> Task] /\ conn_rx \in Seq(ConnectionReq) /\ TaskInOrder(t)
  BY DEF TypeInv, TypeOK, OrderInv
<1>2. ASSUME TaskStep, task[t].at # "unused", task'[t].at # "unused",
             task'[t].id = task[t].id, \A u \in Tasks \ {t} : task'[u] = task[u],
             \/ conn_rx' = conn_rx
             \/ \E req \in ConnectionReq : conn_rx' = Append(conn_rx, req) /\ NextInOrder(req),
             Steady /\ Grows => TaskInOrder(t)'
      PROVE  OrderInv'
  <2>1. Steady /\ Grows
    BY <1>2 DEF Steady, Grows, TaskStep, peerVars, wireVars
  <2> QED
    BY <1>2, <2>1, GrowOrder
<1>3. ASSUME task[t].at # "unused",
             NEW kind \in {"Response", "Frame", "GetWindow", "PutWindow", "StreamClosing",
                           "StreamClosed"},
             NEW amount \in Nat, NEW b \in BOOLEAN,
             kind = "StreamClosing" /\ task[t].error = "none" => Complete(t, End)
      PROVE  LET req == Request(kind, t, amount, b) IN
             /\ req \in ConnectionReq /\ NextInOrder(req) /\ req.from = t
             /\ req.kind = kind /\ req.end_stream = b
  <2>1. Request(kind, t, amount, b) \in ConnectionReq
    BY <1>3, RequestType
  <2> QED
    BY <1>3, <2>1 DEF Request, NextInOrder
<1>4. CASE SendResponse(t)
  <2>1. PICK no_body \in BOOLEAN :
            /\ conn_rx' = Append(conn_rx, Request("Response", t, 0, no_body))
            /\ task'[t].at = IF no_body THEN "closing" ELSE "reading"
    BY <1>1, <1>4 DEF SendResponse, Send
  <2>2. /\ task[t].at = "handling" /\ task'[t].id = task[t].id
        /\ \A u \in Tasks \ {t} : task'[u] = task[u]
    BY <1>1, <1>4 DEF SendResponse, Task
  <2>3. PICK req \in ConnectionReq :
            /\ conn_rx' = Append(conn_rx, req) /\ NextInOrder(req) /\ req.from = t
            /\ req.kind = "Response" /\ req.end_stream = no_body
    BY <1>3, <2>1, <2>2
  <2>4. "headers" \in FramesOf(req) /\ (no_body => "end_stream" \in FramesOf(req))
    BY <2>3 DEF FramesOf
  <2>5. Sent(t, "headers", End)' /\ (no_body => Sent(t, "end_stream", End)')
    BY <2>3, <2>4, SentNow
  <2>6. TaskInOrder(t)'
    BY <2>1, <2>5 DEF TaskInOrder, Complete
  <2> QED
    BY <1>2, <1>4, <2>1, <2>2, <2>3, <2>6 DEF SendResponse
<1>5. CASE ReadChunk(t)
  <2>1. /\ task[t].at = "reading" /\ task'[t].at = "sending" /\ conn_rx' = conn_rx
        /\ task'[t].id = task[t].id /\ \A u \in Tasks \ {t} : task'[u] = task[u]
    BY <1>1, <1>5 DEF ReadChunk, Task
  <2>2. Steady /\ Grows => TaskInOrder(t)'
    BY <1>1, <2>1, SentStays DEF TaskInOrder
  <2> QED
    BY <1>2, <1>5, <2>1, <2>2 DEF ReadChunk
<1>6. CASE ReadFails(t)
  <2>1. /\ task[t].at = "reading" /\ task'[t].at = "closing" /\ conn_rx' = conn_rx
        /\ task'[t].error = "stream"
        /\ task'[t].id = task[t].id /\ \A u \in Tasks \ {t} : task'[u] = task[u]
    BY <1>1, <1>6 DEF ReadFails, Task
  <2>2. TaskInOrder(t)'
    BY <2>1 DEF TaskInOrder
  <2> QED
    BY <1>2, <1>6, <2>1, <2>2 DEF ReadFails
<1>7. CASE EndBody(t)
  <2>1. /\ task[t].at = "reading" /\ task'[t].at = "closing"
        /\ conn_rx' = Append(conn_rx, Request("Frame", t, 0, TRUE))
        /\ task'[t].id = task[t].id /\ \A u \in Tasks \ {t} : task'[u] = task[u]
    BY <1>1, <1>7 DEF EndBody, Send, Task
  <2>2. PICK req \in ConnectionReq :
            /\ conn_rx' = Append(conn_rx, req) /\ NextInOrder(req) /\ req.from = t
            /\ req.kind = "Frame" /\ req.end_stream = TRUE
    BY <1>3, <2>1
  <2>3. "end_stream" \in FramesOf(req)
    BY <2>2 DEF FramesOf
  <2>4. Sent(t, "end_stream", End)'
    BY <2>2, <2>3, SentNow
  <2>5. Steady /\ Grows => TaskInOrder(t)'
    BY <1>1, <2>1, <2>4, SentStays DEF TaskInOrder, Complete
  <2> QED
    BY <1>2, <1>7, <2>1, <2>2, <2>5 DEF EndBody
<1>8. CASE RequestWindow(t)
  <2>1. /\ task[t].at = "sending" /\ task'[t].at = "sending"
        /\ task'[t].id = task[t].id /\ \A u \in Tasks \ {t} : task'[u] = task[u]
    BY <1>1, <1>8 DEF RequestWindow, Task
  <2>2. AskFor(t) \in Nat
    BY <1>1, <1>8 DEF RequestWindow, CanRequest, AskFor, Task
  <2>3. \E req \in ConnectionReq : conn_rx' = Append(conn_rx, req) /\ NextInOrder(req)
    BY <1>3, <1>8, <2>1, <2>2 DEF RequestWindow, Send
  <2>4. Steady /\ Grows => TaskInOrder(t)'
    BY <1>1, <2>1, SentStays DEF TaskInOrder
  <2> QED
    BY <1>2, <1>8, <2>1, <2>3, <2>4 DEF RequestWindow
<1>9. CASE SendData(t)
  <2>1. /\ task[t].at = "sending" /\ task'[t].at \in {"sending", "reading"}
        /\ task'[t].id = task[t].id /\ \A u \in Tasks \ {t} : task'[u] = task[u]
    BY <1>1, <1>9 DEF SendData, Task
  <2> DEFINE amount == IF task[t].available_window > task[t].left
                       THEN task[t].left ELSE task[t].available_window
  <2>2. amount \in Nat
    BY <1>1 DEF Task
  <2>3. conn_rx' = Append(conn_rx, Request("Frame", t, amount, FALSE))
    BY <1>9 DEF SendData, Send
  <2> HIDE DEF amount
  <2>4. \E req \in ConnectionReq : conn_rx' = Append(conn_rx, req) /\ NextInOrder(req)
    BY <1>3, <2>1, <2>2, <2>3
  <2>5. Steady /\ Grows => TaskInOrder(t)'
    BY <1>1, <2>1, SentStays DEF TaskInOrder
  <2> QED
    BY <1>2, <1>9, <2>1, <2>4, <2>5 DEF SendData
<1>10. CASE Receive(t)
  <2>1. /\ task[t].at \in {"handling", "reading", "sending"} /\ conn_rx' = conn_rx
        /\ \/ task'[t].at = task[t].at
           \/ task'[t].at = "closing" /\ task'[t].error # "none"
        /\ task'[t].id = task[t].id /\ \A u \in Tasks \ {t} : task'[u] = task[u]
    BY <1>1, <1>10 DEF Receive, WaitsForWindow, Task
  <2>2. Steady /\ Grows => TaskInOrder(t)'
    BY <1>1, <2>1, SentStays DEF TaskInOrder
  <2> QED
    BY <1>2, <1>10, <2>1, <2>2 DEF Receive
<1>11. CASE GiveBack(t)
  <2>1. /\ task[t].at = "closing" /\ task'[t].at = "closing" /\ task'[t].error = task[t].error
        /\ task'[t].id = task[t].id /\ \A u \in Tasks \ {t} : task'[u] = task[u]
    BY <1>1, <1>11 DEF GiveBack, Task
  <2>2. task[t].available_window \in Nat
    BY <1>1 DEF Task
  <2>3. \E req \in ConnectionReq : conn_rx' = Append(conn_rx, req) /\ NextInOrder(req)
    BY <1>3, <1>11, <2>1, <2>2 DEF GiveBack, Send
  <2>4. Steady /\ Grows => TaskInOrder(t)'
    BY <1>1, <2>1, SentStays DEF TaskInOrder, Complete
  <2> QED
    BY <1>2, <1>11, <2>1, <2>3, <2>4 DEF GiveBack
<1>12. CASE SendClosing(t)
  <2>1. /\ task[t].at = "closing" /\ task'[t].at = "announced"
        /\ conn_rx' = Append(conn_rx, Request("StreamClosing", t, 0, FALSE))
        /\ task'[t].id = task[t].id /\ \A u \in Tasks \ {t} : task'[u] = task[u]
    BY <1>1, <1>12 DEF SendClosing, Send, Task
  <2>2. PICK req \in ConnectionReq :
            /\ conn_rx' = Append(conn_rx, req) /\ NextInOrder(req) /\ req.from = t
            /\ req.kind = "StreamClosing"
    BY <1>1, <1>3, <2>1 DEF TaskInOrder
  <2>3. InQueue("StreamClosing", t)'
    BY <1>1, <2>2, AppendPlaces DEF InQueue
  <2>4. TaskInOrder(t)'
    BY <2>1, <2>3 DEF TaskInOrder
  <2> QED
    BY <1>2, <1>12, <2>1, <2>2, <2>4 DEF SendClosing
<1>13. CASE SendClosed(t)
  <2>1. /\ task[t].at = "announced" /\ task'[t].at = "exited"
        /\ task'[t].id = task[t].id /\ \A u \in Tasks \ {t} : task'[u] = task[u]
    BY <1>1, <1>13 DEF SendClosed, Task
  <2>2. \E req \in ConnectionReq : conn_rx' = Append(conn_rx, req) /\ NextInOrder(req)
    BY <1>3, <1>13, <2>1 DEF SendClosed, Send
  <2>3. InQueue("StreamClosing", t) => InQueue("StreamClosing", t)'
    BY <1>1, <2>2, AppendPlaces DEF InQueue
  <2>4. task[t].id \in StreamIds
    BY <2>1 DEF TypeInv
  <2>5. Steady /\ Grows => TaskInOrder(t)'
    BY <1>1, <2>1, <2>3, <2>4, FinishedStays DEF TaskInOrder
  <2> QED
    BY <1>2, <1>13, <2>1, <2>2, <2>5 DEF SendClosed
<1>14. CASE SendFails(t)
  BY <1>14 DEF SendFails
<1> QED
  BY <1>4, <1>5, <1>6, <1>7, <1>8, <1>9, <1>10, <1>11, <1>12, <1>13,
     <1>14 DEF StreamTask
\* The connection task writes; it takes nothing back.
LEMMA WriteGrows ==
    ASSUME TypeInv, NEW id \in StreamIds,
           NEW frames \in SUBSET {"headers", "data", "end_stream", "rst"},
           Write(id, frames)
    PROVE  frames \subseteq wire'[id] /\ \A i \in StreamIds : wire[i] \subseteq wire'[i]
BY DEF Write, TypeInv, TypeOK

\* A step that does not touch the channel, with no new stream.
LEMMA QuietOrder ==
    ASSUME TypeInv, OrderInv, conn_rx' = conn_rx, task' = task,
           \A i \in StreamIds : wire[i] \subseteq wire'[i]
    PROVE  OrderInv'
<1>1. Steady
  BY DEF Steady
<1> QED
  BY <1>1, GrowOrder

\* A reset of a stream: what has been written remains.
LEMMA ResetGrows ==
    ASSUME TypeInv, NEW id \in StreamIds, ResetStream(id)
    PROVE  "rst" \in wire'[id] /\ \A i \in StreamIds : wire[i] \subseteq wire'[i]
BY WriteGrows DEF ResetStream

\* Frames of the peer: none of them is a shutdown.
LEMMA PeerOrder ==
    ASSUME TypeInv, OrderInv, Peer
    PROVE  OrderInv' /\ exit' # "shutdown"
<1> USE DEF loopVars, windowVars, streamVars, shutdownVars, taskVars, peerVars,
            wireVars, Running, Selecting, Close, Leave
<1>1. ASSUME NEW id \in StreamIds, NEW kind \in PeerSends, RecvIllegalHeaders(id, kind)
      PROVE  OrderInv' /\ exit' # "shutdown"
  BY <1>1, QuietOrder DEF RecvIllegalHeaders
<1>2. ASSUME NEW id \in StreamIds, NEW kind \in PeerSends, RecvRejectedHeaders(id, kind)
      PROVE  OrderInv' /\ exit' # "shutdown"
  <2>1. ResetStream(id) /\ conn_rx' = conn_rx /\ task' = task /\ exit' # "shutdown"
    BY <1>2 DEF RecvRejectedHeaders
  <2> QED
    BY <2>1, QuietOrder, ResetGrows
<1>3. ASSUME NEW id \in StreamIds, RecvUndecodableHeaders(id) \/ RecvRstStream(id)
      PROVE  OrderInv' /\ exit' # "shutdown"
  BY <1>3, QuietOrder DEF RecvUndecodableHeaders, RecvRstStream
<1>4. ASSUME NEW id \in StreamIds, NEW kind \in PeerSends, NEW t \in Tasks,
             RecvRequest(id, kind, t)
      PROVE  OrderInv' /\ exit' # "shutdown"
  <2>1. /\ task[t].at = "unused" /\ task'[t].at = "handling"
        /\ \A u \in Tasks \ {t} : task'[u] = task[u]
        /\ conn_rx' = conn_rx /\ wire' = wire /\ exit' # "shutdown"
    BY <1>4 DEF RecvRequest, TypeInv, TypeOK, Task
  <2>2. Steady
    BY <2>1 DEF Steady
  <2>3. TaskInOrder(t)'
    BY <2>1 DEF TaskInOrder
  <2> QED
    BY <2>1, <2>2, <2>3, GrowOrder
<1>5. ASSUME NEW n \in Increments, RecvGlobalWindowUpdate(n)
      PROVE  OrderInv' /\ exit' # "shutdown"
  BY <1>5, QuietOrder DEF RecvGlobalWindowUpdate
<1>6. ASSUME NEW id \in StreamIds, NEW n \in Increments, RecvStreamWindowUpdate(id, n)
      PROVE  OrderInv' /\ exit' # "shutdown"
  <2>1. conn_rx' = conn_rx /\ task' = task /\ exit' # "shutdown"
    BY <1>6 DEF RecvStreamWindowUpdate
  <2>2. wire' = wire \/ ResetStream(id)
    BY <1>6 DEF RecvStreamWindowUpdate
  <2> QED
    BY <2>1, <2>2, QuietOrder, ResetGrows
<1>7. ASSUME NEW size \in InitialWindows, RecvSettings(size)
      PROVE  OrderInv' /\ exit' # "shutdown"
  BY <1>7, QuietOrder DEF RecvSettings
<1>8. CASE RecvGoAway \/ ConnectionFails
  BY <1>8, QuietOrder DEF RecvGoAway, ConnectionFails
<1> QED
  BY <1>1, <1>2, <1>3, <1>4, <1>5, <1>6, <1>7, <1>8 DEF Peer

\* The first request has its type and is in order.
LEMMA HeadInOrder ==
    ASSUME TypeInv, OrderInv, conn_rx # << >>
    PROVE  /\ Head(conn_rx) \in ConnectionReq /\ Head(conn_rx) = conn_rx[1]
           /\ 1 \in DOMAIN conn_rx /\ RequestInOrder(1)
           /\ Head(conn_rx).id \in StreamIds /\ Head(conn_rx).from \in Tasks
<1>1. conn_rx \in Seq(ConnectionReq)
  BY DEF TypeInv, TypeOK
<1>2. /\ Head(conn_rx) = conn_rx[1] /\ 1 \in DOMAIN conn_rx
      /\ Head(conn_rx) \in ConnectionReq
  BY <1>1, TailPlaces, HeadTail
<1> QED
  BY <1>2 DEF OrderInv, ConnectionReq

\* A request that is not the end of a stream is handled.
LEMMA RequestsOrder ==
    ASSUME TypeInv, OrderInv,
           WriteResponse \/ WriteFrame \/ GetWindow \/ PutWindow \/ StreamClosed
    PROVE  OrderInv' /\ exit' # "shutdown"
<1> USE DEF loopVars, windowVars, streamVars, shutdownVars, taskVars, peerVars,
            wireVars, Running, Selecting, Close, Take
<1>1. /\ conn_rx # << >> /\ conn_rx' = Tail(conn_rx) /\ task' = task
      /\ Head(conn_rx).kind # "StreamClosing" /\ exit' # "shutdown"
  BY DEF WriteResponse, WriteFrame, GetWindow, PutWindow, StreamClosed
<1>2. PICK id \in StreamIds : id = Head(conn_rx).id
  BY <1>1, HeadInOrder
<1>3. /\ FramesOf(Head(conn_rx)) \subseteq wire'[id]
      /\ \A i \in StreamIds : wire[i] \subseteq wire'[i]
  <2>1. CASE WriteResponse
    <3> DEFINE frames == IF Head(conn_rx).end_stream THEN {"headers", "end_stream"}
                         ELSE {"headers"}
    <3>1. Write(id, frames) /\ FramesOf(Head(conn_rx)) \subseteq frames
      BY <1>2, <2>1 DEF WriteResponse, FramesOf
    <3>2. frames \in SUBSET {"headers", "data", "end_stream", "rst"}
      OBVIOUS
    <3> QED
      BY <3>1, <3>2, WriteGrows
  <2>2. CASE WriteFrame
    <3> DEFINE frames == IF Head(conn_rx).end_stream THEN {"data", "end_stream"}
                         ELSE {"data"}
    <3>1. Write(id, frames) /\ FramesOf(Head(conn_rx)) \subseteq frames
      BY <1>2, <2>2 DEF WriteFrame, FramesOf
    <3>2. frames \in SUBSET {"headers", "data", "end_stream", "rst"}
      OBVIOUS
    <3> QED
      BY <3>1, <3>2, WriteGrows
  <2>3. CASE GetWindow \/ PutWindow \/ StreamClosed
    BY <2>3 DEF GetWindow, PutWindow, StreamClosed, FramesOf
  <2> QED
    BY <2>1, <2>2, <2>3
<1>4. Steady
  BY <1>1, <1>3 DEF Steady
<1> QED
  BY <1>1, <1>2, <1>3, <1>4, TakeOrder
-----------------------------------------------------------------------------
(* The end of the connection. *)

\* A stream that is no longer open is finished.
LEMMA NotOpenFinished ==
    ASSUME TypeInv, OrderInv, NEW t \in Tasks, task[t].at # "unused", t \notin OpenStreams
    PROVE  Finished(task[t].id)
<1>1. task[t].at \in {"announced", "exited"}
  BY DEF OpenStreams, Working, TypeInv, TypeOK, Task, Places
<1> QED
  BY <1>1 DEF OpenStreams, OrderInv, TaskInOrder

\* The end of a stream is handled: the stream is finished by then, and so are all
\* others if it is the last one of a connection that shuts down.
LEMMA ClosingOrder ==
    ASSUME ConstantsAssumption, TypeInv, CountInv, OrderInv, StreamClosing
    PROVE  /\ Running' => OrderInv'
           /\ exit' = "shutdown" => ShutdownFinishesStreams'
<1>1. /\ Running /\ conn_rx # << >> /\ Head(conn_rx).kind = "StreamClosing"
      /\ conn_rx' = Tail(conn_rx) /\ task' = task
  BY DEF StreamClosing, Take, Selecting
<1>2. PICK id \in StreamIds, t \in Tasks :
          /\ id = Head(conn_rx).id /\ t = Head(conn_rx).from
          /\ task[t].at # "unused" /\ id = task[t].id
  BY <1>1, HeadInOrder DEF RequestInOrder
<1>3. CASE Head(conn_rx).error = "connection"
  BY <1>3 DEF StreamClosing, Close, Running
<1>4. CASE Head(conn_rx).error # "connection"
  <2>1. /\ Finished(id)'
        /\ \A i \in StreamIds : wire[i] \subseteq wire'[i]
    <3>1. CASE Head(conn_rx).error = "stream"
      <4>1. ResetStream(id)
        BY <1>2, <1>4, <3>1 DEF StreamClosing
      <4> QED
        BY <4>1, ResetGrows DEF Finished
    <3>2. CASE Head(conn_rx).error # "stream"
      <4>1. Head(conn_rx).error = "none" /\ wire' = wire
        BY <1>1, <1>4, <3>2, HeadInOrder
           DEF StreamClosing, wireVars, ConnectionReq, Errors
      <4>2. Complete(t, 1)
        BY <1>1, <1>2, <4>1, HeadInOrder DEF RequestInOrder
      <4>3. \A i \in DOMAIN conn_rx : ~(i < 1)
        BY DEF TypeInv, TypeOK
      <4>4. {"headers", "end_stream"} \subseteq wire[id]
        BY <1>2, <4>2, <4>3 DEF Complete, Sent
      <4> QED
        BY <4>1, <4>4 DEF Finished
    <3> QED
      BY <3>1, <3>2
  <2>2. Steady
    BY <1>1, <2>1 DEF Steady
  <2>3. OrderInv'
    <3>1. FramesOf(Head(conn_rx)) \subseteq wire'[id]
      BY <1>1 DEF FramesOf
    <3> QED
      BY <1>1, <1>2, <2>1, <2>2, <3>1, TakeOrder
  <2>4. ASSUME exit' = "shutdown"
        PROVE  ShutdownFinishesStreams'
    <3>1. open_streams = 1
      <4>1. Uncount(Head(conn_rx).error = "stream")
        BY <1>4 DEF StreamClosing
      <4>2. open_streams - 1 = 0 /\ open_streams \in Nat
        BY <1>1, <2>4, <4>1 DEF Uncount, Close, Running, TypeInv, TypeOK
      <4> QED
        BY <4>2
    <3>2. InQueue("StreamClosing", t)
      BY <1>1, <1>2, HeadInOrder DEF InQueue
    <3>3. t \in OpenStreams /\ Cardinality(OpenStreams) = 1
      BY <1>1, <3>1, <3>2 DEF OpenStreams, CountInv, OpenStreamsExact
    <3>4. OpenStreams \ {t} = {}
      <4>1. /\ Cardinality(OpenStreams \ {t}) = Cardinality(OpenStreams) - 1
            /\ IsFiniteSet(OpenStreams \ {t})
        BY <3>3, OpenStreamsFinite, FS_RemoveElement
      <4> QED
        BY <3>3, <4>1, FS_EmptySet
    <3>5. ASSUME NEW u \in Tasks, task'[u].at # "unused"
          PROVE  Finished(task[u].id)'
      <4>1. CASE u = t
        BY <1>1, <1>2, <2>1, <4>1 DEF Finished
      <4>2. CASE u # t
        <5>1. PICK other \in StreamIds : other = task[u].id /\ Finished(other)
          BY <1>1, <3>4, <3>5, <4>2, NotOpenFinished DEF TypeInv
        <5>2. Finished(other)'
          BY <2>2, <5>1, FinishedStays
        <5> QED
          BY <1>1, <5>1, <5>2
      <4> QED
        BY <4>1, <4>2
    <3> QED
      BY <3>5 DEF ShutdownFinishesStreams
  <2> QED
    BY <2>3, <2>4
<1> QED
  BY <1>3, <1>4

\* The signal: an idle connection has no stream that is not finished.
LEMMA NoticeOrder ==
    ASSUME ConstantsAssumption, TypeInv, CountInv, OrderInv, NoticeShutdown
    PROVE  OrderInv' /\ (exit' = "shutdown" => ShutdownFinishesStreams')
<1>1. /\ Running /\ conn_rx' = conn_rx /\ task' = task /\ wire' = wire
  BY DEF NoticeShutdown, StopAccepting, Selecting, taskVars, peerVars, wireVars
<1>2. OrderInv'
  BY <1>1, QuietOrder
<1>3. ASSUME exit' = "shutdown"
      PROVE  ShutdownFinishesStreams'
  <2>1. open_streams = 0
    BY <1>1, <1>3 DEF NoticeShutdown, StopAccepting, Running
  <2>2. OpenStreams = {}
    BY <1>1, <2>1, OpenStreamsFinite, FS_EmptySet DEF CountInv, OpenStreamsExact
  <2>3. \A t \in Tasks : task[t].at # "unused" => Finished(task[t].id)
    BY <2>2, NotOpenFinished
  <2> QED
    BY <1>1, <2>3 DEF ShutdownFinishesStreams, Finished
<1> QED
  BY <1>2, <1>3

\* A connection that has ended writes nothing more and accepts nothing more.
LEMMA EndedStep ==
    ASSUME TypeInv, ~Running, ShutdownFinishesStreams, [Next]_vars
    PROVE  exit' = exit /\ ShutdownFinishesStreams'
<1> USE DEF loopVars, windowVars, streamVars, shutdownVars, taskVars, peerVars,
            wireVars, Selecting, Take
<1>1. task \in [Tasks -> Task]
  BY DEF TypeInv, TypeOK
<1>2. ASSUME exit' = exit, wire' = wire,
             \A t \in Tasks : task'[t].at # "unused" =>
                 task[t].at # "unused" /\ task'[t].id = task[t].id
      PROVE  exit' = exit /\ ShutdownFinishesStreams'
  BY <1>2 DEF ShutdownFinishesStreams, Finished
<1>3. CASE UNCHANGED vars
  BY <1>2, <1>3 DEF vars
<1>4. CASE AnnounceShutdown
  BY <1>2, <1>4 DEF AnnounceShutdown
<1>5. ~Peer
  BY DEF Peer, RecvIllegalHeaders, RecvRejectedHeaders, RecvRequest, RecvUndecodableHeaders,
         RecvRstStream, RecvGlobalWindowUpdate, RecvStreamWindowUpdate, RecvSettings,
         RecvGoAway, ConnectionFails
<1>6. ~(NoticeShutdown \/ FlushWriteBuffer \/ Streams \/ DistributeWindow)
  BY DEF NoticeShutdown, FlushWriteBuffer, Streams, WriteResponse, WriteFrame, GetWindow,
         PutWindow, StreamClosing, StreamClosed, DistributeWindow, DropWindowRequest,
         GiveWindow
<1>7. ASSUME NEW t \in Tasks, StreamTask(t)
      PROVE  exit' = exit /\ ShutdownFinishesStreams'
  <2>1. ReadChunk(t) \/ ReadFails(t) \/ Receive(t) \/ SendFails(t)
    BY <1>7 DEF StreamTask, SendResponse, EndBody, RequestWindow, SendData, GiveBack,
                SendClosing, SendClosed, Send
  <2>2. /\ task[t].at # "unused" /\ task'[t].id = task[t].id
        /\ \A u \in Tasks \ {t} : task'[u] = task[u]
    <3>1. CASE ReadChunk(t)
      BY <1>1, <3>1 DEF ReadChunk, Task
    <3>2. CASE ReadFails(t)
      BY <1>1, <3>2 DEF ReadFails, Task
    <3>3. CASE Receive(t)
      BY <1>1, <3>3 DEF Receive, WaitsForWindow, Task
    <3>4. CASE SendFails(t)
      BY <1>1, <3>4 DEF SendFails, Task
    <3> QED
      BY <2>1, <3>1, <3>2, <3>3, <3>4
  <2>3. TaskStep
    BY <2>1 DEF ReadChunk, ReadFails, Receive, SendFails
  <2> QED
    BY <1>2, <2>2, <2>3 DEF TaskStep
<1> QED
  BY <1>3, <1>4, <1>5, <1>6, <1>7 DEF Next

\* Every step keeps the invariant.
LEMMA ShutdownStep ==
    ASSUME ConstantsAssumption, TypeInv, CountInv, ShutdownInv, [Next]_vars
    PROVE  ShutdownInv'
<1>1. CASE ~Running
  BY <1>1, EndedStep DEF ShutdownInv, Running
<1>2. CASE Running
  <2>1. OrderInv /\ exit # "shutdown"
    BY <1>2 DEF ShutdownInv, Running
  <2>2. SUFFICES /\ Running' => OrderInv'
                 /\ exit' = "shutdown" => ShutdownFinishesStreams'
    BY DEF ShutdownInv, ShutdownFinishesStreams
  <2>3. CASE Peer
    BY <2>1, <2>3, PeerOrder
  <2>4. CASE NoticeShutdown
    BY <2>1, <2>4, NoticeOrder
  <2>5. CASE StreamClosing
    BY <2>1, <2>5, ClosingOrder
  <2>6. CASE WriteResponse \/ WriteFrame \/ GetWindow \/ PutWindow \/ StreamClosed
    BY <2>1, <2>6, RequestsOrder
  <2>7. CASE AnnounceShutdown \/ FlushWriteBuffer \/ UNCHANGED vars
    <3>1. exit' = exit /\ conn_rx' = conn_rx /\ task' = task /\ wire' = wire
      BY <2>7 DEF AnnounceShutdown, FlushWriteBuffer, vars, loopVars, taskVars, peerVars,
                  wireVars
    <3> QED
      BY <2>1, <3>1, QuietOrder
  <2>8. CASE DistributeWindow
    <3>1. exit' # "shutdown" /\ conn_rx' = conn_rx /\ task' = task /\ wire' = wire
      BY <2>1, <2>8 DEF DistributeWindow, DropWindowRequest, GiveWindow, Close, taskVars,
                        peerVars, wireVars
    <3> QED
      BY <2>1, <3>1, QuietOrder
  <2>9. ASSUME NEW t \in Tasks, StreamTask(t)
        PROVE  OrderInv' /\ exit' # "shutdown"
    <3>1. TaskStep
      BY <2>9 DEF StreamTask, SendResponse, ReadChunk, ReadFails, EndBody, RequestWindow,
                  SendData, Receive, GiveBack, SendClosing, SendClosed, SendFails
    <3> QED
      BY <1>2, <2>1, <2>9, <3>1, StreamTaskOrder DEF TaskStep, loopVars
  <2> QED
    BY <2>3, <2>4, <2>5, <2>6, <2>7, <2>8, <2>9 DEF Next, Streams
<1> QED
  BY <1>1, <1>2

LEMMA ShutdownInvariant == Spec => [](TypeInv /\ CountInv /\ ShutdownInv)
<1>1. Init => ShutdownInv
  BY DEF Init, ShutdownInv, OrderInv, TaskInOrder, ShutdownFinishesStreams
<1>2. (TypeInv /\ CountInv) /\ ShutdownInv /\ [Next]_vars => ShutdownInv'
  BY ConstantsAssumption, ShutdownStep
<1> QED
  BY <1>1, <1>2, CountInvariant, PTL DEF Spec

\* A graceful shutdown cuts no response off: when the connection has left for it,
\* every stream it accepted has been answered to the end, or was reset.
THEOREM ShutdownFinishes == Spec => []ShutdownFinishesStreams
<1>1. ShutdownInv => ShutdownFinishesStreams
  BY DEF ShutdownInv
<1> QED
  BY <1>1, ShutdownInvariant, PTL


-----------------------------------------------------------------------------
(* What some of the messages of a queue carry.                              *)

\* The amounts of the messages of D.
Chosen(q, D) == [i \in DOMAIN q |-> IF q[i] \in D THEN q[i].amount ELSE 0]

HasAmount(S) == \A r \in S : r.amount \in Int

LEMMA ChosenType ==
    ASSUME NEW S, HasAmount(S), NEW q \in Seq(S), NEW D
    PROVE  /\ Chosen(q, D) \in Seq(Int) /\ Len(Chosen(q, D)) = Len(q)
           /\ DOMAIN q = 1..Len(q) /\ Len(q) \in Nat /\ Total[Chosen(q, D)] \in Int
<1>1. DOMAIN q = 1..Len(q) /\ Len(q) \in Nat
  OBVIOUS
<1>2. \A i \in 1..Len(q) : q[i].amount \in Int
  BY DEF HasAmount
<1>3. Chosen(q, D) \in [1..Len(q) -> Int]
  BY <1>1, <1>2 DEF Chosen
<1>4. Chosen(q, D) \in Seq(Int) /\ Len(Chosen(q, D)) = Len(q)
  BY <1>1, <1>3
<1> QED
  BY <1>1, <1>4, TotalDefined

LEMMA ChosenAppend ==
    ASSUME NEW S, HasAmount(S), NEW q \in Seq(S), NEW m \in S, NEW D
    PROVE  Total[Chosen(Append(q, m), D)]
               = Total[Chosen(q, D)] + IF m \in D THEN m.amount ELSE 0
<1> DEFINE p == Append(q, m)
<1>1. /\ p \in Seq(S) /\ Len(p) = Len(q) + 1 /\ p[Len(q) + 1] = m
      /\ \A i \in 1..Len(q) : p[i] = q[i]
  OBVIOUS
<1> HIDE DEF p
<1>2. /\ Chosen(p, D) \in Seq(Int) /\ Len(Chosen(p, D)) = Len(p) /\ DOMAIN p = 1..Len(p)
      /\ Chosen(q, D) \in Seq(Int) /\ Len(Chosen(q, D)) = Len(q) /\ DOMAIN q = 1..Len(q)
      /\ Len(q) \in Nat
  BY <1>1, ChosenType
<1>3. \A i \in 1..Len(q) : Chosen(p, D)[i] = Chosen(q, D)[i]
  <2> TAKE i \in 1..Len(q)
  <2>1. i \in DOMAIN p /\ i \in DOMAIN q
    BY <1>1, <1>2
  <2> QED
    BY <1>1, <2>1 DEF Chosen
<1>4. Chosen(p, D)[Len(q) + 1] = IF m \in D THEN m.amount ELSE 0
  <2>1. Len(q) + 1 \in DOMAIN p
    BY <1>1, <1>2
  <2> QED
    BY <1>1, <2>1 DEF Chosen
<1>5. Total[Chosen(p, D)] = Total[Chosen(q, D)] + Chosen(p, D)[Len(Chosen(q, D)) + 1]
  BY <1>1, <1>2, <1>3, TotalLonger
<1>6. Total[Chosen(p, D)] = Total[Chosen(q, D)] + IF m \in D THEN m.amount ELSE 0
  BY <1>2, <1>4, <1>5
<1> QED
  BY <1>6 DEF p

LEMMA ChosenTail ==
    ASSUME NEW S, HasAmount(S), NEW q \in Seq(S), q # << >>, NEW D
    PROVE  Total[Chosen(Tail(q), D)]
               = Total[Chosen(q, D)] - IF Head(q) \in D THEN Head(q).amount ELSE 0
<1> DEFINE p == Tail(q)
<1>1. /\ p \in Seq(S) /\ Len(q) = Len(p) + 1 /\ Head(q) = q[1]
      /\ \A i \in 1..Len(p) : p[i] = q[i + 1]
  OBVIOUS
<1> HIDE DEF p
<1>2. /\ Chosen(p, D) \in Seq(Int) /\ Len(Chosen(p, D)) = Len(p) /\ DOMAIN p = 1..Len(p)
      /\ Chosen(q, D) \in Seq(Int) /\ Len(Chosen(q, D)) = Len(q) /\ DOMAIN q = 1..Len(q)
      /\ Len(p) \in Nat
  BY <1>1, ChosenType
<1>3. \A i \in 1..Len(p) : Chosen(p, D)[i] = Chosen(q, D)[i + 1]
  <2> TAKE i \in 1..Len(p)
  <2>1. i \in DOMAIN p /\ i + 1 \in DOMAIN q
    BY <1>1, <1>2
  <2> QED
    BY <1>1, <2>1 DEF Chosen
<1>4. Chosen(q, D)[1] = IF Head(q) \in D THEN Head(q).amount ELSE 0
  <2>1. 1 \in DOMAIN q
    BY <1>1, <1>2
  <2> QED
    BY <1>1, <2>1 DEF Chosen
<1>5. Total[Chosen(p, D)] = Total[Chosen(q, D)] - Chosen(q, D)[1]
  BY <1>1, <1>2, <1>3, TotalShift
<1> QED
  BY <1>4, <1>5 DEF p

\* The first message changes: what it carries, or all of it but what D asks.
LEMMA ChosenFirst ==
    ASSUME NEW S, HasAmount(S), NEW q \in Seq(S), NEW p \in Seq(S), q # << >>, NEW D,
           Len(p) = Len(q), \A i \in 1..Len(q) : i # 1 => p[i] = q[i],
           p[1] \in D <=> q[1] \in D,
           NEW d \in Int, q[1] \in D => p[1].amount = q[1].amount + d
    PROVE  Total[Chosen(p, D)] = Total[Chosen(q, D)] + IF q[1] \in D THEN d ELSE 0
<1> DEFINE c == IF q[1] \in D THEN d ELSE 0
           v == Chosen(q, D)
           w == Chosen(p, D)
<1>1. /\ w \in Seq(Int) /\ Len(w) = Len(p) /\ DOMAIN p = 1..Len(p)
      /\ v \in Seq(Int) /\ Len(v) = Len(q) /\ DOMAIN q = 1..Len(q)
      /\ Len(q) \in Nat
  BY ChosenType
<1>2. 1 \in 1..Len(q) /\ c \in Int
  BY <1>1
<1>3. w[1] = v[1] + c
  BY <1>1, <1>2 DEF Chosen
<1>4. \A i \in 1..Len(v) : i # 1 => w[i] = v[i]
  <2> TAKE i \in 1..Len(v)
  <2>1. i \in DOMAIN p /\ i \in DOMAIN q /\ (i # 1 => p[i] = q[i])
    BY <1>1
  <2> QED
    BY <2>1 DEF Chosen
<1>5. Changed(v, w, 1, c)
  BY <1>1, <1>2, <1>3, <1>4 DEF Changed
<1> HIDE DEF v, w, c
<1>6. Total[w] = Total[v] + c
  BY <1>1, <1>2, <1>5, TotalChange
<1> QED
  BY <1>6 DEF v, w, c

LEMMA ChosenNatural ==
    ASSUME NEW S, NEW q \in Seq(S), NEW D, \A r \in S : r \in D => r.amount \in Nat
    PROVE  Total[Chosen(q, D)] \in Nat
<1>1. DOMAIN q = 1..Len(q) /\ Len(q) \in Nat
  OBVIOUS
<1>2. \A i \in 1..Len(q) : q[i] \in D => q[i].amount \in Nat
  OBVIOUS
<1>3. Chosen(q, D) \in [1..Len(q) -> Nat]
  BY <1>1, <1>2 DEF Chosen
<1>4. Chosen(q, D) \in Seq(Nat)
  BY <1>1, <1>3
<1> QED
  BY <1>4, TotalNatural

LEMMA ChosenNone ==
    ASSUME NEW S, HasAmount(S), NEW q \in Seq(S), NEW D, \A i \in DOMAIN q : q[i] \notin D
    PROVE  Total[Chosen(q, D)] = 0
<1>1. /\ Chosen(q, D) \in Seq(Int) /\ Len(Chosen(q, D)) = Len(q) /\ DOMAIN q = 1..Len(q)
  BY ChosenType
<1>2. \A i \in 1..Len(Chosen(q, D)) : Chosen(q, D)[i] = 0
  BY <1>1 DEF Chosen
<1> QED
  BY <1>1, <1>2, TotalNothing

-----------------------------------------------------------------------------
(* The sums of H2SendWindow.                                                *)

WindowRequest == [id : StreamIds, amount : Nat]

\* What t has asked for, in q; what is queued for a stream, in p.
Wanted(q, t) ==
    Total[[i \in DOMAIN q |-> IF q[i].kind = "GetWindow" /\ q[i].from = t
                              THEN q[i].amount ELSE 0]]

Queued(p, id) == Total[[i \in DOMAIN p |-> IF p[i].id = id THEN p[i].amount ELSE 0]]

LEMMA Amounts ==
    /\ HasAmount(ConnectionReq) /\ HasAmount(StreamReq) /\ HasAmount(WindowRequest)
    /\ \A r \in ConnectionReq : r.amount \in Nat
    /\ \A r \in StreamReq : r.kind = "AvailableWindow" => r.amount \in Nat
BY DEF HasAmount, ConnectionReq, StreamReq, WindowRequest

LEMMA CarriedChosen ==
    ASSUME NEW S, NEW q \in Seq(S), NEW kind
    PROVE  Carried(q, kind) = Total[Chosen(q, {r \in S : r.kind = kind})]
<1>1. \A i \in DOMAIN q : q[i] \in S
  OBVIOUS
<1>2. Chosen(q, {r \in S : r.kind = kind})
          = [i \in DOMAIN q |-> IF q[i].kind = kind THEN q[i].amount ELSE 0]
  BY <1>1 DEF Chosen
<1> QED
  BY <1>2 DEF Carried

LEMMA CarriedAppend ==
    ASSUME NEW S, HasAmount(S), NEW q \in Seq(S), NEW m \in S, NEW kind
    PROVE  Carried(Append(q, m), kind)
               = Carried(q, kind) + IF m.kind = kind THEN m.amount ELSE 0
<1> DEFINE D == {r \in S : r.kind = kind}
<1>1. Append(q, m) \in Seq(S) /\ (m \in D <=> m.kind = kind)
  OBVIOUS
<1>2. Carried(q, kind) = Total[Chosen(q, D)]
  BY CarriedChosen
<1>3. Carried(Append(q, m), kind) = Total[Chosen(Append(q, m), D)]
  <2> DEFINE p == Append(q, m)
  <2>1. p \in Seq(S)
    BY <1>1
  <2> HIDE DEF p
  <2>2. Carried(p, kind) = Total[Chosen(p, D)]
    BY <2>1, CarriedChosen
  <2> QED
    BY <2>2 DEF p
<1> HIDE DEF D
<1> QED
  BY <1>1, <1>2, <1>3, ChosenAppend

LEMMA CarriedTail ==
    ASSUME NEW S, HasAmount(S), NEW q \in Seq(S), q # << >>, NEW kind
    PROVE  Carried(Tail(q), kind)
               = Carried(q, kind) - IF Head(q).kind = kind THEN Head(q).amount ELSE 0
<1> DEFINE D == {r \in S : r.kind = kind}
<1>1. Tail(q) \in Seq(S) /\ (Head(q) \in D <=> Head(q).kind = kind)
  OBVIOUS
<1>2. Carried(q, kind) = Total[Chosen(q, D)]
  BY CarriedChosen
<1>3. Carried(Tail(q), kind) = Total[Chosen(Tail(q), D)]
  <2> DEFINE p == Tail(q)
  <2>1. p \in Seq(S)
    BY <1>1
  <2> HIDE DEF p
  <2>2. Carried(p, kind) = Total[Chosen(p, D)]
    BY <2>1, CarriedChosen
  <2> QED
    BY <2>2 DEF p
<1> HIDE DEF D
<1> QED
  BY <1>1, <1>2, <1>3, ChosenTail

LEMMA CarriedTypes ==
    /\ \A q \in Seq(ConnectionReq) : \A kind : Carried(q, kind) \in Nat
    /\ \A q \in Seq(StreamReq) : Carried(q, "AvailableWindow") \in Nat
    /\ \A kind : Carried(<< >>, kind) = 0
<1>1. ASSUME NEW q \in Seq(ConnectionReq), NEW kind PROVE Carried(q, kind) \in Nat
  <2> DEFINE D == {r \in ConnectionReq : r.kind = kind}
  <2>1. Carried(q, kind) = Total[Chosen(q, D)]
    BY CarriedChosen
  <2> HIDE DEF D
  <2> QED
    BY <2>1, ChosenNatural, Amounts
<1>2. ASSUME NEW q \in Seq(StreamReq) PROVE Carried(q, "AvailableWindow") \in Nat
  <2> DEFINE D == {r \in StreamReq : r.kind = "AvailableWindow"}
  <2>1. Carried(q, "AvailableWindow") = Total[Chosen(q, D)]
    BY CarriedChosen
  <2>2. \A r \in StreamReq : r \in D => r.amount \in Nat
    BY Amounts
  <2> HIDE DEF D
  <2> QED
    BY <2>1, <2>2, ChosenNatural
<1>3. ASSUME NEW kind PROVE Carried(<< >>, kind) = 0
  <2>1. [i \in DOMAIN << >> |-> IF << >>[i].kind = kind THEN << >>[i].amount ELSE 0] = << >>
    OBVIOUS
  <2> QED
    BY <2>1, TotalDefined DEF Carried
<1> QED
  BY <1>1, <1>2, <1>3

LEMMA WantedChosen ==
    ASSUME NEW q \in Seq(ConnectionReq), NEW t
    PROVE  Wanted(q, t)
               = Total[Chosen(q, {r \in ConnectionReq : r.kind = "GetWindow" /\ r.from = t})]
<1>1. \A i \in DOMAIN q : q[i] \in ConnectionReq
  OBVIOUS
<1>2. Chosen(q, {r \in ConnectionReq : r.kind = "GetWindow" /\ r.from = t})
          = [i \in DOMAIN q |-> IF q[i].kind = "GetWindow" /\ q[i].from = t
                                THEN q[i].amount ELSE 0]
  BY <1>1 DEF Chosen
<1> QED
  BY <1>2 DEF Wanted

LEMMA WantedType ==
    /\ \A q \in Seq(ConnectionReq) : \A t : Wanted(q, t) \in Nat
    /\ \A t : CarriedFor(t, "GetWindow") = Wanted(conn_rx, t)
<1>1. ASSUME NEW q \in Seq(ConnectionReq), NEW t PROVE Wanted(q, t) \in Nat
  <2> DEFINE D == {r \in ConnectionReq : r.kind = "GetWindow" /\ r.from = t}
  <2>1. Wanted(q, t) = Total[Chosen(q, D)]
    BY WantedChosen
  <2> HIDE DEF D
  <2> QED
    BY <2>1, ChosenNatural, Amounts
<1>2. \A t : CarriedFor(t, "GetWindow") = Wanted(conn_rx, t)
  BY DEF CarriedFor, Wanted
<1> QED
  BY <1>1, <1>2

LEMMA WantedAppend ==
    ASSUME NEW q \in Seq(ConnectionReq), NEW m \in ConnectionReq, NEW t
    PROVE  Wanted(Append(q, m), t)
               = Wanted(q, t) + IF m.kind = "GetWindow" /\ m.from = t THEN m.amount ELSE 0
<1> DEFINE D == {r \in ConnectionReq : r.kind = "GetWindow" /\ r.from = t}
<1>1. Append(q, m) \in Seq(ConnectionReq) /\ (m \in D <=> m.kind = "GetWindow" /\ m.from = t)
  OBVIOUS
<1>2. /\ Wanted(q, t) = Total[Chosen(q, D)]
      /\ Wanted(Append(q, m), t) = Total[Chosen(Append(q, m), D)]
  BY <1>1, WantedChosen
<1> HIDE DEF D
<1> QED
  BY <1>1, <1>2, ChosenAppend, Amounts

LEMMA WantedTail ==
    ASSUME NEW q \in Seq(ConnectionReq), q # << >>, NEW t
    PROVE  Wanted(Tail(q), t)
               = Wanted(q, t) - IF Head(q).kind = "GetWindow" /\ Head(q).from = t
                                THEN Head(q).amount ELSE 0
<1> DEFINE D == {r \in ConnectionReq : r.kind = "GetWindow" /\ r.from = t}
<1>1. /\ Tail(q) \in Seq(ConnectionReq)
      /\ Head(q) \in D <=> Head(q).kind = "GetWindow" /\ Head(q).from = t
  OBVIOUS
<1>2. /\ Wanted(q, t) = Total[Chosen(q, D)]
      /\ Wanted(Tail(q), t) = Total[Chosen(Tail(q), D)]
  BY <1>1, WantedChosen
<1> HIDE DEF D
<1> QED
  BY <1>1, <1>2, ChosenTail, Amounts

LEMMA QueuedChosen ==
    ASSUME NEW p \in Seq(WindowRequest), NEW id
    PROVE  Queued(p, id) = Total[Chosen(p, {r \in WindowRequest : r.id = id})]
<1>1. \A i \in DOMAIN p : p[i] \in WindowRequest
  OBVIOUS
<1>2. Chosen(p, {r \in WindowRequest : r.id = id})
          = [i \in DOMAIN p |-> IF p[i].id = id THEN p[i].amount ELSE 0]
  BY <1>1 DEF Chosen
<1> QED
  BY <1>2 DEF Queued

LEMMA QueuedType ==
    /\ \A p \in Seq(WindowRequest) : \A id : Queued(p, id) \in Nat
    /\ \A id : Queued(<< >>, id) = 0
    /\ \A p \in Seq(WindowRequest) : \A id : id \notin StreamIds => Queued(p, id) = 0
    /\ \A id : Pending(id) = Queued(pending_window_req, id)
<1>1. ASSUME NEW p \in Seq(WindowRequest), NEW id
      PROVE  Queued(p, id) \in Nat /\ (id \notin StreamIds => Queued(p, id) = 0)
  <2> DEFINE D == {r \in WindowRequest : r.id = id}
  <2>1. Queued(p, id) = Total[Chosen(p, D)]
    BY QueuedChosen
  <2>2. \A r \in WindowRequest : r \in D => r.amount \in Nat
    BY DEF WindowRequest
  <2>3. id \notin StreamIds => D = {}
    BY DEF WindowRequest
  <2> HIDE DEF D
  <2>4. Total[Chosen(p, D)] \in Nat
    BY <2>2, ChosenNatural
  <2>5. D = {} => Total[Chosen(p, D)] = 0
    BY ChosenNone, Amounts
  <2> QED
    BY <2>1, <2>3, <2>4, <2>5
<1>2. ASSUME NEW id PROVE Queued(<< >>, id) = 0
  <2>1. [i \in DOMAIN << >> |-> IF << >>[i].id = id THEN << >>[i].amount ELSE 0] = << >>
    OBVIOUS
  <2> QED
    BY <2>1, TotalDefined DEF Queued
<1>3. \A id : Pending(id) = Queued(pending_window_req, id)
  BY DEF Pending, Queued
<1> QED
  BY <1>1, <1>2, <1>3

LEMMA QueuedAppend ==
    ASSUME NEW p \in Seq(WindowRequest), NEW m \in WindowRequest, NEW id
    PROVE  Queued(Append(p, m), id) = Queued(p, id) + IF m.id = id THEN m.amount ELSE 0
<1> DEFINE D == {r \in WindowRequest : r.id = id}
<1>1. Append(p, m) \in Seq(WindowRequest) /\ (m \in D <=> m.id = id)
  OBVIOUS
<1>2. /\ Queued(p, id) = Total[Chosen(p, D)]
      /\ Queued(Append(p, m), id) = Total[Chosen(Append(p, m), D)]
  BY <1>1, QueuedChosen
<1> HIDE DEF D
<1> QED
  BY <1>1, <1>2, ChosenAppend, Amounts

LEMMA QueuedTail ==
    ASSUME NEW p \in Seq(WindowRequest), p # << >>, NEW id
    PROVE  Queued(Tail(p), id) = Queued(p, id) - IF Head(p).id = id THEN Head(p).amount ELSE 0
<1> DEFINE D == {r \in WindowRequest : r.id = id}
<1>1. Tail(p) \in Seq(WindowRequest) /\ (Head(p) \in D <=> Head(p).id = id)
  OBVIOUS
<1>2. /\ Queued(p, id) = Total[Chosen(p, D)]
      /\ Queued(Tail(p), id) = Total[Chosen(Tail(p), D)]
  BY <1>1, QueuedChosen
<1> HIDE DEF D
<1> QED
  BY <1>1, <1>2, ChosenTail, Amounts

\* Part of the first request is granted.
LEMMA QueuedFirst ==
    ASSUME NEW p \in Seq(WindowRequest), p # << >>, NEW n \in Nat, n <= Head(p).amount, NEW id
    PROVE  /\ [p EXCEPT ![1].amount = @ - n] \in Seq(WindowRequest)
           /\ Queued([p EXCEPT ![1].amount = @ - n], id)
                  = Queued(p, id) - IF Head(p).id = id THEN n ELSE 0
<1> DEFINE D == {r \in WindowRequest : r.id = id}
           r == [id |-> Head(p).id, amount |-> Head(p).amount - n]
           o == [p EXCEPT ![1].amount = @ - n]
           m == 0 - n
<1>1. Head(p) \in WindowRequest /\ Head(p) = p[1] /\ 1 \in DOMAIN p /\ DOMAIN p = 1..Len(p)
  OBVIOUS
<1>2. r \in WindowRequest /\ m \in Int /\ r.amount = Head(p).amount + m /\ r.id = Head(p).id
  BY <1>1 DEF WindowRequest
<1>3. o[1] = r
  BY <1>1 DEF WindowRequest
<1>4. \A i \in DOMAIN p : i # 1 => o[i] = p[i]
  BY <1>1
<1>5. o \in [1..Len(p) -> WindowRequest] /\ DOMAIN o = 1..Len(p)
  <2>1. DOMAIN o = 1..Len(p)
    BY <1>1
  <2>2. \A i \in 1..Len(p) : o[i] \in WindowRequest
    BY <1>1, <1>2, <1>3, <1>4
  <2>3. o = [i \in 1..Len(p) |-> o[i]]
    BY <1>1
  <2> HIDE DEF o
  <2> QED
    BY <2>1, <2>2, <2>3
<1> HIDE DEF o
<1>6. o \in Seq(WindowRequest) /\ Len(o) = Len(p)
  BY <1>5
<1> HIDE DEF r, m
<1>7. (o[1] \in D <=> p[1] \in D) /\ (p[1] \in D <=> Head(p).id = id)
  BY <1>1, <1>2, <1>3
<1>8. Queued(p, id) = Total[Chosen(p, D)] /\ Queued(o, id) = Total[Chosen(o, D)]
  BY <1>6, QueuedChosen
<1>9. \A i \in 1..Len(p) : i # 1 => o[i] = p[i]
  BY <1>1, <1>4
<1>10. o[1].amount = p[1].amount + m
  BY <1>1, <1>2, <1>3
<1> HIDE DEF D
<1>11. Total[Chosen(o, D)] = Total[Chosen(p, D)] + IF p[1] \in D THEN m ELSE 0
  BY <1>1, <1>2, <1>6, <1>7, <1>9, <1>10, ChosenFirst, Amounts
<1>12. Queued(p, id) \in Int
  BY QueuedType
<1>13. Queued(o, id) = Queued(p, id) - IF Head(p).id = id THEN n ELSE 0
  BY <1>7, <1>8, <1>11, <1>12 DEF m
<1> QED
  BY <1>6, <1>13 DEF o

LEMMA QueuedNone ==
    ASSUME NEW p \in Seq(WindowRequest), NEW id, \A i \in DOMAIN p : p[i].id # id
    PROVE  Queued(p, id) = 0
<1> DEFINE D == {r \in WindowRequest : r.id = id}
<1>1. Queued(p, id) = Total[Chosen(p, D)]
  BY QueuedChosen
<1>2. \A i \in DOMAIN p : p[i] \notin D
  OBVIOUS
<1> HIDE DEF D
<1> QED
  BY <1>1, <1>2, ChosenNone, Amounts

-----------------------------------------------------------------------------
(* Whose stream is whose.                                                   *)

Used(t) == task[t].at # "unused"

\* A task owns its stream, and the connection forgets it only when the task has exited.
OwnStreams ==
    /\ \A t \in Tasks : IF Used(t) THEN task[t].id <= biggest_open_stream ELSE task[t].id = 0
    /\ \A t, u \in Tasks : Used(t) /\ Used(u) /\ task[t].id = task[u].id => t = u
    /\ \A id \in StreamIds :
           streams[id] # NoTask => Used(streams[id]) /\ task[streams[id]].id = id
    /\ \A t \in Tasks : Used(t) /\ streams[task[t].id] = NoTask => task[t].at = "exited"

OwnRequest(req) ==
    /\ Used(req.from) /\ req.id = task[req.from].id
    /\ req.kind = "StreamClosed" => task[req.from].at = "exited"

OwnRequests == \A i \in DOMAIN conn_rx : OwnRequest(conn_rx[i])

\* A step that opens no stream.
Continues ==
    \A t \in Tasks :
        /\ (task'[t].at = "unused") <=> (task[t].at = "unused")
        /\ task'[t].id = task[t].id
        /\ task[t].at = "exited" => task'[t].at = "exited"

LEMMA OwnStreamsKept ==
    ASSUME TypeInv, OwnStreams, biggest_open_stream' = biggest_open_stream, Continues,
           \A id \in StreamIds :
               \/ streams'[id] = streams[id]
               \/ /\ streams'[id] = NoTask
                  /\ \A t \in Tasks :
                         task[t].at # "unused" /\ task[t].id = id => task[t].at = "exited"
    PROVE  OwnStreams'
<1>1. streams \in [StreamIds -> Tasks \cup {NoTask}]
  BY DEF TypeInv, TypeOK
<1>2. \A t \in Tasks : IF task'[t].at # "unused" THEN task'[t].id <= biggest_open_stream'
                                                  ELSE task'[t].id = 0
  BY DEF OwnStreams, Used, Continues
<1>3. \A t, u \in Tasks :
          task'[t].at # "unused" /\ task'[u].at # "unused" /\ task'[t].id = task'[u].id => t = u
  BY DEF OwnStreams, Used, Continues
<1>4. ASSUME NEW id \in StreamIds, streams'[id] # NoTask
      PROVE  task'[streams'[id]].at # "unused" /\ task'[streams'[id]].id = id
  <2>1. streams'[id] = streams[id] /\ streams[id] \in Tasks
    BY <1>1, <1>4
  <2>2. task[streams[id]].at # "unused" /\ task[streams[id]].id = id
    BY <1>4, <2>1 DEF OwnStreams, Used
  <2> QED
    BY <2>1, <2>2 DEF Continues
<1>5. ASSUME NEW t \in Tasks, task'[t].at # "unused", streams'[task'[t].id] = NoTask
      PROVE  task'[t].at = "exited"
  <2>1. task[t].at # "unused" /\ task'[t].id = task[t].id /\ task[t].id \in StreamIds
    BY <1>5 DEF Continues, TypeInv
  <2>2. task[t].at = "exited"
    BY <1>5, <2>1 DEF OwnStreams, Used
  <2> QED
    BY <2>2 DEF Continues
<1> QED
  BY <1>2, <1>3, <1>4, <1>5 DEF OwnStreams, Used

LEMMA OwnRequestsKept ==
    ASSUME TypeInv, OwnRequests,
           \A t \in Tasks : task[t].at # "unused" =>
               /\ task'[t].at # "unused" /\ task'[t].id = task[t].id
               /\ task[t].at = "exited" => task'[t].at = "exited",
           \/ conn_rx' = conn_rx
           \/ conn_rx # << >> /\ conn_rx' = Tail(conn_rx)
           \/ \E req \in ConnectionReq : conn_rx' = Append(conn_rx, req) /\ OwnRequest(req)'
    PROVE  OwnRequests'
<1>1. conn_rx \in Seq(ConnectionReq)
  BY DEF TypeInv, TypeOK
<1>2. ASSUME NEW req \in ConnectionReq, OwnRequest(req) PROVE OwnRequest(req)'
  <2>1. req.from \in Tasks
    BY DEF ConnectionReq
  <2> QED
    BY <1>2, <2>1 DEF OwnRequest, Used
<1>3. \A i \in DOMAIN conn_rx : OwnRequest(conn_rx[i]) /\ conn_rx[i] \in ConnectionReq
  BY <1>1 DEF OwnRequests
<1>4. ASSUME NEW i \in DOMAIN conn_rx', NEW req, req = conn_rx'[i]
      PROVE  OwnRequest(req)'
  <2>1. CASE conn_rx' = conn_rx
    BY <1>2, <1>3, <1>4, <2>1
  <2>2. CASE conn_rx # << >> /\ conn_rx' = Tail(conn_rx)
    <3>1. PICK j \in DOMAIN conn_rx : conn_rx[j] = req
      <4>1. i + 1 \in DOMAIN conn_rx /\ conn_rx[i + 1] = conn_rx'[i]
        BY <1>1, <1>4, <2>2
      <4> QED
        BY <1>4, <4>1
    <3> QED
      BY <1>2, <1>3, <3>1
  <2>3. ASSUME NEW m \in ConnectionReq, conn_rx' = Append(conn_rx, m), OwnRequest(m)'
        PROVE  OwnRequest(req)'
    <3>1. req = m \/ \E j \in DOMAIN conn_rx : req = conn_rx[j]
      BY <1>1, <1>4, <2>3
    <3> QED
      BY <1>2, <1>3, <2>3, <3>1
  <2> QED
    BY <2>1, <2>2, <2>3
<1> QED
  BY <1>4 DEF OwnRequests

\* What all steps of a stream task have in common.
OneTask(t) ==
    /\ TaskStep
    /\ task[t].at \notin {"unused", "exited"} /\ task'[t].at # "unused"
    /\ task'[t].id = task[t].id
    /\ \A u \in Tasks : u # t => task'[u] = task[u] /\ rx'[u] = rx[u]
    /\ \/ conn_rx' = conn_rx
       \/ \E req \in ConnectionReq :
              /\ conn_rx' = Append(conn_rx, req)
              /\ req.from = t /\ req.id = task[t].id
              /\ req.kind = "StreamClosed" => task'[t].at = "exited"

LEMMA TaskSteps ==
    ASSUME ConstantsAssumption, TypeInv, Running, NEW t \in Tasks, StreamTask(t)
    PROVE  OneTask(t)
<1>1. task \in [Tasks -> Task] /\ task[t] \in Task /\ rx \in [Tasks -> Seq(StreamReq)]
  BY DEF TypeInv, TypeOK
<1>2. ASSUME NEW kind \in {"Response", "Frame", "GetWindow", "PutWindow",
                           "StreamClosing", "StreamClosed"},
             NEW amount \in Nat, NEW end_stream \in BOOLEAN, task[t].at # "unused",
             conn_rx' = Append(conn_rx, Request(kind, t, amount, end_stream)),
             kind = "StreamClosed" => task'[t].at = "exited"
      PROVE  \E req \in ConnectionReq :
                 /\ conn_rx' = Append(conn_rx, req)
                 /\ req.from = t /\ req.id = task[t].id
                 /\ req.kind = "StreamClosed" => task'[t].at = "exited"
  <2> DEFINE req == Request(kind, t, amount, end_stream)
  <2>1. req \in ConnectionReq
    BY <1>2, RequestType
  <2>2. req.from = t /\ req.id = task[t].id /\ req.kind = kind
    BY DEF Request
  <2> HIDE DEF req
  <2> QED
    BY <1>2, <2>1, <2>2 DEF req
<1>3. CASE SendResponse(t)
  <2>1. PICK size \in 0..MaxBody, no_body \in BOOLEAN :
            /\ conn_rx' = Append(conn_rx, Request("Response", t, 0, no_body))
            /\ task' = [task EXCEPT ![t].at = IF no_body THEN "closing" ELSE "reading",
                                    ![t].body = size]
    BY <1>3 DEF SendResponse, Send
  <2>2. task[t].at = "handling" /\ rx' = rx /\ TaskStep
    BY <1>3 DEF SendResponse
  <2>3. /\ task'[t].at # "unused" /\ task'[t].id = task[t].id
        /\ \A u \in Tasks : u # t => task'[u] = task[u]
    BY <1>1, <2>1 DEF Task
  <2> QED
    BY <1>2, <2>1, <2>2, <2>3 DEF OneTask
<1>4. CASE ReadChunk(t)
  <2>1. PICK n \in 1..MaxChunk :
            task' = [task EXCEPT ![t].at = "sending", ![t].body = @ - n,
                                 ![t].left = n, ![t].window_needed = n]
    BY <1>4 DEF ReadChunk
  <2>2. task[t].at = "reading" /\ conn_rx' = conn_rx /\ rx' = rx /\ TaskStep
    BY <1>4 DEF ReadChunk
  <2>3. /\ task'[t].at # "unused" /\ task'[t].id = task[t].id
        /\ \A u \in Tasks : u # t => task'[u] = task[u]
    BY <1>1, <2>1 DEF Task
  <2> QED
    BY <2>2, <2>3 DEF OneTask
<1>13. CASE ReadFails(t)
  BY <1>1, <1>13 DEF ReadFails, OneTask, Task
<1>5. CASE EndBody(t)
  BY <1>1, <1>2, <1>5 DEF EndBody, Send, OneTask, Task
<1>6. CASE RequestWindow(t)
  <2>1. AskFor(t) \in Nat
    BY <1>1, <1>6 DEF RequestWindow, AskFor, CanRequest, Task
  <2> QED
    BY <1>1, <1>2, <1>6, <2>1 DEF RequestWindow, Send, OneTask, Task
<1>7. CASE SendData(t)
  <2> DEFINE amount == IF task[t].available_window > task[t].left
                       THEN task[t].left ELSE task[t].available_window
  <2>1. amount \in Nat
    BY <1>1 DEF Task
  <2>2. /\ conn_rx' = Append(conn_rx, Request("Frame", t, amount, FALSE))
        /\ task[t].at = "sending" /\ rx' = rx /\ TaskStep
        /\ task' = [task EXCEPT ![t].available_window = Spent(t, amount),
                                ![t].left = @ - amount,
                                ![t].at = IF task[t].left = amount
                                          THEN "reading" ELSE "sending"]
    BY <1>7 DEF SendData, Send
  <2> HIDE DEF amount
  <2>3. /\ task'[t].at # "unused" /\ task'[t].id = task[t].id
        /\ \A u \in Tasks : u # t => task'[u] = task[u]
    BY <1>1, <2>2 DEF Task
  <2> QED
    BY <1>2, <2>1, <2>2, <2>3 DEF OneTask
<1>8. CASE Receive(t)
  BY <1>1, <1>8 DEF Receive, WaitsForWindow, OneTask, Task
<1>9. CASE GiveBack(t)
  <2>1. task[t].available_window \in Nat
    BY <1>1 DEF Task
  <2> QED
    BY <1>1, <1>2, <1>9, <2>1 DEF GiveBack, Send, OneTask, Task
<1>10. CASE SendClosing(t)
  BY <1>1, <1>2, <1>10 DEF SendClosing, Send, OneTask, Task
<1>11. CASE SendClosed(t)
  BY <1>1, <1>2, <1>11 DEF SendClosed, Send, OneTask, Task
<1>12. CASE SendFails(t)
  BY <1>12 DEF SendFails
<1> QED
  BY <1>3, <1>4, <1>5, <1>6, <1>7, <1>8, <1>9, <1>10, <1>11, <1>12, <1>13
   DEF StreamTask

\* A stream that is reset loses its handle only if its task has exited.
LEMMA ResetOwn ==
    ASSUME TypeInv, OwnStreams, NEW id \in StreamIds, ResetStream(id)
    PROVE  \A j \in StreamIds :
               \/ streams'[j] = streams[j]
               \/ /\ streams'[j] = NoTask
                  /\ \A t \in Tasks :
                         task[t].at # "unused" /\ task[t].id = j => task[t].at = "exited"
<1>1. streams \in [StreamIds -> Tasks \cup {NoTask}]
  BY DEF TypeInv, TypeOK
<1>2. streams' = [streams EXCEPT ![id] = IF streams[id] # NoTask /\ Alive(streams[id])
                                         THEN streams[id] ELSE NoTask]
  BY DEF ResetStream
<1>3. \A j \in StreamIds : j # id => streams'[j] = streams[j]
  BY <1>1, <1>2
<1>4. CASE streams[id] = NoTask \/ Alive(streams[id])
  BY <1>1, <1>2, <1>3, <1>4
<1>5. CASE streams[id] # NoTask /\ ~Alive(streams[id])
  <2>1. streams'[id] = NoTask
    BY <1>1, <1>2, <1>5
  <2>2. task[streams[id]].at = "exited" /\ task[streams[id]].id = id
    BY <1>1, <1>5 DEF OwnStreams, Used, Alive
  <2>3. ASSUME NEW t \in Tasks, task[t].at # "unused", task[t].id = id
        PROVE  task[t].at = "exited"
    <3>1. t = streams[id]
      BY <1>1, <1>5, <2>2, <2>3 DEF OwnStreams, Used
    <3> QED
      BY <2>2, <3>1
  <2> QED
    BY <1>3, <2>1, <2>3
<1> QED
  BY <1>4, <1>5

\* A stream is opened: the peer has not used its identifier before.
LEMMA OpenOwn ==
    ASSUME ConstantsAssumption, TypeInv, "REOPEN" \notin PeerSends, OwnStreams, OwnRequests,
           NEW id \in StreamIds, NEW kind \in PeerSends, NEW t \in Tasks,
           RecvRequest(id, kind, t)
    PROVE  /\ OwnStreams' /\ OwnRequests'
           /\ id > biggest_open_stream /\ biggest_open_stream' = id
<1>1. streams[id] = NoTask /\ id > biggest_open_stream /\ biggest_open_stream' = id
  BY DEF RecvRequest, Sends, LegalId
<1>2. /\ streams \in [StreamIds -> Tasks \cup {NoTask}] /\ task \in [Tasks -> Task]
      /\ streams' = [streams EXCEPT ![id] = t] /\ task[t].at = "unused"
      /\ \A u \in Tasks : u # t => task'[u] = task[u]
      /\ task'[t].at = "handling" /\ task'[t].id = id
      /\ conn_rx' = conn_rx
      /\ StreamIds \subseteq Nat /\ biggest_open_stream \in Nat
  <2>1. /\ streams \in [StreamIds -> Tasks \cup {NoTask}] /\ task \in [Tasks -> Task]
        /\ task[t] \in Task /\ biggest_open_stream \in StreamIds \cup {0}
    BY DEF TypeInv, TypeOK
  <2>2. /\ streams' = [streams EXCEPT ![id] = t] /\ task[t].at = "unused"
        /\ task' = [task EXCEPT ![t].at = "handling", ![t].id = id,
                                ![t].window = initial_window_size]
        /\ conn_rx' = conn_rx
    BY DEF RecvRequest
  <2>3. /\ \A u \in Tasks : u # t => task'[u] = task[u]
        /\ task'[t].at = "handling" /\ task'[t].id = id
    BY <2>1, <2>2 DEF Task
  <2>4. StreamIds \subseteq Nat /\ biggest_open_stream \in Nat
    BY <2>1 DEF ConstantsAssumption
  <2> QED
    BY <2>1, <2>2, <2>3, <2>4
<1>3. \A u \in Tasks : task[u].at # "unused" => task[u].id <= biggest_open_stream /\ task[u].id # id
  <2> SUFFICES ASSUME NEW u \in Tasks, task[u].at # "unused"
               PROVE  task[u].id <= biggest_open_stream /\ task[u].id # id
    OBVIOUS
  <2>1. task[u].id <= biggest_open_stream /\ task[u].id \in StreamIds
    BY DEF OwnStreams, Used, TypeInv
  <2>2. id > biggest_open_stream
    BY <1>1
  <2>3. id \in Nat /\ biggest_open_stream \in Nat /\ task[u].id \in Nat
    BY <1>2, <2>1
  <2> QED
    BY <2>1, <2>2, <2>3
<1>4. \A u \in Tasks : IF task'[u].at # "unused" THEN task'[u].id <= biggest_open_stream'
                                                 ELSE task'[u].id = 0
  <2> TAKE u \in Tasks
  <2>1. CASE u = t
    BY <1>1, <1>2, <2>1
  <2>2. CASE u # t /\ task[u].at # "unused"
    <3>1. task[u].id \in Nat /\ id \in Nat /\ task[u].id <= biggest_open_stream
      BY <1>2, <1>3, <2>2 DEF TypeInv
    <3> QED
      BY <1>1, <1>2, <2>2, <3>1
  <2>3. CASE u # t /\ task[u].at = "unused"
    BY <1>2, <2>3 DEF OwnStreams, Used
  <2> QED
    BY <2>1, <2>2, <2>3
<1>5. \A u, v \in Tasks :
          task'[u].at # "unused" /\ task'[v].at # "unused" /\ task'[u].id = task'[v].id => u = v
  BY <1>2, <1>3 DEF OwnStreams, Used
<1>6. \A j \in StreamIds :
          streams'[j] # NoTask => task'[streams'[j]].at # "unused" /\ task'[streams'[j]].id = j
  BY <1>2 DEF OwnStreams, Used
<1>7. \A u \in Tasks :
          task'[u].at # "unused" /\ streams'[task'[u].id] = NoTask => task'[u].at = "exited"
  <2> SUFFICES ASSUME NEW u \in Tasks, task'[u].at # "unused", streams'[task'[u].id] = NoTask
               PROVE  task'[u].at = "exited"
    OBVIOUS
  <2>1. u # t
    BY <1>2, ConstantsAssumption DEF ConstantsAssumption
  <2>2. task'[u] = task[u] /\ task[u].id # id /\ task[u].id \in StreamIds
    BY <1>2, <1>3, <2>1 DEF TypeInv
  <2>3. streams[task[u].id] = NoTask
    BY <1>2, <2>2
  <2> QED
    BY <2>2, <2>3 DEF OwnStreams, Used
<1>8. OwnStreams'
  BY <1>4, <1>5, <1>6, <1>7 DEF OwnStreams, Used
<1>9. \A u \in Tasks : task[u].at # "unused" =>
          /\ task'[u].at # "unused" /\ task'[u].id = task[u].id
          /\ task[u].at = "exited" => task'[u].at = "exited"
  BY <1>2
<1>10. OwnRequests'
  BY <1>2, <1>9, OwnRequestsKept
<1> QED
  BY <1>1, <1>8, <1>10

LEMMA OwnStep ==
    ASSUME ConstantsAssumption, TypeInv, Running, "REOPEN" \notin PeerSends,
           OwnStreams, OwnRequests, [Next]_vars
    PROVE  OwnStreams' /\ OwnRequests'
<1> USE DEF loopVars, windowVars, streamVars, shutdownVars, taskVars, peerVars, wireVars
\* All that is left to show of a step that opens no stream.
<1>1. ASSUME Continues, biggest_open_stream' = biggest_open_stream,
             \A id \in StreamIds :
                 \/ streams'[id] = streams[id]
                 \/ /\ streams'[id] = NoTask
                    /\ \A t \in Tasks :
                           task[t].at # "unused" /\ task[t].id = id => task[t].at = "exited",
             \/ conn_rx' = conn_rx
             \/ conn_rx # << >> /\ conn_rx' = Tail(conn_rx)
             \/ \E req \in ConnectionReq : conn_rx' = Append(conn_rx, req) /\ OwnRequest(req)'
      PROVE  OwnStreams' /\ OwnRequests'
  <2>1. OwnStreams'
    BY <1>1, OwnStreamsKept
  <2>2. \A t \in Tasks : task[t].at # "unused" =>
            /\ task'[t].at # "unused" /\ task'[t].id = task[t].id
            /\ task[t].at = "exited" => task'[t].at = "exited"
    BY <1>1 DEF Continues
  <2>3. OwnRequests'
    BY <1>1, <2>2, OwnRequestsKept
  <2> QED
    BY <2>1, <2>3
<1>2. task' = task => Continues
  BY DEF Continues
<1>3. ASSUME NEW id \in StreamIds, NEW kind \in PeerSends, NEW t \in Tasks,
             RecvRequest(id, kind, t)
      PROVE  OwnStreams' /\ OwnRequests'
  BY <1>3, OpenOwn
<1>4. ASSUME NEW id \in StreamIds, NEW kind \in PeerSends, RecvRejectedHeaders(id, kind)
      PROVE  OwnStreams' /\ OwnRequests'
  <2>1. /\ ResetStream(id) /\ task' = task /\ conn_rx' = conn_rx
        /\ biggest_open_stream' = biggest_open_stream
    BY <1>4 DEF RecvRejectedHeaders
  <2> QED
    BY <1>1, <1>2, <2>1, ResetOwn
<1>5. ASSUME NEW id \in StreamIds, NEW n \in Increments, RecvStreamWindowUpdate(id, n)
      PROVE  OwnStreams' /\ OwnRequests'
  <2>1. /\ ResetStream(id) \/ streams' = streams
        /\ task' = task /\ conn_rx' = conn_rx
        /\ biggest_open_stream' = biggest_open_stream
    BY <1>5 DEF RecvStreamWindowUpdate
  <2> QED
    BY <1>1, <1>2, <2>1, ResetOwn
<1>6. ASSUME task' = task, conn_rx' = conn_rx, streams' = streams,
             biggest_open_stream' = biggest_open_stream
      PROVE  OwnStreams' /\ OwnRequests'
  BY <1>1, <1>2, <1>6
<1>7. CASE Peer
  <2>1. ASSUME NEW id \in StreamIds, NEW kind \in PeerSends,
               RecvIllegalHeaders(id, kind)
        PROVE  OwnStreams' /\ OwnRequests'
    BY <1>6, <2>1 DEF RecvIllegalHeaders, Leave
  <2>2. ASSUME NEW id \in StreamIds, RecvUndecodableHeaders(id)
        PROVE  OwnStreams' /\ OwnRequests'
    BY <1>6, <2>2 DEF RecvUndecodableHeaders, Leave
  <2>3. ASSUME NEW id \in StreamIds, RecvRstStream(id)
        PROVE  OwnStreams' /\ OwnRequests'
    BY <1>6, <2>3 DEF RecvRstStream
  <2>4. ASSUME NEW n \in Increments, RecvGlobalWindowUpdate(n)
        PROVE  OwnStreams' /\ OwnRequests'
    BY <1>6, <2>4 DEF RecvGlobalWindowUpdate
  <2>5. ASSUME NEW size \in InitialWindows, RecvSettings(size)
        PROVE  OwnStreams' /\ OwnRequests'
    BY <1>6, <2>5 DEF RecvSettings
  <2>6. CASE RecvGoAway \/ ConnectionFails
    BY <1>6, <2>6 DEF RecvGoAway, ConnectionFails, Leave
  <2> QED
    BY <1>3, <1>4, <1>5, <1>7, <2>1, <2>2, <2>3, <2>4, <2>5, <2>6 DEF Peer
<1>8. CASE AnnounceShutdown \/ NoticeShutdown \/ FlushWriteBuffer \/ UNCHANGED vars
  BY <1>6, <1>8 DEF AnnounceShutdown, NoticeShutdown, StopAccepting, FlushWriteBuffer, vars
<1>9. CASE DistributeWindow
  BY <1>6, <1>9 DEF DistributeWindow, DropWindowRequest, GiveWindow
<1>10. CASE WriteResponse \/ WriteFrame \/ GetWindow \/ PutWindow
  <2>1. /\ task' = task /\ conn_rx # << >> /\ conn_rx' = Tail(conn_rx) /\ streams' = streams
        /\ biggest_open_stream' = biggest_open_stream
    BY <1>10 DEF WriteResponse, WriteFrame, GetWindow, PutWindow, Take
  <2> QED
    BY <1>1, <1>2, <2>1
<1>11. CASE StreamClosing
  <2>1. /\ task' = task /\ conn_rx # << >> /\ conn_rx' = Tail(conn_rx)
        /\ ResetStream(Head(conn_rx).id) \/ streams' = streams
        /\ biggest_open_stream' = biggest_open_stream
    BY <1>11 DEF StreamClosing, Take
  <2>2. Head(conn_rx) \in ConnectionReq
    BY <2>1, HeadTail DEF TypeInv, TypeOK
  <2>3. Head(conn_rx).id \in StreamIds
    BY <2>2 DEF ConnectionReq
  <2> QED
    BY <1>1, <1>2, <2>1, <2>3, ResetOwn
<1>12. CASE StreamClosed
  <2> DEFINE req == Head(conn_rx)
  <2>1. /\ task' = task /\ conn_rx # << >> /\ conn_rx' = Tail(conn_rx)
        /\ streams' = [streams EXCEPT ![req.id] = NoTask] /\ req.kind = "StreamClosed"
        /\ biggest_open_stream' = biggest_open_stream
    BY <1>12 DEF StreamClosed, Take
  <2>2. conn_rx \in Seq(ConnectionReq) /\ streams \in [StreamIds -> Tasks \cup {NoTask}]
    BY DEF TypeInv, TypeOK
  <2>3. 1 \in DOMAIN conn_rx /\ req = conn_rx[1] /\ req \in ConnectionReq
    BY <2>1, <2>2
  <2>4. req.from \in Tasks /\ OwnRequest(req)
    BY <2>3 DEF OwnRequests, ConnectionReq
  <2> HIDE DEF req
  <2>5. \A t \in Tasks : task[t].at # "unused" /\ task[t].id = req.id => task[t].at = "exited"
    BY <2>1, <2>4 DEF OwnRequest, OwnStreams, Used
  <2>6. \A id \in StreamIds : streams'[id] = streams[id] \/ (streams'[id] = NoTask /\ id = req.id)
    BY <2>1, <2>2
  <2> QED
    BY <1>1, <1>2, <2>1, <2>5, <2>6
<1>13. ASSUME NEW t \in Tasks, StreamTask(t)
       PROVE  OwnStreams' /\ OwnRequests'
  <2>1. OneTask(t)
    BY <1>13, TaskSteps
  <2>2. streams' = streams /\ biggest_open_stream' = biggest_open_stream
    BY <2>1 DEF OneTask, TaskStep
  <2>3. Continues
    BY <2>1 DEF OneTask, Continues
  <2>4. ASSUME NEW req \in ConnectionReq, req.from = t, req.id = task[t].id,
               req.kind = "StreamClosed" => task'[t].at = "exited"
        PROVE  OwnRequest(req)'
    BY <2>1, <2>4 DEF OneTask, OwnRequest, Used
  <2>5. \/ conn_rx' = conn_rx
        \/ \E req \in ConnectionReq : conn_rx' = Append(conn_rx, req) /\ OwnRequest(req)'
    BY <2>1, <2>4 DEF OneTask
  <2> QED
    BY <1>1, <2>2, <2>3, <2>5
<1> QED
  BY <1>7, <1>8, <1>9, <1>10, <1>11, <1>12, <1>13 DEF Next, Streams

-----------------------------------------------------------------------------
(* The pool of window and those who wait for it.                            *)

Known(p, n) == \A i \in DOMAIN p : p[i].id <= n

\* Window is only handed out while there is some; the loop of distribute_window runs
\* exactly as long as it has something to do.
Pool ==
    /\ global_window \in Nat
    /\ pending_window_req \in Seq(WindowRequest)
    /\ Known(pending_window_req, biggest_open_stream)
    /\ distributing <=> global_window > 0 /\ pending_window_req # << >>

LEMMA KnownQueues ==
    ASSUME NEW p \in Seq(WindowRequest), NEW n \in Nat, Known(p, n)
    PROVE  /\ \A m \in WindowRequest : m.id <= n =>
                  Append(p, m) \in Seq(WindowRequest) /\ Known(Append(p, m), n)
           /\ p # << >> => Tail(p) \in Seq(WindowRequest) /\ Known(Tail(p), n)
<1>1. ASSUME NEW m \in WindowRequest, m.id <= n
      PROVE  Append(p, m) \in Seq(WindowRequest) /\ Known(Append(p, m), n)
  <2>1. \A i \in DOMAIN Append(p, m) : Append(p, m)[i] = m \/ \E j \in DOMAIN p : Append(p, m)[i] = p[j]
    OBVIOUS
  <2> QED
    BY <1>1, <2>1 DEF Known
<1>2. ASSUME p # << >>
      PROVE  Tail(p) \in Seq(WindowRequest) /\ Known(Tail(p), n)
  <2>1. \A i \in DOMAIN Tail(p) : i + 1 \in DOMAIN p /\ Tail(p)[i] = p[i + 1]
    BY <1>2
  <2> QED
    BY <1>2, <2>1 DEF Known
<1> QED
  BY <1>1, <1>2

\* Part of the first request is granted.
LEMMA KnownFirst ==
    ASSUME NEW p \in Seq(WindowRequest), p # << >>, NEW k \in Nat, Known(p, k),
           StreamIds \subseteq Nat, NEW n \in Nat, n <= Head(p).amount
    PROVE  Known([p EXCEPT ![1].amount = @ - n], k)
<1> DEFINE o == [p EXCEPT ![1].amount = @ - n]
<1>1. \A i \in DOMAIN p : p[i] \in WindowRequest /\ p[i].id <= k
  BY DEF Known
<1>2. DOMAIN o = DOMAIN p
  OBVIOUS
<1>3. ASSUME NEW i \in DOMAIN p PROVE o[i].id = p[i].id
  <2>1. p[i] \in WindowRequest
    BY <1>1
  <2> QED
    BY <2>1 DEF WindowRequest
<1> HIDE DEF o
<1>4. Known(o, k)
  BY <1>1, <1>2, <1>3 DEF Known
<1> QED
  BY <1>4 DEF o

\* The account of the pool does not change with steps that have nothing to do with it.
LEMMA PoolSame ==
    ASSUME ConstantsAssumption, TypeInv, TypeInv', Pool,
           global_window' = global_window, pending_window_req' = pending_window_req,
           distributing' = distributing \/ Distribute,
           biggest_open_stream <= biggest_open_stream'
    PROVE  Pool'
<1>1. biggest_open_stream \in Nat /\ biggest_open_stream' \in Nat /\ StreamIds \subseteq Nat
  BY DEF ConstantsAssumption, TypeInv, TypeOK
<1>2. ASSUME NEW i \in DOMAIN pending_window_req
      PROVE  pending_window_req[i].id <= biggest_open_stream'
  <2>1. pending_window_req[i] \in WindowRequest
    BY DEF Pool
  <2>2. pending_window_req[i].id \in Nat /\ pending_window_req[i].id <= biggest_open_stream
    BY <1>1, <2>1 DEF Pool, Known, WindowRequest
  <2> QED
    BY <1>1, <2>2
<1>3. Known(pending_window_req, biggest_open_stream')
  BY <1>2 DEF Known
<1>4. distributing' <=> global_window' > 0 /\ pending_window_req' # << >>
  <2>1. distributing \in BOOLEAN /\ distributing' \in BOOLEAN
    BY DEF TypeInv, TypeOK
  <2>2. CASE distributing' = distributing
    BY <2>1, <2>2 DEF Pool
  <2>3. CASE Distribute
    BY <2>3 DEF Distribute
  <2> QED
    BY <2>2, <2>3
<1> QED
  BY <1>3, <1>4 DEF Pool

\* What may be granted of the first request.
LEMMA GivenType ==
    ASSUME Pool, distributing, Asked.amount > 0
    PROVE  /\ Asked \in WindowRequest /\ Asked = Head(pending_window_req)
           /\ Asked.amount \in Nat /\ pending_window_req # << >>
           /\ Given \in Nat /\ Given <= Asked.amount /\ Given <= global_window
<1>1. global_window \in Nat /\ pending_window_req # << >>
  BY DEF Pool
<1>2. Asked \in WindowRequest /\ Asked = Head(pending_window_req)
  BY <1>1, HeadTail DEF Pool, Asked
<1>3. Asked.amount \in Nat
  BY <1>2 DEF WindowRequest
<1> QED
  BY <1>1, <1>2, <1>3 DEF Given

LEMMA PoolStep ==
    ASSUME ConstantsAssumption, TypeInv, TypeInv', Running, Running',
           "REOPEN" \notin PeerSends, OwnStreams, OwnRequests, Pool, [Next]_vars
    PROVE  Pool'
<1> USE DEF loopVars, windowVars, streamVars, shutdownVars, taskVars, peerVars, wireVars
<1>0. biggest_open_stream \in Nat /\ StreamIds \subseteq Nat
  BY DEF ConstantsAssumption, TypeInv, TypeOK
<1>1. ASSUME global_window' = global_window, pending_window_req' = pending_window_req,
             distributing' = distributing \/ Distribute,
             biggest_open_stream' = biggest_open_stream
      PROVE  Pool'
  BY <1>0, <1>1, PoolSame
<1>2. CASE Peer
  <2>1. ASSUME NEW id \in StreamIds, NEW kind \in PeerSends, NEW t \in Tasks,
               RecvRequest(id, kind, t)
        PROVE  Pool'
    <3>1. id > biggest_open_stream /\ biggest_open_stream' = id
      BY <2>1, OpenOwn
    <3>2. biggest_open_stream <= biggest_open_stream'
      BY <1>0, <3>1
    <3> QED
      BY <2>1, <3>2, PoolSame DEF RecvRequest
  <2>2. ASSUME NEW n \in Increments, RecvGlobalWindowUpdate(n)
        PROVE  Pool'
    <3>1. /\ pending_window_req' = pending_window_req
          /\ biggest_open_stream' = biggest_open_stream
          /\ global_window' = global_window + n /\ Distribute
      BY <2>2 DEF RecvGlobalWindowUpdate, Close, Running
    <3>2. n \in Nat
      BY DEF ConstantsAssumption
    <3>3. global_window' \in Nat
      BY <3>1, <3>2 DEF Pool
    <3> QED
      BY <3>1, <3>3 DEF Pool, Distribute
  <2>3. ASSUME NEW id \in StreamIds, NEW kind \in PeerSends,
               RecvIllegalHeaders(id, kind) \/ RecvRejectedHeaders(id, kind)
        PROVE  Pool'
    BY <1>1, <2>3 DEF RecvIllegalHeaders, RecvRejectedHeaders, Leave
  <2>4. ASSUME NEW id \in StreamIds, RecvUndecodableHeaders(id) \/ RecvRstStream(id)
        PROVE  Pool'
    BY <1>1, <2>4 DEF RecvUndecodableHeaders, RecvRstStream, Leave
  <2>5. ASSUME NEW id \in StreamIds, NEW n \in Increments, RecvStreamWindowUpdate(id, n)
        PROVE  Pool'
    BY <1>1, <2>5 DEF RecvStreamWindowUpdate
  <2>6. ASSUME NEW size \in InitialWindows, RecvSettings(size)
        PROVE  Pool'
    BY <1>1, <2>6 DEF RecvSettings
  <2>7. CASE RecvGoAway \/ ConnectionFails
    BY <1>1, <2>7 DEF RecvGoAway, ConnectionFails, Leave
  <2> QED
    BY <1>2, <2>1, <2>2, <2>3, <2>4, <2>5, <2>6, <2>7 DEF Peer
<1>3. CASE AnnounceShutdown \/ NoticeShutdown \/ FlushWriteBuffer \/ UNCHANGED vars
  BY <1>1, <1>3 DEF AnnounceShutdown, NoticeShutdown, StopAccepting, FlushWriteBuffer, vars
<1>4. CASE WriteResponse \/ WriteFrame \/ StreamClosing \/ StreamClosed
  <2>1. /\ global_window' = global_window /\ pending_window_req' = pending_window_req
        /\ distributing' = distributing /\ biggest_open_stream' = biggest_open_stream
    BY <1>4 DEF WriteResponse, WriteFrame, StreamClosing, StreamClosed
  <2> QED
    BY <1>1, <2>1
<1>5. ASSUME conn_rx # << >>
      PROVE  /\ Head(conn_rx) \in ConnectionReq /\ Head(conn_rx).amount \in Nat
             /\ Head(conn_rx).id \in StreamIds /\ Head(conn_rx).id <= biggest_open_stream
  <2>1. conn_rx \in Seq(ConnectionReq)
    BY DEF TypeInv, TypeOK
  <2>2. Head(conn_rx) \in ConnectionReq /\ Head(conn_rx) = conn_rx[1] /\ 1 \in DOMAIN conn_rx
    BY <1>5, <2>1
  <2>3. OwnRequest(Head(conn_rx)) /\ Head(conn_rx).from \in Tasks
    BY <2>2 DEF OwnRequests, ConnectionReq
  <2>4. Head(conn_rx).id <= biggest_open_stream
    BY <2>3 DEF OwnRequest, OwnStreams
  <2> QED
    BY <2>2, <2>4 DEF ConnectionReq
<1>6. CASE GetWindow
  <2> DEFINE m == [id |-> Head(conn_rx).id, amount |-> Head(conn_rx).amount]
  <2>1. /\ conn_rx # << >> /\ pending_window_req' = Append(pending_window_req, m)
        /\ global_window' = global_window /\ Distribute
        /\ biggest_open_stream' = biggest_open_stream
    BY <1>6 DEF GetWindow, Take
  <2>2. m \in WindowRequest /\ m.id <= biggest_open_stream
    BY <1>5, <2>1 DEF WindowRequest
  <2> HIDE DEF m
  <2>3. pending_window_req' \in Seq(WindowRequest) /\ Known(pending_window_req', biggest_open_stream)
    BY <1>0, <2>1, <2>2, KnownQueues DEF Pool
  <2> QED
    BY <2>1, <2>3 DEF Pool, Distribute
<1>7. CASE PutWindow
  <2>1. /\ conn_rx # << >> /\ pending_window_req' = pending_window_req
        /\ global_window' = global_window + Head(conn_rx).amount /\ Distribute
        /\ biggest_open_stream' = biggest_open_stream
    BY <1>7 DEF PutWindow, Take, Close, Running
  <2>2. global_window' \in Nat
    BY <1>5, <2>1 DEF Pool
  <2> QED
    BY <2>1, <2>2 DEF Pool, Distribute
<1>8. CASE DropWindowRequest
  <2>1. /\ pending_window_req # << >> /\ pending_window_req' = Tail(pending_window_req)
        /\ global_window' = global_window /\ Distribute
        /\ biggest_open_stream' = biggest_open_stream
    BY <1>8 DEF DropWindowRequest, Pool
  <2>2. pending_window_req' \in Seq(WindowRequest) /\ Known(pending_window_req', biggest_open_stream)
    BY <1>0, <2>1, KnownQueues DEF Pool
  <2> QED
    BY <2>1, <2>2 DEF Pool, Distribute
<1>9. CASE GiveWindow
  <2>1. /\ Asked \in WindowRequest /\ Asked = Head(pending_window_req)
        /\ Asked.amount \in Nat /\ pending_window_req # << >>
        /\ Given \in Nat /\ Given <= Asked.amount /\ Given <= global_window
    BY <1>9, GivenType DEF GiveWindow
  <2>2. /\ global_window' = global_window - Given /\ Distribute
        /\ \/ pending_window_req' = [pending_window_req EXCEPT ![1].amount = @ - Given]
           \/ pending_window_req' = Tail(pending_window_req)
        /\ biggest_open_stream' = biggest_open_stream
    BY <1>9 DEF GiveWindow, Close, Running
  <2>3. pending_window_req' \in Seq(WindowRequest) /\ Known(pending_window_req', biggest_open_stream)
    <3>1. CASE pending_window_req' = Tail(pending_window_req)
      BY <1>0, <2>1, <3>1, KnownQueues DEF Pool
    <3>2. CASE pending_window_req' = [pending_window_req EXCEPT ![1].amount = @ - Given]
      BY <1>0, <2>1, <3>2, KnownFirst, QueuedFirst DEF Pool
    <3> QED
      BY <2>2, <3>1, <3>2
  <2>4. global_window' \in Nat
    BY <2>1, <2>2 DEF Pool
  <2> QED
    BY <2>2, <2>3, <2>4 DEF Pool, Distribute
<1>10. ASSUME NEW t \in Tasks, StreamTask(t) PROVE Pool'
  <2>1. TaskStep
    BY <1>10, TaskSteps DEF OneTask
  <2> QED
    BY <1>1, <2>1 DEF TaskStep
<1> QED
  BY <1>2, <1>3, <1>4, <1>6, <1>7, <1>8, <1>9, <1>10 DEF Next, Streams, DistributeWindow

-----------------------------------------------------------------------------
(* The accounts.                                                            *)

\* What a task still has to ask for, has asked for, was given and holds.
Owed(t) ==
    task[t].window_needed + Wanted(conn_rx, t) + Queued(pending_window_req, task[t].id) + Held(t)

\* It never exceeds what the task's chunk has left to be sent, and falls behind it only
\* for a task that failed.
Book(t) ==
    /\ task[t].left <= MaxChunk /\ Owed(t) <= task[t].left
    /\ task[t].error = "none" => Owed(t) = task[t].left
    /\ task[t].at \in {"unused", "handling", "reading", "sending"} => task[t].error = "none"
    /\ task[t].error = "none" /\ task[t].at # "sending" => task[t].left = 0
    /\ task[t].at = "sending" => task[t].left > 0

Books == \A t \in Tasks : Book(t)

Balanced == credit = Accounted(Tasks)

Holdings == [t \in Tasks |-> Held(t)]

LEMMA HeldType ==
    ASSUME TypeInv
    PROVE  /\ \A t \in Tasks : /\ task[t].available_window \in Nat
                               /\ Carried(rx[t], "AvailableWindow") \in Nat
                               /\ Held(t) \in Nat
           /\ Holdings \in [Tasks -> Int]
           /\ Carried(conn_rx, "PutWindow") \in Nat /\ Carried(conn_rx, "Frame") \in Nat
           /\ credit \in Int /\ global_window \in Int
<1>1. ASSUME NEW t \in Tasks
      PROVE  /\ task[t].available_window \in Nat
             /\ Carried(rx[t], "AvailableWindow") \in Nat
             /\ Held(t) \in Nat
  <2>1. task[t] \in Task /\ rx[t] \in Seq(StreamReq)
    BY DEF TypeInv, TypeOK
  <2>2. task[t].available_window \in Nat /\ Carried(rx[t], "AvailableWindow") \in Nat
    BY <2>1, CarriedTypes DEF Task
  <2> QED
    BY <2>2 DEF Held
<1>2. Holdings \in [Tasks -> Int]
  BY <1>1 DEF Holdings
<1>3. conn_rx \in Seq(ConnectionReq) /\ credit \in Int /\ global_window \in Int
  BY DEF TypeInv, TypeOK
<1> QED
  BY <1>1, <1>2, <1>3, CarriedTypes

LEMMA OwedType ==
    ASSUME TypeInv, Pool, NEW t \in Tasks
    PROVE  /\ task[t].window_needed \in Nat /\ task[t].left \in Nat /\ task[t].window \in Int
           /\ Wanted(conn_rx, t) \in Nat /\ Queued(pending_window_req, task[t].id) \in Nat
           /\ Held(t) \in Nat /\ Owed(t) \in Nat
           /\ Held(t) <= Owed(t) /\ Queued(pending_window_req, task[t].id) <= Owed(t)
           /\ Wanted(conn_rx, t) <= Owed(t) /\ task[t].window_needed <= Owed(t)
<1>1. task[t] \in Task /\ conn_rx \in Seq(ConnectionReq) /\ Held(t) \in Nat
  BY HeldType DEF TypeInv, TypeOK
<1>2. task[t].window_needed \in Nat /\ task[t].left \in Nat /\ task[t].window \in Int
  BY <1>1 DEF Task
<1>3. Wanted(conn_rx, t) \in Nat /\ Queued(pending_window_req, task[t].id) \in Nat
  BY <1>1, WantedType, QueuedType DEF Pool
<1> QED
  BY <1>1, <1>2, <1>3, SMTT(30) DEF Owed

LEMMA Accounts ==
    /\ Accounted(Tasks) = global_window + Over(Tasks, Holdings)
                              + Carried(conn_rx, "PutWindow") + Carried(conn_rx, "Frame")
    /\ TypeInv => Over(Tasks, Holdings) \in Int
<1>1. Holdings = [t \in Tasks |-> IF t \in Tasks THEN Held(t) ELSE 0]
  BY DEF Holdings
<1>2. TypeInv => Over(Tasks, Holdings) \in Int
  BY HeldType, OverType, ConstantsAssumption DEF ConstantsAssumption
<1> QED
  BY <1>1, <1>2 DEF Accounted

\* What one task gains or loses is made up for elsewhere.
LEMMA BalanceStep ==
    ASSUME TypeInv, TypeInv', Balanced, NEW t \in Tasks, NEW d \in Int,
           Held(t)' = Held(t) + d, \A u \in Tasks : u # t => Held(u)' = Held(u),
           NEW a \in Int, NEW b \in Int, NEW c \in Int, NEW e \in Int,
           global_window' = global_window + a,
           Carried(conn_rx', "PutWindow") = Carried(conn_rx, "PutWindow") + b,
           Carried(conn_rx', "Frame") = Carried(conn_rx, "Frame") + c,
           credit' = credit + e, e = a + b + c + d
    PROVE  Balanced'
<1>1. Holdings \in [Tasks -> Int] /\ Holdings' \in [Tasks -> Int]
  <2>1. Holdings \in [Tasks -> Int] /\ \A u \in Tasks : Held(u) \in Int
    BY HeldType
  <2>2. \A u \in Tasks : Held(u)' \in Int
    BY <2>1
  <2>3. Holdings' \in [Tasks -> Int]
    BY <2>2 DEF Holdings
  <2> QED
    BY <2>1, <2>3
<1>2. Holdings'[t] = Holdings[t] + d /\ \A u \in Tasks : u # t => Holdings'[u] = Holdings[u]
  BY DEF Holdings
<1> DEFINE f == Holdings
           g == Holdings'
<1> HIDE DEF f, g
<1>3. f \in [Tasks -> Int] /\ g \in [Tasks -> Int]
  BY <1>1 DEF f, g
<1>4. g[t] = f[t] + d /\ \A u \in Tasks : u # t => g[u] = f[u]
  BY <1>2 DEF f, g
<1>5. Over(Tasks, g) = Over(Tasks, f) + d
  BY <1>3, <1>4, OverChange, ConstantsAssumption DEF ConstantsAssumption
<1>6. PICK o \in Int, x \in Int, y \in Int, z \in Int :
          /\ o = Over(Tasks, f) /\ x = global_window
          /\ y = Carried(conn_rx, "PutWindow") /\ z = Carried(conn_rx, "Frame")
  BY HeldType, Accounts DEF f
<1>7. credit = x + o + y + z
  BY <1>6, Accounts DEF Balanced, f
<1>8. Accounted(Tasks)' = (x + a) + (o + d) + (y + b) + (z + c)
  <2>1. Accounted(Tasks)' = global_window' + Over(Tasks, g)
                                + Carried(conn_rx', "PutWindow") + Carried(conn_rx', "Frame")
    <3>1. Holdings' = [u \in Tasks |-> IF u \in Tasks THEN Held(u)' ELSE 0]
      BY DEF Holdings
    <3> QED
      BY <3>1 DEF Accounted, g
  <2> QED
    BY <1>5, <1>6, <2>1
<1>9. credit' = (x + a) + (o + d) + (y + b) + (z + c)
  BY <1>6, <1>7
<1> QED
  BY <1>8, <1>9 DEF Balanced

\* The tasks hold what they held.
LEMMA BalanceSame ==
    ASSUME TypeInv, Balanced, \A u \in Tasks : Held(u)' = Held(u),
           NEW a \in Int, NEW b \in Int, NEW c \in Int, NEW e \in Int,
           global_window' = global_window + a,
           Carried(conn_rx', "PutWindow") = Carried(conn_rx, "PutWindow") + b,
           Carried(conn_rx', "Frame") = Carried(conn_rx, "Frame") + c,
           credit' = credit + e, e = a + b + c
    PROVE  Balanced'
<1>1. Holdings' = Holdings
  BY DEF Holdings
<1>2. Over(Tasks, Holdings') = Over(Tasks, Holdings)
  BY <1>1
<1>3. PICK o \in Int, x \in Int, y \in Int, z \in Int :
          /\ o = Over(Tasks, Holdings) /\ x = global_window
          /\ y = Carried(conn_rx, "PutWindow") /\ z = Carried(conn_rx, "Frame")
  BY HeldType, Accounts
<1>4. credit = x + o + y + z
  BY <1>3, Accounts DEF Balanced
<1>5. Accounted(Tasks)' = (x + a) + o + (y + b) + (z + c)
  <2>1. Holdings' = [u \in Tasks |-> IF u \in Tasks THEN Held(u)' ELSE 0]
    BY DEF Holdings
  <2>2. Accounted(Tasks)' = global_window' + Over(Tasks, Holdings')
                                + Carried(conn_rx', "PutWindow") + Carried(conn_rx', "Frame")
    BY <2>1 DEF Accounted
  <2> QED
    BY <1>2, <1>3, <2>2
<1>6. credit' = (x + a) + o + (y + b) + (z + c)
  BY <1>3, <1>4
<1> QED
  BY <1>5, <1>6 DEF Balanced

\* A message without window, or none, changes nothing of what a task holds.
LEMMA HeldTold ==
    ASSUME TypeInv, NEW t \in Tasks, NEW req \in StreamReq, req.kind # "AvailableWindow",
           rx'[t] = rx[t] \/ rx'[t] = Append(rx[t], req),
           task'[t].available_window = task[t].available_window
    PROVE  Held(t)' = Held(t)
<1>1. rx[t] \in Seq(StreamReq)
  BY DEF TypeInv, TypeOK
<1>2. Carried(rx[t], "AvailableWindow") \in Nat
  BY HeldType
<1>3. Carried(Append(rx[t], req), "AvailableWindow") = Carried(rx[t], "AvailableWindow") + 0
  BY <1>1, CarriedAppend, Amounts
<1>5. Carried(Append(rx[t], req), "AvailableWindow") = Carried(rx[t], "AvailableWindow")
  BY <1>2, <1>3
<1>4. Carried(rx'[t], "AvailableWindow") = Carried(rx[t], "AvailableWindow")
  BY <1>5
<1> QED
  BY <1>4 DEF Held

LEMMA HeldSame ==
    ASSUME NEW t \in Tasks, rx'[t] = rx[t],
           task'[t].available_window = task[t].available_window
    PROVE  Held(t)' = Held(t)
BY DEF Held

\* A task keeps its account if none of the four parts changes, or one makes up for another.
LEMMA BookKept ==
    ASSUME TypeInv, Pool, NEW t \in Tasks, Book(t), task'[t] = task[t],
           NEW w \in Int, NEW q \in Int, NEW h \in Int,
           Wanted(conn_rx', t) = Wanted(conn_rx, t) + w,
           Queued(pending_window_req', task[t].id) = Queued(pending_window_req, task[t].id) + q,
           Held(t)' = Held(t) + h, w + q + h = 0
    PROVE  Book(t)'
<1>1. PICK n \in Int, x \in Int, y \in Int, z \in Int :
          /\ n = task[t].window_needed /\ x = Wanted(conn_rx, t)
          /\ y = Queued(pending_window_req, task[t].id) /\ z = Held(t)
  BY OwedType
<1>2. Owed(t) = n + x + y + z /\ Owed(t)' = n + (x + w) + (y + q) + (z + h)
  BY <1>1 DEF Owed
<1>3. Owed(t)' = Owed(t)
  BY <1>2
<1> QED
  BY <1>3 DEF Book

LEMMA BookSame ==
    ASSUME NEW t \in Tasks, Book(t), task'[t] = task[t],
           Wanted(conn_rx', t) = Wanted(conn_rx, t),
           Queued(pending_window_req', task[t].id) = Queued(pending_window_req, task[t].id),
           Held(t)' = Held(t)
    PROVE  Book(t)'
<1>1. Owed(t)' = Owed(t)
  BY DEF Owed
<1> QED
  BY <1>1 DEF Book

\* A step that moves no window between the tasks and the connection.
LEMMA QuietBooks ==
    ASSUME TypeInv, Pool, Books, Balanced, task' = task, conn_rx' = conn_rx,
           pending_window_req' = pending_window_req,
           \/ rx' = rx
           \/ \E ts : \E req \in StreamReq : req.kind # "AvailableWindow" /\ Tell(ts, req),
           NEW n \in Int, global_window' = global_window + n, credit' = credit + n
    PROVE  Books' /\ Balanced'
<1>1. \A t \in Tasks : Held(t)' = Held(t)
  <2>1. CASE rx' = rx
    BY <2>1, HeldSame
  <2>2. ASSUME NEW ts, NEW req \in StreamReq, req.kind # "AvailableWindow", Tell(ts, req)
        PROVE  \A t \in Tasks : Held(t)' = Held(t)
    <3>1. \A t \in Tasks : rx'[t] = rx[t] \/ rx'[t] = Append(rx[t], req)
      BY <2>2 DEF Tell
    <3> QED
      BY <2>2, <3>1, HeldTold
  <2> QED
    BY <2>1, <2>2
<1>2. ASSUME NEW t \in Tasks PROVE Book(t)'
  <2>1. Book(t)
    BY DEF Books
  <2> QED
    BY <1>1, <2>1, BookSame
<1>3. /\ Carried(conn_rx', "PutWindow") = Carried(conn_rx, "PutWindow") + 0
      /\ Carried(conn_rx', "Frame") = Carried(conn_rx, "Frame") + 0
  BY HeldType
<1>4. Balanced'
  <2>1. n = n + 0 + 0
    OBVIOUS
  <2> QED
    BY <1>1, <1>3, <2>1, BalanceSame
<1> QED
  BY <1>2, <1>4 DEF Books

\* A stream is opened: its task owes nothing.
LEMMA OpenBooks ==
    ASSUME ConstantsAssumption, TypeInv, "REOPEN" \notin PeerSends, OwnStreams, OwnRequests,
           Pool, Books, Balanced,
           NEW id \in StreamIds, NEW kind \in PeerSends, NEW t \in Tasks,
           RecvRequest(id, kind, t)
    PROVE  Books' /\ Balanced'
<1> USE DEF loopVars, windowVars, taskVars, peerVars
<1>1. /\ task[t].at = "unused" /\ conn_rx' = conn_rx /\ rx' = rx
      /\ task' = [task EXCEPT ![t].at = "handling", ![t].id = id,
                              ![t].window = initial_window_size]
      /\ pending_window_req' = pending_window_req
      /\ global_window' = global_window /\ credit' = credit
  BY DEF RecvRequest
<1>2. task \in [Tasks -> Task] /\ task[t] \in Task
  BY DEF TypeInv, TypeOK
<1>3. /\ \A u \in Tasks : u # t => task'[u] = task[u]
      /\ task'[t].at = "handling" /\ task'[t].id = id /\ task'[t].left = task[t].left
      /\ task'[t].window_needed = task[t].window_needed /\ task'[t].error = task[t].error
      /\ task'[t].available_window = task[t].available_window
  BY <1>1, <1>2 DEF Task
<1>4. \A u \in Tasks : Held(u)' = Held(u)
  BY <1>1, <1>3, HeldSame
<1>5. task[t].error = "none" /\ task[t].left = 0 /\ Owed(t) = 0 /\ task[t].left <= MaxChunk
  BY <1>1 DEF Books, Book
<1>6. task[t].window_needed = 0 /\ Wanted(conn_rx, t) = 0 /\ Held(t) = 0
  BY <1>5, OwedType
<1>7. Queued(pending_window_req, id) = 0
  <2>1. id > biggest_open_stream /\ biggest_open_stream \in Nat /\ StreamIds \subseteq Nat
    BY OpenOwn, SMTT(30) DEF ConstantsAssumption, TypeInv, TypeOK
  <2>2. \A i \in DOMAIN pending_window_req : pending_window_req[i].id # id
    <3> TAKE i \in DOMAIN pending_window_req
    <3>1. pending_window_req[i] \in WindowRequest
      BY DEF Pool
    <3>2. pending_window_req[i].id \in Nat /\ pending_window_req[i].id <= biggest_open_stream
      BY <2>1, <3>1 DEF Pool, Known, WindowRequest
    <3> QED
      BY <2>1, <3>2
  <2> QED
    BY <2>2, QueuedNone DEF Pool
<1>8. Owed(t)' = 0
  <2>1. Owed(t)' = task[t].window_needed + Wanted(conn_rx, t) + Queued(pending_window_req, id)
                       + Held(t)
    BY <1>1, <1>3, <1>4 DEF Owed
  <2> QED
    BY <1>6, <1>7, <2>1
<1>9. Book(t)'
  BY <1>3, <1>5, <1>8 DEF Book
<1>10. ASSUME NEW u \in Tasks, u # t PROVE Book(u)'
  <2>1. Book(u) /\ task'[u] = task[u] /\ Held(u)' = Held(u)
    BY <1>3, <1>4, <1>10 DEF Books
  <2> QED
    BY <1>1, <2>1, BookSame
<1>11. Balanced'
  <2>1. /\ Carried(conn_rx', "PutWindow") = Carried(conn_rx, "PutWindow") + 0
        /\ Carried(conn_rx', "Frame") = Carried(conn_rx, "Frame") + 0
        /\ global_window' = global_window + 0 /\ credit' = credit + 0
    BY <1>1, HeldType
  <2> QED
    BY <1>4, <2>1, BalanceSame
<1> QED
  BY <1>9, <1>10, <1>11 DEF Books

\* The connection takes a request that is not one for window: what it carries is written,
\* or goes back to the pool.
LEMMA TakenBooks ==
    ASSUME TypeInv, Pool, Books, Balanced, task' = task,
           conn_rx # << >>, conn_rx' = Tail(conn_rx), Head(conn_rx).kind # "GetWindow",
           pending_window_req' = pending_window_req,
           \/ rx' = rx
           \/ \E ts : \E req \in StreamReq : req.kind # "AvailableWindow" /\ Tell(ts, req),
           NEW a \in Int, NEW e \in Int, global_window' = global_window + a, credit' = credit + e,
           e = a - (IF Head(conn_rx).kind = "PutWindow" THEN Head(conn_rx).amount ELSE 0)
                 - (IF Head(conn_rx).kind = "Frame" THEN Head(conn_rx).amount ELSE 0)
    PROVE  Books' /\ Balanced'
<1>0. conn_rx \in Seq(ConnectionReq) /\ Head(conn_rx).amount \in Nat
  <2>1. conn_rx \in Seq(ConnectionReq) /\ Head(conn_rx) \in ConnectionReq
    BY HeadTail DEF TypeInv, TypeOK
  <2> QED
    BY <2>1 DEF ConnectionReq
<1>1. \A t \in Tasks : Held(t)' = Held(t)
  <2>1. CASE rx' = rx
    BY <2>1, HeldSame
  <2>2. ASSUME NEW ts, NEW req \in StreamReq, req.kind # "AvailableWindow", Tell(ts, req)
        PROVE  \A t \in Tasks : Held(t)' = Held(t)
    <3>1. \A t \in Tasks : rx'[t] = rx[t] \/ rx'[t] = Append(rx[t], req)
      BY <2>2 DEF Tell
    <3> QED
      BY <2>2, <3>1, HeldTold
  <2> QED
    BY <2>1, <2>2
<1>2. ASSUME NEW t \in Tasks PROVE Book(t)'
  <2>1. Wanted(conn_rx, t) \in Nat
    BY OwedType
  <2>2. Wanted(Tail(conn_rx), t) = Wanted(conn_rx, t) - 0
    BY <1>0, WantedTail
  <2>3. Wanted(Tail(conn_rx), t) = Wanted(conn_rx, t)
    BY <2>1, <2>2
  <2> QED
    BY <1>1, <2>3, BookSame DEF Books
<1>3. PICK x \in Nat :
          x = IF Head(conn_rx).kind = "PutWindow" THEN Head(conn_rx).amount ELSE 0
  BY <1>0
<1>4. PICK y \in Nat :
          y = IF Head(conn_rx).kind = "Frame" THEN Head(conn_rx).amount ELSE 0
  BY <1>0
<1>5. PICK b \in Int, c \in Int : b = 0 - x /\ c = 0 - y
  OBVIOUS
<1>6. /\ Carried(conn_rx', "PutWindow") = Carried(conn_rx, "PutWindow") + b
      /\ Carried(conn_rx', "Frame") = Carried(conn_rx, "Frame") + c
      /\ e = a + b + c
  <2>1. Carried(conn_rx, "PutWindow") \in Nat /\ Carried(conn_rx, "Frame") \in Nat
    BY HeldType
  <2>2. Carried(conn_rx', "PutWindow") = Carried(conn_rx, "PutWindow") - x
    BY <1>0, <1>3, CarriedTail, Amounts
  <2>3. Carried(conn_rx', "Frame") = Carried(conn_rx, "Frame") - y
    BY <1>0, <1>4, CarriedTail, Amounts
  <2>4. e = a - x - y
    BY <1>3, <1>4
  <2> QED
    BY <1>5, <2>1, <2>2, <2>3, <2>4
<1>7. Balanced'
  BY <1>1, <1>6, BalanceSame
<1> QED
  BY <1>2, <1>7 DEF Books

\* The owner of a stream is the only task with its identifier.
LEMMA OneOwner ==
    ASSUME ConstantsAssumption, TypeInv, OwnStreams, NEW id \in StreamIds,
           NEW t \in Tasks, Used(t), task[t].id = id
    PROVE  \A u \in Tasks : task[u].id = id <=> u = t
<1>1. id # 0
  BY DEF ConstantsAssumption
<1> QED
  BY <1>1 DEF OwnStreams

\* A request for window is queued.
LEMMA AskedBooks ==
    ASSUME ConstantsAssumption, TypeInv, OwnStreams, OwnRequests, Pool, Books, Balanced, GetWindow
    PROVE  Books' /\ Balanced'
<1> USE DEF taskVars, peerVars
<1> DEFINE req == Head(conn_rx)
           m == [id |-> req.id, amount |-> req.amount]
<1>1. /\ conn_rx # << >> /\ conn_rx' = Tail(conn_rx) /\ req.kind = "GetWindow"
      /\ task' = task /\ rx' = rx /\ pending_window_req' = Append(pending_window_req, m)
      /\ global_window' = global_window /\ credit' = credit
  BY DEF GetWindow, Take
<1>2. conn_rx \in Seq(ConnectionReq) /\ req \in ConnectionReq /\ OwnRequest(req)
  <2>1. conn_rx \in Seq(ConnectionReq)
    BY DEF TypeInv, TypeOK
  <2>2. req \in ConnectionReq /\ req = conn_rx[1] /\ 1 \in DOMAIN conn_rx
    BY <1>1, <2>1
  <2> QED
    BY <2>1, <2>2 DEF OwnRequests
<1>3. m \in WindowRequest /\ req.from \in Tasks /\ req.amount \in Nat /\ req.id \in StreamIds
  BY <1>2 DEF WindowRequest, ConnectionReq
<1>4. m.id = req.id /\ m.amount = req.amount
  OBVIOUS
<1> HIDE DEF m
<1>5. \A t \in Tasks : req.from = t <=> m.id = task[t].id
  <2> HIDE DEF req
  <2>1. Used(req.from) /\ task[req.from].id = req.id
    BY <1>2 DEF OwnRequest
  <2>2. \A u \in Tasks : task[u].id = req.id <=> u = req.from
    BY <1>3, <2>1, OneOwner
  <2> QED
    BY <1>4, <2>2
<1>6. \A t \in Tasks : Held(t)' = Held(t)
  BY <1>1, HeldSame
<1>7. ASSUME NEW t \in Tasks PROVE Book(t)'
  <2>1. PICK n \in Int : n = IF req.from = t THEN req.amount ELSE 0
    BY <1>3
  <2>2. Wanted(conn_rx', t) = Wanted(conn_rx, t) - n
    BY <1>1, <1>2, <2>1, WantedTail
  <2>3. Queued(pending_window_req', task[t].id) = Queued(pending_window_req, task[t].id) + n
    BY <1>1, <1>3, <1>4, <1>5, <2>1, QueuedAppend DEF Pool
  <2>4. PICK k \in Int : k = 0 - n
    OBVIOUS
  <2>5. Wanted(conn_rx', t) = Wanted(conn_rx, t) + k /\ k + n + 0 = 0
    BY <2>2, <2>4, OwedType
  <2>6. Held(t)' = Held(t) + 0
    BY <1>6, OwedType
  <2>7. Book(t) /\ task'[t] = task[t]
    BY <1>1 DEF Books
  <2> QED
    BY <2>3, <2>5, <2>6, <2>7, BookKept
<1>8. Balanced'
  <2>1. /\ Carried(conn_rx', "PutWindow") = Carried(conn_rx, "PutWindow") - 0
        /\ Carried(conn_rx', "Frame") = Carried(conn_rx, "Frame") - 0
    BY <1>1, <1>2, CarriedTail, Amounts
  <2>2. /\ Carried(conn_rx', "PutWindow") = Carried(conn_rx, "PutWindow") + 0
        /\ Carried(conn_rx', "Frame") = Carried(conn_rx, "Frame") + 0
        /\ global_window' = global_window + 0 /\ credit' = credit + 0
    BY <1>1, <2>1, HeldType
  <2> QED
    BY <1>6, <2>2, BalanceSame
<1> QED
  BY <1>7, <1>8 DEF Books

\* A request is dropped: for nothing, or of a task that has exited.
LEMMA DroppedBooks ==
    ASSUME ConstantsAssumption, TypeInv, OwnStreams, Pool, Books, Balanced, DropWindowRequest
    PROVE  Books' /\ Balanced'
<1> USE DEF taskVars, peerVars
<1> DEFINE id == Asked.id
           n == Asked.amount
<1>1. /\ distributing /\ (n <= 0 \/ streams[id] = NoTask)
      /\ task' = task /\ rx' = rx /\ conn_rx' = conn_rx
      /\ pending_window_req' = Tail(pending_window_req)
      /\ global_window' = global_window /\ credit' = credit
  BY DEF DropWindowRequest
<1>2. /\ pending_window_req # << >> /\ pending_window_req \in Seq(WindowRequest)
      /\ Asked = Head(pending_window_req) /\ Asked \in WindowRequest
  BY <1>1, HeadTail DEF Pool, Asked
<1>3. id \in StreamIds /\ n \in Nat
  BY <1>2 DEF WindowRequest
<1>4. \A t \in Tasks : Held(t)' = Held(t)
  BY <1>1, HeldSame
<1>5. ASSUME NEW t \in Tasks PROVE Book(t)'
  <2> DEFINE q == Queued(pending_window_req, task[t].id)
             r == Queued(pending_window_req', task[t].id)
  <2>1. q \in Nat /\ r \in Nat /\ q <= Owed(t) /\ Owed(t) \in Nat /\ task[t].left \in Nat
    BY <1>1, <1>2, KnownQueues, OwedType, QueuedType, HeadTail
  <2>2. r = q - IF id = task[t].id THEN n ELSE 0
    BY <1>1, <1>2, QueuedTail
  <2>3. Book(t)
    BY DEF Books
  <2>4. CASE r = q
    BY <1>1, <1>4, <2>3, <2>4, BookSame
  <2>5. CASE r # q
    <3>1. id = task[t].id /\ n # 0 /\ r = q - n
      <4> HIDE DEF id, n
      <4> QED
        BY <1>3, <2>1, <2>2, <2>5
    <3>2. streams[id] = NoTask /\ Used(t)
      <4>1. 0 \notin StreamIds
        BY DEF ConstantsAssumption
      <4> QED
        BY <1>1, <1>3, <3>1, <4>1 DEF OwnStreams
    <3>3. task[t].at = "exited"
      BY <3>1, <3>2 DEF OwnStreams
    <3>4. task[t].error # "none"
      <4>1. SUFFICES ASSUME task[t].error = "none" PROVE FALSE
        OBVIOUS
      <4>2. Owed(t) = 0
        BY <2>3, <3>3, <4>1 DEF Book
      <4>3. r = 0 - n
        BY <2>1, <3>1, <4>2
      <4> HIDE DEF n
      <4> QED
        BY <1>3, <2>1, <3>1, <4>3
    <3>5. PICK a \in Nat, b \in Nat, c \in Nat :
              a = task[t].window_needed /\ b = Wanted(conn_rx, t) /\ c = Held(t)
      BY OwedType
    <3>6. Owed(t) = a + b + q + c /\ Owed(t)' = a + b + r + c
      BY <1>1, <1>4, <3>5 DEF Owed
    <3>7. Owed(t)' <= task[t].left
      <4>1. Owed(t) <= task[t].left
        BY <2>3 DEF Book
      <4> HIDE DEF q, r, n
      <4> QED
        BY <1>3, <2>1, <3>1, <3>6, <4>1
    <3> QED
      BY <1>1, <2>3, <3>3, <3>4, <3>7 DEF Book
  <2> QED
    BY <2>4, <2>5
<1>6. Balanced'
  <2>1. /\ Carried(conn_rx', "PutWindow") = Carried(conn_rx, "PutWindow") + 0
        /\ Carried(conn_rx', "Frame") = Carried(conn_rx, "Frame") + 0
        /\ global_window' = global_window + 0 /\ credit' = credit + 0
    BY <1>1, HeldType
  <2> QED
    BY <1>4, <2>1, BalanceSame
<1> QED
  BY <1>5, <1>6 DEF Books

\* Window goes from the pool to the task that has waited longest for it.
LEMMA GivenBooks ==
    ASSUME ConstantsAssumption, TypeInv, TypeInv', OwnStreams, Pool, Books, Balanced,
           GiveWindow, Running'
    PROVE  Books' /\ Balanced'
<1> USE DEF taskVars, peerVars
<1>3. /\ distributing /\ Asked.amount > 0 /\ streams[Asked.id] # NoTask
      /\ task' = task /\ conn_rx' = conn_rx
      /\ Alive(streams[Asked.id])
      /\ Tell({streams[Asked.id]}, [kind |-> "AvailableWindow", amount |-> Given])
      /\ global_window' = global_window - Given /\ credit' = credit
      /\ pending_window_req' = IF Given < Asked.amount
                               THEN [pending_window_req EXCEPT ![1].amount = @ - Given]
                               ELSE Tail(pending_window_req)
  BY DEF GiveWindow, Close, Running
<1>5. /\ Asked \in WindowRequest /\ Asked = Head(pending_window_req)
      /\ Asked.amount \in Nat /\ pending_window_req # << >>
      /\ Given \in Nat /\ Given <= Asked.amount
  BY <1>3, GivenType
<1>13. Asked.id \in StreamIds /\ streams[Asked.id] \in Tasks
  BY <1>3, <1>5 DEF WindowRequest, TypeInv, TypeOK
<1>0. PICK u \in Tasks, n \in Nat, id \in StreamIds :
          u = streams[Asked.id] /\ n = Given /\ id = Asked.id
  BY <1>5, <1>13
<1>1. /\ task' = task /\ conn_rx' = conn_rx
      /\ Alive(u) /\ Tell({u}, [kind |-> "AvailableWindow", amount |-> n])
      /\ global_window' = global_window - n /\ credit' = credit
      /\ pending_window_req' = IF n < Asked.amount
                               THEN [pending_window_req EXCEPT ![1].amount = @ - n]
                               ELSE Tail(pending_window_req)
  BY <1>3, <1>0
<1>2. /\ Asked \in WindowRequest /\ Asked = Head(pending_window_req)
      /\ Asked.amount \in Nat /\ pending_window_req # << >>
      /\ n \in Nat /\ n <= Asked.amount
  BY <1>5, <1>0
<1>4. Used(u) /\ task[u].id = id
  BY <1>3, <1>0 DEF OwnStreams
<1>6. \E req \in StreamReq :
          /\ req.kind = "AvailableWindow" /\ req.amount = n
          /\ rx'[u] = Append(rx[u], req) /\ rx[u] \in Seq(StreamReq)
          /\ \A t \in Tasks : t # u => rx'[t] = rx[t]
  <2> DEFINE req == [kind |-> "AvailableWindow", amount |-> n]
  <2>1. req \in StreamReq /\ req.kind = "AvailableWindow" /\ req.amount = n
    BY DEF StreamReq
  <2> HIDE DEF req
  <2>2. /\ rx'[u] = Append(rx[u], req) /\ rx[u] \in Seq(StreamReq)
        /\ \A t \in Tasks : t # u => rx'[t] = rx[t]
    BY <1>1 DEF req, Tell, TypeInv, TypeOK
  <2> QED
    BY <2>1, <2>2
<1>7. Held(u)' = Held(u) + n
  <2>1. Carried(rx'[u], "AvailableWindow") = Carried(rx[u], "AvailableWindow") + n
    BY <1>6, CarriedAppend, Amounts
  <2>2. PICK a \in Nat, b \in Nat :
            a = task[u].available_window /\ b = Carried(rx[u], "AvailableWindow")
    BY HeldType
  <2>3. Held(u) = a + b
    BY <2>2 DEF Held
  <2>4. Held(u)' = task'[u].available_window + Carried(rx'[u], "AvailableWindow")
    BY <1>1 DEF Held
  <2>5. Held(u)' = a + (b + n)
    BY <1>1, <2>1, <2>2, <2>4
  <2> QED
    BY <1>2, <2>3, <2>5
<1>8. \A t \in Tasks : t # u => Held(t)' = Held(t)
  BY <1>1, <1>6, HeldSame
<1>9. PICK k \in Int : k = 0 - n
  BY <1>2
<1>10. ASSUME NEW t \in Tasks
       PROVE  Queued(pending_window_req', task[t].id)
                  = Queued(pending_window_req, task[t].id) + IF t = u THEN k ELSE 0
  <2>1. Asked.id = task[t].id <=> t = u
    <3>1. \A v \in Tasks : task[v].id = id <=> v = u
      BY <1>4, OneOwner
    <3> QED
      BY <1>0, <3>1
  <2>2. Queued(pending_window_req, task[t].id) \in Nat
    BY OwedType
  <2>3. PICK m \in Nat : m = IF t = u THEN n ELSE 0
    BY <1>2
  <2>4. Queued(pending_window_req', task[t].id) = Queued(pending_window_req, task[t].id) - m
    <3>1. CASE n < Asked.amount
      BY <1>1, <1>2, <2>1, <2>3, <3>1, QueuedFirst DEF Pool
    <3>2. CASE ~(n < Asked.amount)
      <4>1. n = Asked.amount
        BY <1>2, <3>2
      <4> QED
        BY <1>1, <1>2, <2>1, <2>3, <3>2, <4>1, QueuedTail DEF Pool
    <3> QED
      BY <3>1, <3>2
  <2> QED
    BY <1>9, <2>2, <2>3, <2>4
<1>11. ASSUME NEW t \in Tasks PROVE Book(t)'
  <2>1. Wanted(conn_rx', t) = Wanted(conn_rx, t) + 0 /\ Book(t) /\ task'[t] = task[t]
    BY <1>1, OwedType DEF Books
  <2>2. CASE t = u
    <3>1. Queued(pending_window_req', task[t].id) = Queued(pending_window_req, task[t].id) + k
      BY <1>10, <2>2
    <3>2. 0 + k + n = 0 /\ 0 \in Int /\ n \in Int
      BY <1>2, <1>9
    <3>3. Held(t)' = Held(t) + n
      BY <1>7, <2>2
    <3> QED
      BY <2>1, <3>1, <3>2, <3>3, BookKept
  <2>3. CASE t # u
    <3>1. Queued(pending_window_req', task[t].id) = Queued(pending_window_req, task[t].id)
      BY <1>10, <2>3, OwedType
    <3> QED
      BY <1>1, <1>8, <2>1, <2>3, <3>1, BookSame
  <2> QED
    BY <2>2, <2>3
<1>12. Balanced'
  <2>1. /\ Carried(conn_rx', "PutWindow") = Carried(conn_rx, "PutWindow") + 0
        /\ Carried(conn_rx', "Frame") = Carried(conn_rx, "Frame") + 0
        /\ credit' = credit + 0
    BY <1>1, HeldType, SMTT(30)
  <2>4. global_window' = global_window + k
    BY <1>1, <1>2, <1>9 DEF Pool
  <2>2. 0 = k + 0 + 0 + n /\ n \in Int /\ 0 \in Int
    BY <1>2, <1>9
  <2> QED
    BY <1>7, <1>8, <1>9, <2>1, <2>2, <2>4, BalanceStep
<1> QED
  BY <1>11, <1>12 DEF Books

-----------------------------------------------------------------------------
(* The steps of a stream task.                                              *)

\* The others' accounts are none of its business.
LEMMA OtherBooks ==
    ASSUME TypeInv, Pool, Books, NEW t \in Tasks, OneTask(t), NEW u \in Tasks, u # t
    PROVE  Book(u)' /\ Held(u)' = Held(u)
<1>1. task'[u] = task[u] /\ rx'[u] = rx[u] /\ pending_window_req' = pending_window_req
  BY DEF OneTask, TaskStep, windowVars
<1>2. Held(u)' = Held(u)
  BY <1>1, HeldSame
<1>3. Wanted(conn_rx', u) = Wanted(conn_rx, u)
  <2>1. conn_rx \in Seq(ConnectionReq) /\ Wanted(conn_rx, u) \in Nat
    BY OwedType DEF TypeInv, TypeOK
  <2>2. ASSUME NEW req \in ConnectionReq, req.from = t
        PROVE  Wanted(Append(conn_rx, req), u) = Wanted(conn_rx, u)
    <3>1. Wanted(Append(conn_rx, req), u) = Wanted(conn_rx, u) + 0
      BY <2>1, <2>2, WantedAppend
    <3> QED
      BY <2>1, <3>1
  <2>3. CASE conn_rx' = conn_rx
    BY <2>3
  <2>4. CASE conn_rx' # conn_rx
    <3>1. PICK req \in ConnectionReq : conn_rx' = Append(conn_rx, req) /\ req.from = t
      BY <2>4 DEF OneTask
    <3> QED
      BY <2>2, <3>1
  <2> QED
    BY <2>3, <2>4
<1> QED
  BY <1>1, <1>2, <1>3, BookSame DEF Books

\* What the task sends carries off what it no longer holds.
LEMMA SentBooks ==
    ASSUME TypeInv, TypeInv', Pool, Books, Balanced, NEW t \in Tasks, OneTask(t),
           NEW req \in ConnectionReq, req.from = t, conn_rx' = Append(conn_rx, req),
           NEW d \in Int, Held(t)' = Held(t) + d,
           d = IF req.kind \in {"PutWindow", "Frame"} THEN 0 - req.amount ELSE 0
    PROVE  /\ Balanced'
           /\ Wanted(conn_rx', t)
                  = Wanted(conn_rx, t) + IF req.kind = "GetWindow" THEN req.amount ELSE 0
<1>1. conn_rx \in Seq(ConnectionReq) /\ req.amount \in Nat
  BY DEF TypeInv, TypeOK, ConnectionReq
<1>2. PICK b \in Int, c \in Int :
          /\ b = IF req.kind = "PutWindow" THEN req.amount ELSE 0
          /\ c = IF req.kind = "Frame" THEN req.amount ELSE 0
  BY <1>1
<1>3. Carried(conn_rx', "PutWindow") = Carried(conn_rx, "PutWindow") + b
  BY <1>1, <1>2, CarriedAppend, Amounts
<1>4. Carried(conn_rx', "Frame") = Carried(conn_rx, "Frame") + c
  BY <1>1, <1>2, CarriedAppend, Amounts
<1>5. global_window' = global_window + 0 /\ credit' = credit + 0
  <2>1. global_window' = global_window /\ credit' = credit
    BY DEF OneTask, TaskStep, windowVars, peerVars
  <2> QED
    BY <2>1, HeldType
<1>6. 0 = 0 + b + c + d /\ 0 \in Int
  <2>1. CASE req.kind = "PutWindow"
    BY <1>1, <1>2, <2>1
  <2>2. CASE req.kind = "Frame"
    BY <1>1, <1>2, <2>2
  <2>3. CASE req.kind \notin {"PutWindow", "Frame"}
    BY <1>1, <1>2, <2>3
  <2> QED
    BY <2>1, <2>2, <2>3
<1>7. \A u \in Tasks : u # t => Held(u)' = Held(u)
  BY OtherBooks
<1>8. Balanced'
  BY <1>3, <1>4, <1>5, <1>6, <1>7, BalanceStep
<1> QED
  BY <1>1, <1>8, WantedAppend

LEMMA SilentBooks ==
    ASSUME TypeInv, TypeInv', Pool, Books, Balanced, NEW t \in Tasks, OneTask(t),
           conn_rx' = conn_rx, Held(t)' = Held(t)
    PROVE  Balanced' /\ Wanted(conn_rx', t) = Wanted(conn_rx, t)
<1>1. global_window' = global_window /\ credit' = credit
  BY DEF OneTask, TaskStep, windowVars, peerVars
<1>2. /\ Carried(conn_rx', "PutWindow") = Carried(conn_rx, "PutWindow") + 0
      /\ Carried(conn_rx', "Frame") = Carried(conn_rx, "Frame") + 0
      /\ global_window' = global_window + 0 /\ credit' = credit + 0
  BY <1>1, HeldType
<1>3. \A u \in Tasks : Held(u)' = Held(u)
  BY OtherBooks
<1>4. 0 = 0 + 0 + 0 /\ 0 \in Int
  OBVIOUS
<1> QED
  BY <1>2, <1>3, <1>4, BalanceSame

\* What the task owes changes with three of its parts.
LEMMA OwedChange ==
    ASSUME TypeInv, Pool, NEW t \in Tasks, OneTask(t),
           NEW g \in Int, task'[t].window_needed = task[t].window_needed + g,
           NEW w \in Int, Wanted(conn_rx', t) = Wanted(conn_rx, t) + w,
           NEW d \in Int, Held(t)' = Held(t) + d
    PROVE  Owed(t)' = Owed(t) + (g + w + d)
<1>1. PICK n \in Int, x \in Int, y \in Int, z \in Int :
          /\ n = task[t].window_needed /\ x = Wanted(conn_rx, t)
          /\ y = Queued(pending_window_req, task[t].id) /\ z = Held(t)
  BY OwedType
<1>2. task'[t].id = task[t].id /\ pending_window_req' = pending_window_req
  BY DEF OneTask, TaskStep, windowVars
<1>3. Owed(t) = n + x + y + z
  BY <1>1 DEF Owed
<1>4. Owed(t)' = (n + g) + (x + w) + y + (z + d)
  BY <1>1, <1>2 DEF Owed
<1> QED
  BY <1>3, <1>4

\* The task does nothing to its account.
LEMMA OwedSame ==
    ASSUME NEW t \in Tasks, OneTask(t), task'[t].window_needed = task[t].window_needed,
           Wanted(conn_rx', t) = Wanted(conn_rx, t), Held(t)' = Held(t)
    PROVE  Owed(t)' = Owed(t)
BY DEF Owed, OneTask, TaskStep, windowVars

\* A task that has nothing to send owes nothing.
LEMMA IdleTask ==
    ASSUME TypeInv, Pool, NEW t \in Tasks, Book(t), task[t].error = "none",
           task[t].at # "sending"
    PROVE  /\ task[t].left = 0 /\ Owed(t) = 0 /\ task[t].window_needed = 0
           /\ Held(t) = 0 /\ task[t].available_window = 0
<1>1. task[t].left = 0 /\ Owed(t) = 0
  BY DEF Book
<1>2. task[t].window_needed = 0 /\ Held(t) = 0
  BY <1>1, OwedType
<1>3. PICK a \in Nat, b \in Nat :
          a = task[t].available_window /\ b = Carried(rx[t], "AvailableWindow")
  BY HeldType
<1>4. a + b = 0
  BY <1>2, <1>3 DEF Held
<1> QED
  BY <1>1, <1>2, <1>3, <1>4

\* The task goes on as it was; it ends with an error or had nothing left to send.
GoesOn(t) ==
    /\ task'[t].error = task[t].error
    /\ \/ task'[t].at = task[t].at
       \/ task[t].at = "handling" /\ task'[t].at = "reading"

Ends(t) ==
    /\ task'[t].at \in {"closing", "announced", "exited"}
    /\ \/ task'[t].error # "none"
       \/ task'[t].error = task[t].error /\ task[t].at # "sending"

\* A message about no window: the account stays, the task goes on or ends.
LEMMA MessageBooks ==
    ASSUME TypeInv, TypeInv', Pool, Books, Balanced, NEW t \in Tasks, OneTask(t),
           \/ conn_rx' = conn_rx
           \/ \E req \in ConnectionReq :
                  /\ conn_rx' = Append(conn_rx, req) /\ req.from = t
                  /\ req.kind # "GetWindow"
                  /\ req.kind \in {"PutWindow", "Frame"} => req.amount = 0,
           Held(t)' = Held(t), task'[t].window_needed = task[t].window_needed,
           task'[t].left = task[t].left, task[t].left <= MaxChunk,
           GoesOn(t) \/ Ends(t)
    PROVE  Book(t)' /\ Balanced'
<1>1. Balanced' /\ Wanted(conn_rx', t) = Wanted(conn_rx, t)
  <2>1. CASE conn_rx' = conn_rx
    BY <2>1, SilentBooks
  <2>2. CASE conn_rx' # conn_rx
    <3>1. PICK req \in ConnectionReq :
              /\ conn_rx' = Append(conn_rx, req) /\ req.from = t
              /\ req.kind # "GetWindow"
              /\ req.kind \in {"PutWindow", "Frame"} => req.amount = 0
      BY <2>2
    <3>2. Held(t)' = Held(t) + 0 /\ 0 \in Int
      BY OwedType
    <3>3. 0 = IF req.kind \in {"PutWindow", "Frame"} THEN 0 - req.amount ELSE 0
      BY <3>1
    <3>4. /\ Balanced'
          /\ Wanted(conn_rx', t)
                 = Wanted(conn_rx, t) + IF req.kind = "GetWindow" THEN req.amount ELSE 0
      BY <3>1, <3>2, <3>3, SentBooks
    <3> QED
      BY <3>1, <3>4, OwedType
  <2> QED
    BY <2>1, <2>2
<1>2. Owed(t)' = Owed(t)
  BY <1>1, OwedSame
<1>3. Book(t)
  BY DEF Books
<1>4. Book(t)'
  BY <1>2, <1>3 DEF Book, GoesOn, Ends
<1> QED
  BY <1>1, <1>4

LEMMA ReceiveBooks ==
    ASSUME ConstantsAssumption, TypeInv, TypeInv', Pool, Books, Balanced,
           NEW t \in Tasks, OneTask(t), Receive(t)
    PROVE  Book(t)' /\ Balanced'
<1>1. /\ task[t] \in Task /\ task \in [Tasks -> Task] /\ rx[t] \in Seq(StreamReq)
      /\ rx \in [Tasks -> Seq(StreamReq)] /\ rx[t] # << >>
  BY DEF TypeInv, TypeOK, Receive
<1>2. PICK req \in StreamReq : req = Head(rx[t])
  BY <1>1, HeadTail
<1>3. rx'[t] = Tail(rx[t]) /\ conn_rx' = conn_rx
  BY <1>1 DEF Receive
<1>4. Carried(rx'[t], "AvailableWindow")
          = Carried(rx[t], "AvailableWindow") - IF req.kind = "AvailableWindow" THEN req.amount ELSE 0
  BY <1>1, <1>2, <1>3, CarriedTail, Amounts
<1>5. PICK a \in Nat, b \in Nat, c \in Nat :
          /\ a = task[t].available_window /\ b = Carried(rx[t], "AvailableWindow")
          /\ c = Carried(rx'[t], "AvailableWindow")
  <2>1. Carried(rx'[t], "AvailableWindow") \in Nat
    BY <1>1, <1>3, HeadTail, CarriedTypes
  <2> QED
    BY <2>1, HeldType
<1>6. Held(t) = a + b
  BY <1>5 DEF Held
<1>7. Book(t) /\ task[t].left <= MaxChunk /\ Owed(t) <= task[t].left
  BY DEF Books, Book
<1>8. CASE req.kind = "AvailableWindow"
  <2>1. req.amount \in Nat
    BY <1>8, Amounts
  <2>2. c = b - req.amount
    BY <1>4, <1>5, <1>8
  <2>3. InI32(task[t].available_window + req.amount)
    <3>1. PICK h \in Nat, o \in Nat, l \in Nat : h = Held(t) /\ o = Owed(t) /\ l = task[t].left
      BY OwedType
    <3>2. h <= o
      BY <3>1, OwedType
    <3>3. o <= l /\ l <= MaxChunk
      BY <1>7, <3>1
    <3>4. MaxChunk \in Nat /\ MaxInt \in Nat /\ MaxChunk <= MaxInt
      BY DEF ConstantsAssumption
    <3>5. a + req.amount <= h
      BY <1>5, <1>6, <2>1, <2>2, <3>1
    <3>6. a + req.amount \in Nat /\ a + req.amount <= MaxInt
      BY <2>1, <3>2, <3>3, <3>4, <3>5
    <3> QED
      BY <1>5, <3>4, <3>6 DEF InI32
  <2>4. task' = [task EXCEPT ![t].available_window = task[t].available_window + req.amount]
    BY <1>2, <1>8, <2>3 DEF Receive
  <2>5. /\ task'[t].available_window = a + req.amount
        /\ task'[t].window_needed = task[t].window_needed /\ task'[t].left = task[t].left
        /\ task'[t].error = task[t].error /\ task'[t].at = task[t].at
    BY <1>1, <1>5, <2>4 DEF Task
  <2>6. Held(t)' = (a + req.amount) + c
    BY <1>5, <2>5 DEF Held
  <2>7. Held(t)' = Held(t)
    BY <1>6, <2>1, <2>2, <2>6
  <2> QED
    BY <1>3, <1>7, <2>5, <2>7, MessageBooks DEF GoesOn
<1>9. CASE req.kind # "AvailableWindow"
  <2>1. c = b
    BY <1>4, <1>5, <1>9
  <2>2. /\ task'[t].available_window = task[t].available_window
        /\ task'[t].window_needed = task[t].window_needed /\ task'[t].left = task[t].left
        /\ \/ task'[t].error = task[t].error /\ task'[t].at = task[t].at
           \/ task'[t].error # "none" /\ task'[t].at = "closing"
    <3>1. CASE req.kind = "WindowUpdate" /\ InI32(task[t].window + req.amount)
      <4>1. task' = [task EXCEPT ![t].window = task[t].window + req.amount]
        BY <1>2, <3>1 DEF Receive
      <4> QED
        BY <1>1, <4>1 DEF Task
    <3>2. CASE req.kind = "Reset"
      <4>1. task' = [task EXCEPT ![t].at = "closing", ![t].error = "stream"]
        BY <1>2, <3>2 DEF Receive
      <4> QED
        BY <1>1, <4>1 DEF Task
    <3>3. CASE /\ ~(req.kind = "WindowUpdate" /\ InI32(task[t].window + req.amount))
               /\ req.kind # "Reset"
      <4>1. task' = [task EXCEPT ![t].at = "closing", ![t].error = "connection"]
        BY <1>2, <1>9, <3>3 DEF Receive
      <4> QED
        BY <1>1, <4>1 DEF Task
    <3> QED
      BY <3>1, <3>2, <3>3
  <2>3. Held(t)' = Held(t)
    BY <1>5, <2>1, <2>2 DEF Held
  <2>4. GoesOn(t) \/ Ends(t)
    BY <2>2 DEF GoesOn, Ends
  <2> QED
    BY <1>3, <1>7, <2>2, <2>3, <2>4, MessageBooks
<1> QED
  BY <1>8, <1>9

\* The task asks for window: what it has still to ask for becomes what it has asked for.
LEMMA RequestBooks ==
    ASSUME TypeInv, TypeInv', Pool, Books, Balanced, NEW t \in Tasks, OneTask(t),
           RequestWindow(t)
    PROVE  Book(t)' /\ Balanced'
<1>1. task[t] \in Task /\ task \in [Tasks -> Task] /\ task[t].at = "sending"
  BY DEF TypeInv, TypeOK, RequestWindow
<1>2. PICK n \in Nat : n = AskFor(t)
  BY <1>1 DEF RequestWindow, AskFor, CanRequest, Task
<1>3. \E req \in ConnectionReq :
          /\ req.from = t /\ req.kind = "GetWindow" /\ req.amount = n
          /\ conn_rx' = Append(conn_rx, req)
  <2> DEFINE req == Request("GetWindow", t, n, FALSE)
  <2>1. req \in ConnectionReq
    BY <1>1, RequestType
  <2>2. req.from = t /\ req.kind = "GetWindow" /\ req.amount = n
    BY DEF Request
  <2>3. conn_rx' = Append(conn_rx, req)
    BY <1>2 DEF RequestWindow, Send
  <2> HIDE DEF req
  <2> QED
    BY <2>1, <2>2, <2>3
<1>4. PICK g \in Int : g = 0 - n
  OBVIOUS
<1>5. /\ task'[t].window_needed = task[t].window_needed - n
      /\ task'[t].left = task[t].left /\ task'[t].at = task[t].at
      /\ task'[t].error = task[t].error
      /\ task'[t].available_window = task[t].available_window
      /\ rx' = rx
  BY <1>1, <1>2 DEF RequestWindow, Task
<1>6. Held(t)' = Held(t) + 0 /\ 0 \in Int
  <2>1. Held(t)' = Held(t)
    BY <1>5, HeldSame
  <2> QED
    BY <2>1, OwedType
<1>7. task'[t].window_needed = task[t].window_needed + g
  BY <1>4, <1>5, OwedType
<1>8. Balanced' /\ Wanted(conn_rx', t) = Wanted(conn_rx, t) + n
  <2>1. PICK req \in ConnectionReq :
            /\ req.from = t /\ req.kind = "GetWindow" /\ req.amount = n
            /\ conn_rx' = Append(conn_rx, req)
    BY <1>3
  <2>2. 0 = IF req.kind \in {"PutWindow", "Frame"} THEN 0 - req.amount ELSE 0
    BY <2>1
  <2> QED
    BY <1>6, <2>1, <2>2, SentBooks
<1>9. Owed(t)' = Owed(t) + (g + n + 0)
  BY <1>6, <1>7, <1>8, OwedChange
<1>10. Owed(t)' = Owed(t)
  BY <1>4, <1>9, OwedType
<1> QED
  BY <1>5, <1>8, <1>10 DEF Books, Book

\* The task sends as much of its chunk as it holds window for.
LEMMA DataBooks ==
    ASSUME TypeInv, TypeInv', Pool, Books, Balanced, NEW t \in Tasks, OneTask(t), SendData(t)
    PROVE  Book(t)' /\ Balanced'
<1>1. task[t] \in Task /\ task \in [Tasks -> Task] /\ task[t].at = "sending"
  BY DEF TypeInv, TypeOK, SendData
<1>2. PICK a \in Nat, l \in Nat : a = task[t].available_window /\ l = task[t].left
  BY <1>1 DEF Task
<1>3. PICK n \in Nat : n = (IF a > l THEN l ELSE a)
  BY <1>2
<1>4. n <= a /\ n <= l
  BY <1>3
<1>5. /\ conn_rx' = Append(conn_rx, Request("Frame", t, n, FALSE))
      /\ task' = [task EXCEPT ![t].available_window = Spent(t, n), ![t].left = @ - n,
                              ![t].at = IF task[t].left = n THEN "reading" ELSE "sending"]
      /\ rx' = rx
  BY <1>2, <1>3 DEF SendData, Send
<1>6. \E req \in ConnectionReq :
          /\ req.from = t /\ req.kind = "Frame" /\ req.amount = n
          /\ conn_rx' = Append(conn_rx, req)
  <2> DEFINE req == Request("Frame", t, n, FALSE)
  <2>1. req \in ConnectionReq
    BY <1>1, RequestType
  <2>2. req.from = t /\ req.kind = "Frame" /\ req.amount = n
    BY DEF Request
  <2>3. conn_rx' = Append(conn_rx, req)
    BY <1>5
  <2> HIDE DEF req
  <2> QED
    BY <2>1, <2>2, <2>3
<1>7. /\ task'[t].available_window = a - n /\ task'[t].left = l - n
      /\ task'[t].window_needed = task[t].window_needed
      /\ task'[t].at = (IF l = n THEN "reading" ELSE "sending")
      /\ task'[t].error = task[t].error
  BY <1>1, <1>2, <1>5 DEF Task, Spent
<1>8. PICK d \in Int : d = 0 - n
  OBVIOUS
<1>9. Held(t)' = Held(t) + d
  <2>1. PICK b \in Nat : b = Carried(rx[t], "AvailableWindow")
    BY HeldType
  <2>2. Held(t) = a + b
    BY <1>2, <2>1 DEF Held
  <2>3. Held(t)' = (a - n) + b
    BY <1>5, <1>7, <2>1 DEF Held
  <2> QED
    BY <1>8, <2>2, <2>3
<1>10. Balanced' /\ Wanted(conn_rx', t) = Wanted(conn_rx, t) + 0
  <2>1. PICK req \in ConnectionReq :
            /\ req.from = t /\ req.kind = "Frame" /\ req.amount = n
            /\ conn_rx' = Append(conn_rx, req)
    BY <1>6
  <2>2. d = IF req.kind \in {"PutWindow", "Frame"} THEN 0 - req.amount ELSE 0
    BY <1>8, <2>1
  <2>3. /\ Balanced'
        /\ Wanted(conn_rx', t)
               = Wanted(conn_rx, t) + IF req.kind = "GetWindow" THEN req.amount ELSE 0
    BY <1>9, <2>1, <2>2, SentBooks
  <2> QED
    BY <2>1, <2>3
<1>11. Owed(t)' = Owed(t) + (0 + 0 + d)
  <2>1. task'[t].window_needed = task[t].window_needed + 0 /\ 0 \in Int
    BY <1>7, OwedType
  <2> QED
    BY <1>9, <1>10, <2>1, OwedChange
<1>12. PICK o \in Nat : o = Owed(t)
  BY OwedType
<1>13. o = l /\ l <= MaxChunk /\ task[t].error = "none"
  BY <1>1, <1>2, <1>12 DEF Books, Book
<1>14. Owed(t)' = l - n /\ l - n <= MaxChunk
  <2>1. MaxChunk \in Int
    BY ConstantsAssumption DEF ConstantsAssumption
  <2> QED
    BY <1>8, <1>11, <1>12, <1>13, <2>1
<1>15. l - n = task'[t].left /\ l - n \in Nat
  BY <1>4, <1>7
<1>16. Book(t)'
  <2>1. Owed(t)' = task'[t].left /\ task'[t].left <= MaxChunk /\ task'[t].error = "none"
    BY <1>7, <1>13, <1>14, <1>15
  <2>2. CASE l = n
    <3>1. task'[t].at = "reading" /\ task'[t].left = 0
      BY <1>7, <2>2
    <3> QED
      BY <2>1, <3>1 DEF Book
  <2>3. CASE l # n
    <3>1. task'[t].at = "sending" /\ task'[t].left > 0
      BY <1>7, <1>15, <2>3
    <3> QED
      BY <1>15, <2>1, <3>1 DEF Book
  <2> QED
    BY <2>2, <2>3
<1> QED
  BY <1>10, <1>16

\* The body yields a chunk, and the task owes all of it.
LEMMA ChunkBooks ==
    ASSUME TypeInv, TypeInv', Pool, Books, Balanced, NEW t \in Tasks, OneTask(t), ReadChunk(t)
    PROVE  Book(t)' /\ Balanced'
<1>1. /\ task[t] \in Task /\ task \in [Tasks -> Task] /\ task[t].at = "reading"
      /\ conn_rx' = conn_rx /\ rx' = rx
  BY DEF TypeInv, TypeOK, ReadChunk
<1>2. PICK n \in 1..MaxChunk :
          task' = [task EXCEPT ![t].at = "sending", ![t].body = @ - n,
                               ![t].left = n, ![t].window_needed = n]
  BY DEF ReadChunk
<1>3. /\ task'[t].at = "sending" /\ task'[t].left = n /\ task'[t].window_needed = n
      /\ task'[t].error = task[t].error
      /\ task'[t].available_window = task[t].available_window
  BY <1>1, <1>2 DEF Task
<1>4. n \in Int /\ n > 0 /\ n <= MaxChunk
  BY ConstantsAssumption DEF ConstantsAssumption
<1>5. task[t].error = "none" /\ Owed(t) = 0 /\ task[t].window_needed = 0
  <2>1. Book(t) /\ task[t].error = "none"
    BY <1>1 DEF Books, Book
  <2> QED
    BY <1>1, <2>1, IdleTask
<1>6. Held(t)' = Held(t)
  BY <1>1, <1>3, HeldSame
<1>7. Balanced' /\ Wanted(conn_rx', t) = Wanted(conn_rx, t)
  BY <1>1, <1>6, SilentBooks
<1>8. Owed(t)' = n
  <2>1. task'[t].window_needed = task[t].window_needed + n
    BY <1>3, <1>4, <1>5
  <2>2. Wanted(conn_rx', t) = Wanted(conn_rx, t) + 0 /\ Held(t)' = Held(t) + 0 /\ 0 \in Int
    BY <1>6, <1>7, OwedType
  <2>3. Owed(t)' = Owed(t) + (n + 0 + 0)
    BY <1>4, <2>1, <2>2, OwedChange
  <2> QED
    BY <1>4, <1>5, <2>3
<1> QED
  BY <1>3, <1>4, <1>5, <1>7, <1>8 DEF Book

\* What a task that ends still holds goes back to the pool.
LEMMA GiveBackBooks ==
    ASSUME TypeInv, TypeInv', Pool, Books, Balanced, NEW t \in Tasks, OneTask(t), GiveBack(t)
    PROVE  Book(t)' /\ Balanced'
<1>1. /\ task[t] \in Task /\ task \in [Tasks -> Task]
      /\ task[t].at = "closing" /\ task[t].available_window > 0
  BY DEF TypeInv, TypeOK, GiveBack
<1>2. PICK a \in Nat : a = task[t].available_window
  BY <1>1 DEF Task
<1>3. \E req \in ConnectionReq :
          /\ req.from = t /\ req.kind = "PutWindow" /\ req.amount = a
          /\ conn_rx' = Append(conn_rx, req)
  <2> DEFINE req == Request("PutWindow", t, a, FALSE)
  <2>1. req \in ConnectionReq
    BY <1>1, RequestType
  <2>2. req.from = t /\ req.kind = "PutWindow" /\ req.amount = a
    BY DEF Request
  <2>3. conn_rx' = Append(conn_rx, req)
    BY <1>2 DEF GiveBack, Send
  <2> HIDE DEF req
  <2> QED
    BY <2>1, <2>2, <2>3
<1>4. /\ task'[t].available_window = 0 /\ task'[t].left = task[t].left
      /\ task'[t].window_needed = task[t].window_needed
      /\ task'[t].at = "closing" /\ task'[t].error = task[t].error /\ rx' = rx
  BY <1>1 DEF GiveBack, Task
<1>5. PICK d \in Int : d = 0 - a
  OBVIOUS
<1>6. Held(t)' = Held(t) + d
  <2>1. PICK b \in Nat : b = Carried(rx[t], "AvailableWindow")
    BY HeldType
  <2>2. Held(t) = a + b /\ Held(t)' = 0 + b
    BY <1>2, <1>4, <2>1 DEF Held
  <2> QED
    BY <1>5, <2>2
<1>7. Balanced' /\ Wanted(conn_rx', t) = Wanted(conn_rx, t) + 0
  <2>1. PICK req \in ConnectionReq :
            /\ req.from = t /\ req.kind = "PutWindow" /\ req.amount = a
            /\ conn_rx' = Append(conn_rx, req)
    BY <1>3
  <2>2. d = IF req.kind \in {"PutWindow", "Frame"} THEN 0 - req.amount ELSE 0
    BY <1>5, <2>1
  <2>3. /\ Balanced'
        /\ Wanted(conn_rx', t)
               = Wanted(conn_rx, t) + IF req.kind = "GetWindow" THEN req.amount ELSE 0
    BY <1>6, <2>1, <2>2, SentBooks
  <2> QED
    BY <2>1, <2>3
<1>8. Owed(t)' = Owed(t) + (0 + 0 + d)
  <2>1. task'[t].window_needed = task[t].window_needed + 0 /\ 0 \in Int
    BY <1>4, OwedType
  <2> QED
    BY <1>6, <1>7, <2>1, OwedChange
<1>9. Book(t)
  BY DEF Books
<1>10. task[t].error # "none"
  BY <1>1, <1>9, IdleTask
<1>11. PICK o \in Nat, l \in Nat : o = Owed(t) /\ l = task[t].left
  BY OwedType
<1>12. o <= l
  BY <1>9, <1>11 DEF Book
<1>13. Owed(t)' <= l
  BY <1>5, <1>8, <1>11, <1>12
<1> QED
  BY <1>4, <1>7, <1>9, <1>10, <1>11, <1>13 DEF Book

LEMMA TaskBooks ==
    ASSUME ConstantsAssumption, TypeInv, TypeInv', Running, Pool, Books, Balanced,
           NEW t \in Tasks, StreamTask(t)
    PROVE  Books' /\ Balanced'
<1>1. OneTask(t)
  BY TaskSteps
<1>2. task[t] \in Task /\ task \in [Tasks -> Task] /\ Book(t) /\ task[t].left <= MaxChunk
  BY DEF TypeInv, TypeOK, Books, Book
<1>3. ASSUME NEW kind \in {"Response", "Frame", "StreamClosing", "StreamClosed"},
             NEW end_stream \in BOOLEAN,
             conn_rx' = Append(conn_rx, Request(kind, t, 0, end_stream)),
             rx'[t] = rx[t], task'[t].available_window = task[t].available_window,
             task'[t].window_needed = task[t].window_needed, task'[t].left = task[t].left,
             GoesOn(t) \/ Ends(t)
      PROVE  Book(t)' /\ Balanced'
  <2>1. \E req \in ConnectionReq :
            /\ conn_rx' = Append(conn_rx, req) /\ req.from = t
            /\ req.kind # "GetWindow"
            /\ req.kind \in {"PutWindow", "Frame"} => req.amount = 0
    <3> DEFINE req == Request(kind, t, 0, end_stream)
    <3>1. task[t].at # "unused"
      BY <1>1 DEF OneTask
    <3>2. req \in ConnectionReq
      BY <3>1, RequestType
    <3>3. req.from = t /\ req.kind # "GetWindow" /\ req.amount = 0
      BY DEF Request
    <3>4. conn_rx' = Append(conn_rx, req)
      BY <1>3
    <3> HIDE DEF req
    <3> QED
      BY <3>2, <3>3, <3>4
  <2>2. Held(t)' = Held(t)
    BY <1>3, HeldSame
  <2> QED
    BY <1>1, <1>2, <1>3, <2>1, <2>2, MessageBooks
<1>4. CASE SendResponse(t)
  <2>1. PICK size \in 0..MaxBody, no_body \in BOOLEAN :
            /\ conn_rx' = Append(conn_rx, Request("Response", t, 0, no_body))
            /\ task' = [task EXCEPT ![t].at = IF no_body THEN "closing" ELSE "reading",
                                    ![t].body = size]
    BY <1>4 DEF SendResponse, Send
  <2>2. task[t].at = "handling" /\ rx'[t] = rx[t]
    BY <1>4 DEF SendResponse
  <2>3. /\ task'[t].available_window = task[t].available_window
        /\ task'[t].window_needed = task[t].window_needed /\ task'[t].left = task[t].left
        /\ task'[t].error = task[t].error
        /\ task'[t].at = IF no_body THEN "closing" ELSE "reading"
    BY <1>2, <2>1 DEF Task
  <2>4. GoesOn(t) \/ Ends(t)
    BY <2>2, <2>3 DEF GoesOn, Ends
  <2>5. Book(t)' /\ Balanced'
    BY <1>3, <2>1, <2>2, <2>3, <2>4
  <2> QED
    BY <1>1, <2>5, OtherBooks DEF Books
<1>5. CASE ReadFails(t)
  <2>1. /\ conn_rx' = conn_rx /\ rx'[t] = rx[t]
        /\ task' = [task EXCEPT ![t].at = "closing", ![t].error = "stream"]
    BY <1>5 DEF ReadFails
  <2>2. /\ task'[t].available_window = task[t].available_window
        /\ task'[t].window_needed = task[t].window_needed /\ task'[t].left = task[t].left
        /\ task'[t].error = "stream" /\ task'[t].at = "closing"
    BY <1>2, <2>1 DEF Task
  <2>3. Held(t)' = Held(t) /\ Ends(t)
    BY <2>1, <2>2, HeldSame DEF Ends
  <2>4. Book(t)' /\ Balanced'
    BY <1>1, <1>2, <2>1, <2>2, <2>3, MessageBooks
  <2> QED
    BY <1>1, <2>4, OtherBooks DEF Books
<1>6. CASE EndBody(t)
  <2>1. /\ conn_rx' = Append(conn_rx, Request("Frame", t, 0, TRUE)) /\ rx'[t] = rx[t]
        /\ task[t].at = "reading" /\ task' = [task EXCEPT ![t].at = "closing"]
    BY <1>6 DEF EndBody, Send
  <2>2. /\ task'[t].available_window = task[t].available_window
        /\ task'[t].window_needed = task[t].window_needed /\ task'[t].left = task[t].left
        /\ task'[t].error = task[t].error /\ task'[t].at = "closing"
    BY <1>2, <2>1 DEF Task
  <2>3. Ends(t)
    BY <2>1, <2>2 DEF Ends
  <2>4. Book(t)' /\ Balanced'
    BY <1>3, <2>1, <2>2, <2>3
  <2> QED
    BY <1>1, <2>4, OtherBooks DEF Books
<1>7. CASE SendClosing(t)
  <2>1. /\ conn_rx' = Append(conn_rx, Request("StreamClosing", t, 0, FALSE)) /\ rx'[t] = rx[t]
        /\ task[t].at = "closing" /\ task' = [task EXCEPT ![t].at = "announced"]
    BY <1>7 DEF SendClosing, Send
  <2>2. /\ task'[t].available_window = task[t].available_window
        /\ task'[t].window_needed = task[t].window_needed /\ task'[t].left = task[t].left
        /\ task'[t].error = task[t].error /\ task'[t].at = "announced"
    BY <1>2, <2>1 DEF Task
  <2>3. Ends(t)
    BY <2>1, <2>2 DEF Ends
  <2>4. Book(t)' /\ Balanced'
    BY <1>3, <2>1, <2>2, <2>3
  <2> QED
    BY <1>1, <2>4, OtherBooks DEF Books
<1>8. CASE SendClosed(t)
  <2>1. /\ conn_rx' = Append(conn_rx, Request("StreamClosed", t, 0, FALSE)) /\ rx'[t] = rx[t]
        /\ task[t].at = "announced" /\ task' = [task EXCEPT ![t].at = "exited"]
    BY <1>8 DEF SendClosed, Send
  <2>2. /\ task'[t].available_window = task[t].available_window
        /\ task'[t].window_needed = task[t].window_needed /\ task'[t].left = task[t].left
        /\ task'[t].error = task[t].error /\ task'[t].at = "exited"
    BY <1>2, <2>1 DEF Task
  <2>3. Ends(t)
    BY <2>1, <2>2 DEF Ends
  <2>4. Book(t)' /\ Balanced'
    BY <1>3, <2>1, <2>2, <2>3
  <2> QED
    BY <1>1, <2>4, OtherBooks DEF Books
<1>9. CASE ReadChunk(t) \/ RequestWindow(t) \/ SendData(t) \/ Receive(t) \/ GiveBack(t)
  <2>1. Book(t)' /\ Balanced'
    BY <1>1, <1>9, ChunkBooks, RequestBooks, DataBooks, ReceiveBooks, GiveBackBooks
  <2> QED
    BY <1>1, <2>1, OtherBooks DEF Books
<1>10. CASE SendFails(t)
  BY <1>10 DEF SendFails
<1> QED
  BY <1>4, <1>5, <1>6, <1>7, <1>8, <1>9, <1>10 DEF StreamTask

-----------------------------------------------------------------------------
(* All steps.                                                               *)

\* A reset says nothing about window.
LEMMA ResetTells ==
    ASSUME NEW id, ResetStream(id)
    PROVE  \E ts : \E req \in StreamReq : req.kind # "AvailableWindow" /\ Tell(ts, req)
<1>1. [kind |-> "Reset", amount |-> 0] \in StreamReq
  BY DEF StreamReq
<1> QED
  BY <1>1 DEF ResetStream

LEMMA PeerBooks ==
    ASSUME ConstantsAssumption, TypeInv, Running, Running', "REOPEN" \notin PeerSends,
           OwnStreams, OwnRequests, Pool, Books, Balanced, Peer
    PROVE  Books' /\ Balanced'
<1> USE DEF loopVars, windowVars, streamVars, shutdownVars, taskVars, peerVars, wireVars
<1>0. global_window \in Int /\ credit \in Int
  BY HeldType
<1>1. ASSUME task' = task, conn_rx' = conn_rx, pending_window_req' = pending_window_req,
             global_window' = global_window, credit' = credit,
             \/ rx' = rx
             \/ \E ts : \E req \in StreamReq : req.kind # "AvailableWindow" /\ Tell(ts, req)
      PROVE  Books' /\ Balanced'
  <2>1. global_window' = global_window + 0 /\ credit' = credit + 0 /\ 0 \in Int
    BY <1>0, <1>1
  <2> QED
    BY <1>1, <2>1, QuietBooks
<1>2. ASSUME NEW n \in Int, NEW ts, Tell(ts, [kind |-> "WindowUpdate", amount |-> n])
      PROVE  \E us : \E req \in StreamReq : req.kind # "AvailableWindow" /\ Tell(us, req)
  <2>1. [kind |-> "WindowUpdate", amount |-> n] \in StreamReq
    BY DEF StreamReq
  <2> QED
    BY <1>2, <2>1
<1>3. ASSUME NEW id \in StreamIds, NEW kind \in PeerSends, RecvRejectedHeaders(id, kind)
      PROVE  Books' /\ Balanced'
  <2>1. /\ task' = task /\ conn_rx' = conn_rx /\ pending_window_req' = pending_window_req
        /\ global_window' = global_window /\ credit' = credit /\ ResetStream(id)
    BY <1>3 DEF RecvRejectedHeaders
  <2> QED
    BY <1>1, <2>1, ResetTells
<1>4. ASSUME NEW n \in Increments, RecvGlobalWindowUpdate(n)
      PROVE  Books' /\ Balanced'
  <2>1. /\ task' = task /\ conn_rx' = conn_rx /\ pending_window_req' = pending_window_req
        /\ rx' = rx /\ global_window' = global_window + n /\ credit' = credit + n
    BY <1>4 DEF RecvGlobalWindowUpdate, Close, Running
  <2>2. n \in Int
    BY DEF ConstantsAssumption
  <2> QED
    BY <2>1, <2>2, QuietBooks
<1>5. ASSUME NEW id \in StreamIds, NEW n \in Increments, RecvStreamWindowUpdate(id, n)
      PROVE  Books' /\ Balanced'
  <2>1. /\ task' = task /\ conn_rx' = conn_rx /\ pending_window_req' = pending_window_req
        /\ global_window' = global_window /\ credit' = credit
        /\ \/ \E ts : Tell(ts, [kind |-> "WindowUpdate", amount |-> n])
           \/ ResetStream(id) \/ rx' = rx
    BY <1>5 DEF RecvStreamWindowUpdate
  <2>2. n \in Int
    BY DEF ConstantsAssumption
  <2>3. \/ rx' = rx
        \/ \E ts : \E req \in StreamReq : req.kind # "AvailableWindow" /\ Tell(ts, req)
    BY <1>2, <2>1, <2>2, ResetTells
  <2> QED
    BY <1>1, <2>1, <2>3
<1>6. ASSUME NEW size \in InitialWindows, RecvSettings(size)
      PROVE  Books' /\ Balanced'
  <2> DEFINE dif == size - initial_window_size
  <2>1. /\ task' = task /\ conn_rx' = conn_rx /\ pending_window_req' = pending_window_req
        /\ global_window' = global_window /\ credit' = credit
        /\ \E ts : Tell(ts, [kind |-> "WindowUpdate", amount |-> dif])
    BY <1>6 DEF RecvSettings
  <2>2. dif \in Int
    BY DEF ConstantsAssumption, TypeInv, TypeOK
  <2> HIDE DEF dif
  <2>3. \E ts : \E req \in StreamReq : req.kind # "AvailableWindow" /\ Tell(ts, req)
    BY <1>2, <2>1, <2>2
  <2> QED
    BY <1>1, <2>1, <2>3
<1>7. ASSUME NEW id \in StreamIds, RecvRstStream(id)
      PROVE  Books' /\ Balanced'
  <2>1. /\ task' = task /\ conn_rx' = conn_rx /\ pending_window_req' = pending_window_req
        /\ global_window' = global_window /\ credit' = credit /\ rx' = rx
    BY <1>7 DEF RecvRstStream
  <2> QED
    BY <1>1, <2>1
<1>8. ASSUME NEW how, Leave(how), how # "running" PROVE FALSE
  BY <1>8 DEF Leave, Close, Running
<1>9. ASSUME NEW id \in StreamIds, NEW kind \in PeerSends, RecvIllegalHeaders(id, kind)
      PROVE  FALSE
  BY <1>8, <1>9 DEF RecvIllegalHeaders
<1>10. ASSUME NEW id \in StreamIds, RecvUndecodableHeaders(id) PROVE FALSE
  BY <1>8, <1>10 DEF RecvUndecodableHeaders
<1>11. ASSUME RecvGoAway \/ ConnectionFails PROVE FALSE
  BY <1>8, <1>11 DEF RecvGoAway, ConnectionFails
<1>12. ASSUME NEW id \in StreamIds, NEW kind \in PeerSends, NEW t \in Tasks,
              RecvRequest(id, kind, t)
       PROVE  Books' /\ Balanced'
  BY <1>12, OpenBooks
<1> QED
  BY <1>3, <1>4, <1>5, <1>6, <1>7, <1>9, <1>10, <1>11, <1>12 DEF Peer

LEMMA StreamsBooks ==
    ASSUME ConstantsAssumption, TypeInv, Running, Running', OwnStreams, OwnRequests,
           Pool, Books, Balanced, Streams
    PROVE  Books' /\ Balanced'
<1> USE DEF loopVars, windowVars, streamVars, shutdownVars, taskVars, peerVars, wireVars
<1> DEFINE req == Head(conn_rx)
<1>0. global_window \in Int /\ credit \in Int
  BY HeldType
<1>1. ASSUME conn_rx # << >> PROVE req.amount \in Nat
  <2>1. req \in ConnectionReq
    BY <1>1, HeadTail DEF TypeInv, TypeOK
  <2> QED
    BY <2>1 DEF ConnectionReq
<1>2. ASSUME req.kind \in {"Response", "StreamClosing", "StreamClosed"},
             conn_rx # << >>, conn_rx' = Tail(conn_rx), task' = task,
             pending_window_req' = pending_window_req,
             global_window' = global_window, credit' = credit,
             \/ rx' = rx
             \/ \E ts : \E m \in StreamReq : m.kind # "AvailableWindow" /\ Tell(ts, m)
      PROVE  Books' /\ Balanced'
  <2>1. global_window' = global_window + 0 /\ credit' = credit + 0 /\ 0 \in Int
    BY <1>0, <1>2
  <2>2. 0 = 0 - (IF req.kind = "PutWindow" THEN req.amount ELSE 0)
              - (IF req.kind = "Frame" THEN req.amount ELSE 0)
    BY <1>2
  <2>3. req.kind # "GetWindow"
    BY <1>2
  <2> QED
    BY <1>2, <2>1, <2>2, <2>3, TakenBooks
<1>3. CASE WriteResponse
  <2>1. /\ req.kind = "Response" /\ conn_rx # << >> /\ conn_rx' = Tail(conn_rx)
        /\ task' = task /\ pending_window_req' = pending_window_req
        /\ global_window' = global_window /\ credit' = credit /\ rx' = rx
    BY <1>3 DEF WriteResponse, Take
  <2> QED
    BY <1>2, <2>1
<1>4. CASE StreamClosed
  <2>1. /\ req.kind = "StreamClosed" /\ conn_rx # << >> /\ conn_rx' = Tail(conn_rx)
        /\ task' = task /\ pending_window_req' = pending_window_req
        /\ global_window' = global_window /\ credit' = credit /\ rx' = rx
    BY <1>4 DEF StreamClosed, Take
  <2> QED
    BY <1>2, <2>1
<1>5. CASE StreamClosing
  <2>1. /\ req.kind = "StreamClosing" /\ conn_rx # << >> /\ conn_rx' = Tail(conn_rx)
        /\ task' = task /\ pending_window_req' = pending_window_req
        /\ global_window' = global_window /\ credit' = credit
        /\ rx' = rx \/ ResetStream(req.id)
    BY <1>5 DEF StreamClosing, Take
  <2> QED
    BY <1>2, <2>1, ResetTells
<1>6. CASE WriteFrame
  <2>1. /\ req.kind = "Frame" /\ conn_rx # << >> /\ conn_rx' = Tail(conn_rx)
        /\ task' = task /\ pending_window_req' = pending_window_req
        /\ global_window' = global_window /\ credit' = credit - req.amount /\ rx' = rx
    BY <1>6 DEF WriteFrame, Take
  <2>2. PICK e \in Int : e = 0 - req.amount
    BY <1>1, <2>1
  <2>3. global_window' = global_window + 0 /\ credit' = credit + e /\ 0 \in Int
    BY <1>0, <1>1, <2>1, <2>2
  <2>4. e = 0 - (IF req.kind = "PutWindow" THEN req.amount ELSE 0)
              - (IF req.kind = "Frame" THEN req.amount ELSE 0)
    BY <1>1, <2>1, <2>2
  <2>5. req.kind # "GetWindow"
    BY <2>1
  <2> QED
    BY <2>1, <2>3, <2>4, <2>5, TakenBooks
<1>7. CASE PutWindow
  <2>1. /\ req.kind = "PutWindow" /\ conn_rx # << >> /\ conn_rx' = Tail(conn_rx)
        /\ task' = task /\ pending_window_req' = pending_window_req
        /\ global_window' = global_window + req.amount /\ credit' = credit /\ rx' = rx
    BY <1>7 DEF PutWindow, Take, Close, Running
  <2>2. PICK a \in Int : a = req.amount
    BY <1>1, <2>1
  <2>3. global_window' = global_window + a /\ credit' = credit + 0 /\ 0 \in Int
    BY <1>0, <2>1, <2>2
  <2>4. 0 = a - (IF req.kind = "PutWindow" THEN req.amount ELSE 0)
              - (IF req.kind = "Frame" THEN req.amount ELSE 0)
    BY <2>1, <2>2
  <2>5. req.kind # "GetWindow"
    BY <2>1
  <2> QED
    BY <2>1, <2>3, <2>4, <2>5, TakenBooks
<1> QED
  BY <1>3, <1>4, <1>5, <1>6, <1>7, AskedBooks DEF Streams

LEMMA BooksStep ==
    ASSUME ConstantsAssumption, TypeInv, TypeInv', Running, Running', "REOPEN" \notin PeerSends,
           OwnStreams, OwnRequests, Pool, Books, Balanced, [Next]_vars
    PROVE  Books' /\ Balanced'
<1>1. CASE AnnounceShutdown \/ NoticeShutdown \/ FlushWriteBuffer \/ UNCHANGED vars
  <2>1. /\ task' = task /\ conn_rx' = conn_rx /\ pending_window_req' = pending_window_req
        /\ global_window' = global_window /\ credit' = credit /\ rx' = rx
    BY <1>1 DEF AnnounceShutdown, NoticeShutdown, StopAccepting, FlushWriteBuffer, vars,
                loopVars, windowVars, streamVars, shutdownVars, taskVars, peerVars, wireVars
  <2>2. global_window' = global_window + 0 /\ credit' = credit + 0 /\ 0 \in Int
    BY <2>1, HeldType
  <2> QED
    BY <2>1, <2>2, QuietBooks
<1>2. CASE DistributeWindow
  BY <1>2, DroppedBooks, GivenBooks DEF DistributeWindow
<1> QED
  BY <1>1, <1>2, PeerBooks, StreamsBooks, TaskBooks DEF Next

-----------------------------------------------------------------------------
(* The theorems.                                                            *)

\* The inductive invariant.  When main_loop has been left nobody keeps accounts.
SendInv == Running => OwnStreams /\ OwnRequests /\ Pool /\ Books /\ Balanced

LEMMA InitSend == ASSUME ConstantsAssumption, Init PROVE SendInv
<1>1. /\ global_window = GlobalWindow /\ credit = GlobalWindow /\ GlobalWindow \in Nat
      /\ pending_window_req = << >> /\ conn_rx = << >> /\ distributing = FALSE
      /\ streams = [id \in StreamIds |-> NoTask] /\ MaxChunk \in Nat
  BY DEF Init, ConstantsAssumption
<1>2. ASSUME NEW t \in Tasks
      PROVE  /\ task[t].at = "unused" /\ task[t].id = 0 /\ task[t].error = "none"
             /\ task[t].left = 0 /\ task[t].window_needed = 0
             /\ task[t].available_window = 0 /\ rx[t] = << >>
  BY DEF Init
<1>3. OwnStreams /\ OwnRequests
  <2>1. OwnRequests
    BY <1>1 DEF OwnRequests
  <2> QED
    BY <1>1, <1>2, <2>1 DEF OwnStreams, Used
<1>4. Pool
  BY <1>1 DEF Pool, Known
<1>5. ASSUME NEW t \in Tasks PROVE Held(t) = 0
  BY <1>2, CarriedTypes DEF Held
<1>6. ASSUME NEW t \in Tasks PROVE Book(t)
  <2>1. Wanted(conn_rx, t) = 0
    <3>1. [i \in DOMAIN << >> |-> IF << >>[i].kind = "GetWindow" /\ << >>[i].from = t
                                  THEN << >>[i].amount ELSE 0] = << >>
      OBVIOUS
    <3> QED
      BY <1>1, <3>1, TotalDefined DEF Wanted
  <2>2. Queued(pending_window_req, task[t].id) = 0
    BY <1>1, QueuedType
  <2>3. Owed(t) = 0
    BY <1>2, <1>5, <2>1, <2>2 DEF Owed
  <2> QED
    BY <1>1, <1>2, <2>3 DEF Book
<1>7. Balanced
  <2>1. Holdings = [t \in Tasks |-> 0]
    BY <1>5 DEF Holdings
  <2>2. Over(Tasks, Holdings) = 0
    BY <2>1, OverNothing DEF ConstantsAssumption
  <2>3. Carried(conn_rx, "PutWindow") = 0 /\ Carried(conn_rx, "Frame") = 0
    BY <1>1, CarriedTypes
  <2> QED
    BY <1>1, <2>2, <2>3, Accounts DEF Balanced
<1> QED
  BY <1>3, <1>4, <1>6, <1>7 DEF SendInv, Books

\* main_loop is not entered again.
LEMMA NotAgain == ASSUME [Next]_vars, Running' PROVE Running
<1> USE DEF loopVars, Close, Leave, Selecting
<1>1. SUFFICES ASSUME ~Running PROVE exit' = exit
  BY DEF Running
<1>2. CASE UNCHANGED vars \/ AnnounceShutdown
  BY <1>2 DEF vars, AnnounceShutdown
<1>3. CASE Peer
  BY <1>1, <1>3 DEF Peer, RecvIllegalHeaders, RecvRejectedHeaders, RecvRequest,
     RecvUndecodableHeaders, RecvRstStream, RecvGlobalWindowUpdate, RecvStreamWindowUpdate,
     RecvSettings, RecvGoAway, ConnectionFails
<1>4. CASE NoticeShutdown \/ FlushWriteBuffer \/ Streams \/ DistributeWindow
  BY <1>1, <1>4 DEF NoticeShutdown, FlushWriteBuffer, Streams, WriteResponse, WriteFrame,
     GetWindow, PutWindow, StreamClosing, StreamClosed, Take, DistributeWindow,
     DropWindowRequest, GiveWindow
<1>5. ASSUME NEW t \in Tasks, StreamTask(t) PROVE exit' = exit
  BY <1>5 DEF StreamTask, TaskStep, SendResponse, ReadChunk, ReadFails, EndBody,
     RequestWindow, SendData, Receive, GiveBack, SendClosing, SendClosed, SendFails
<1> QED
  BY <1>2, <1>3, <1>4, <1>5 DEF Next

\* Each step keeps the invariant, as long as the peer opens each stream once.
LEMMA SendStep ==
    ASSUME ConstantsAssumption, "REOPEN" \notin PeerSends, TypeInv, TypeInv', SendInv,
           [Next]_vars
    PROVE  SendInv'
<1>1. SUFFICES ASSUME Running' PROVE (OwnStreams /\ OwnRequests /\ Pool /\ Books /\ Balanced)'
  BY DEF SendInv
<1>2. Running
  BY <1>1, NotAgain
<1>3. OwnStreams /\ OwnRequests /\ Pool /\ Books /\ Balanced
  BY <1>2 DEF SendInv
<1> QED
  BY <1>1, <1>2, <1>3, OwnStep, PoolStep, BooksStep

LEMMA SendInvariant ==
    ASSUME "REOPEN" \notin PeerSends
    PROVE  Spec => [](TypeInv /\ SendInv)
<1>1. Init => TypeInv /\ SendInv
  BY ConstantsAssumption, InitType, InitSend
<1>2. (TypeInv /\ SendInv) /\ [Next]_vars => (TypeInv /\ SendInv)'
  BY ConstantsAssumption, TypeStep, SendStep
<1> QED
  BY <1>1, <1>2, PTL DEF Spec

\* The window the peer has granted to the connection is in the pool, with the tasks or on
\* its way: distribute_window and the streams lose none of it and use none twice.
THEOREM WindowKept ==
    ASSUME "REOPEN" \notin PeerSends
    PROVE  Spec => []WindowConserved
<1>1. SendInv => WindowConserved
  BY DEF SendInv, WindowConserved, Balanced
<1> QED
  BY <1>1, SendInvariant, PTL

\* Window that is lost to the connection is with a task that failed: run_inner of one
\* that ended well has nothing left to give back, nor has anything been sent to it since.
THEOREM CleanExits ==
    ASSUME "REOPEN" \notin PeerSends
    PROVE  Spec => []CleanExitsLoseNoWindow
<1>1. ASSUME TypeInv, SendInv, Running
      PROVE  credit = Accounted({t \in Tasks : Alive(t) \/ task[t].error # "none"})
  <2> DEFINE ts == {t \in Tasks : Alive(t) \/ task[t].error # "none"}
  <2>1. Pool /\ Books /\ Balanced
    BY <1>1 DEF SendInv
  <2>2. ASSUME NEW t \in Tasks, t \notin ts PROVE Held(t) = 0
    <3>1. task[t].error = "none" /\ task[t].at # "sending" /\ Book(t)
      BY <2>1, <2>2 DEF Alive, Books
    <3> QED
      BY <1>1, <2>1, <3>1, IdleTask
  <2>3. [t \in Tasks |-> IF t \in ts THEN Held(t) ELSE 0]
            = [t \in Tasks |-> IF t \in Tasks THEN Held(t) ELSE 0]
    BY <2>2
  <2> HIDE DEF ts
  <2>4. Accounted(ts) = Accounted(Tasks)
    BY <2>3 DEF Accounted
  <2>5. credit = Accounted(ts)
    BY <2>1, <2>4 DEF Balanced
  <2> QED
    BY <2>5 DEF ts
<1>2. TypeInv /\ SendInv => CleanExitsLoseNoWindow
  BY <1>1 DEF CleanExitsLoseNoWindow
<1> QED
  BY <1>2, SendInvariant, PTL

\* What a task in send_body has asked for, waits for and holds is what its chunk needs.
THEOREM AsksForEachChunk ==
    ASSUME "REOPEN" \notin PeerSends
    PROVE  Spec => []AsksForItsChunk
<1>1. ASSUME SendInv, NEW t \in Tasks, Running, task[t].at = "sending"
      PROVE  task[t].left = task[t].window_needed + CarriedFor(t, "GetWindow")
                                + Pending(task[t].id) + Held(t)
  <2>1. Owed(t) = task[t].left
    BY <1>1 DEF SendInv, Books, Book
  <2> QED
    BY <2>1, WantedType, QueuedType DEF Owed
<1>2. SendInv => AsksForItsChunk
  BY <1>1 DEF AsksForItsChunk
<1> QED
  BY <1>2, SendInvariant, PTL

\* A task that waits while nothing is in flight waits for the peer.
THEOREM NobodyForgotten ==
    ASSUME "REOPEN" \notin PeerSends
    PROVE  Spec => []NoLostWakeUp
<1>1. ASSUME TypeInv, SendInv, Selecting, conn_rx = << >>,
             NEW t \in Tasks, WaitsForWindow(t), rx[t] = << >>
      PROVE  \/ task[t].window_needed > 0 /\ task[t].window <= 0
             \/ Pending(task[t].id) > 0 /\ global_window <= 0
  <2>1. Pool /\ Book(t) /\ task[t].at = "sending" /\ ~distributing
    BY <1>1 DEF SendInv, Selecting, Books, WaitsForWindow
  <2>2. Owed(t) = task[t].left /\ task[t].left > 0
    BY <2>1 DEF Book
  <2>3. Held(t) = 0
    <3>1. task[t].available_window \in Nat /\ task[t].available_window <= 0
      BY <1>1, HeldType DEF WaitsForWindow
    <3> QED
      BY <1>1, <3>1, CarriedTypes DEF Held
  <2>4. Wanted(conn_rx, t) = 0
    <3>1. [i \in DOMAIN << >> |-> IF << >>[i].kind = "GetWindow" /\ << >>[i].from = t
                                  THEN << >>[i].amount ELSE 0] = << >>
      OBVIOUS
    <3> QED
      BY <1>1, <3>1, TotalDefined DEF Wanted
  <2>5. PICK n \in Nat, q \in Nat :
            n = task[t].window_needed /\ q = Queued(pending_window_req, task[t].id)
    BY <1>1, <2>1, OwedType
  <2>6. n + q > 0
    BY <2>2, <2>3, <2>4, <2>5 DEF Owed
  <2>7. CASE n > 0
    BY <1>1, <2>5, <2>7, OwedType, <2>1 DEF WaitsForWindow, CanRequest
  <2>8. CASE n = 0
    <3>1. q > 0
      BY <2>6, <2>8
    <3>2. pending_window_req # << >>
      BY <2>5, <3>1, QueuedType
    <3>3. global_window <= 0
      BY <2>1, <3>2 DEF Pool
    <3> QED
      BY <2>5, <3>1, <3>3, QueuedType
  <2> QED
    BY <2>7, <2>8
<1>2. TypeInv /\ SendInv => NoLostWakeUp
  BY <1>1 DEF NoLostWakeUp
<1> QED
  BY <1>2, SendInvariant, PTL

-----------------------------------------------------------------------------
(* What the messages in a task's channel will do to its window.             *)

Raise(req) == IF req.kind = "WindowUpdate" THEN req.amount ELSE 0

\* By the first k messages of q.
Raised(q, k) == Total[[i \in 1..k |-> Raise(q[i])]]

\* A task that has n to dispose of never has more than high of it while it reads q, and
\* low when it has read all of it.
Fits(q, n, low, high) ==
    /\ n + Raised(q, Len(q)) <= low
    /\ \A k \in 0..Len(q) : n + Raised(q, k) <= high

LEMMA RaiseType == \A req \in StreamReq : Raise(req) \in Int
BY DEF Raise, StreamReq

LEMMA RaisedType ==
    ASSUME NEW q \in Seq(StreamReq), NEW k \in 0..Len(q)
    PROVE  /\ [i \in 1..k |-> Raise(q[i])] \in Seq(Int)
           /\ Len([i \in 1..k |-> Raise(q[i])]) = k
           /\ Raised(q, k) \in Int
<1> DEFINE s == [i \in 1..k |-> Raise(q[i])]
<1>1. k \in Nat /\ \A i \in 1..k : i \in 1..Len(q)
  OBVIOUS
<1>2. \A i \in 1..k : Raise(q[i]) \in Int
  BY <1>1, RaiseType
<1>3. s \in [1..k -> Int]
  BY <1>2
<1>4. s \in Seq(Int) /\ Len(s) = k
  BY <1>1, <1>3
<1> HIDE DEF s
<1>5. Total[s] \in Int
  BY <1>4, TotalDefined
<1> QED
  BY <1>4, <1>5 DEF s, Raised

LEMMA RaisedNone == ASSUME NEW q PROVE Raised(q, 0) = 0
<1>1. [i \in 1..0 |-> Raise(q[i])] = << >>
  OBVIOUS
<1> QED
  BY <1>1, TotalDefined DEF Raised

\* A message that is added is the last to be read.
LEMMA RaisedAppend ==
    ASSUME NEW q \in Seq(StreamReq), NEW m \in StreamReq
    PROVE  /\ \A k \in 0..Len(q) : Raised(Append(q, m), k) = Raised(q, k)
           /\ Raised(Append(q, m), Len(q) + 1) = Raised(q, Len(q)) + Raise(m)
<1> DEFINE p == Append(q, m)
           n == Len(q)
<1>1. /\ p \in Seq(StreamReq) /\ Len(p) = n + 1 /\ n \in Nat /\ p[n + 1] = m
      /\ \A i \in 1..n : p[i] = q[i]
  OBVIOUS
<1> HIDE DEF p, n
<1>2. ASSUME NEW k \in 0..n PROVE Raised(p, k) = Raised(q, k)
  <2>1. \A i \in 1..k : p[i] = q[i]
    BY <1>1
  <2>2. [i \in 1..k |-> Raise(p[i])] = [i \in 1..k |-> Raise(q[i])]
    BY <2>1
  <2> QED
    BY <2>2 DEF Raised
<1>3. Raised(p, n + 1) = Raised(q, n) + Raise(m)
  <2> DEFINE s == [i \in 1..n |-> Raise(q[i])]
             t == [i \in 1..(n + 1) |-> Raise(p[i])]
  <2>1. s \in Seq(Int) /\ Len(s) = n
    BY <1>1, RaisedType DEF n
  <2>2. t \in Seq(Int) /\ Len(t) = n + 1
    <3>1. n + 1 \in 0..Len(p)
      BY <1>1
    <3> QED
      BY <1>1, <3>1, RaisedType
  <2>3. \A i \in 1..Len(s) : t[i] = s[i]
    BY <1>1, <2>1
  <2>4. t[n + 1] = Raise(m)
    BY <1>1
  <2> HIDE DEF s, t
  <2>5. Total[t] = Total[s] + t[n + 1]
    BY <2>1, <2>2, <2>3, TotalLonger
  <2> QED
    BY <2>4, <2>5 DEF s, t, Raised
<1> QED
  BY <1>2, <1>3 DEF p, n

\* The first message has been read.
LEMMA RaisedTail ==
    ASSUME NEW q \in Seq(StreamReq), q # << >>
    PROVE  /\ Tail(q) \in Seq(StreamReq) /\ Len(Tail(q)) = Len(q) - 1 /\ Len(q) \in Nat
           /\ Head(q) \in StreamReq
           /\ \A k \in 0..Len(Tail(q)) :
                  k + 1 \in 0..Len(q) /\ Raised(q, k + 1) = Raise(Head(q)) + Raised(Tail(q), k)
<1> DEFINE p == Tail(q)
<1>1. /\ p \in Seq(StreamReq) /\ Len(p) = Len(q) - 1 /\ Len(q) \in Nat /\ Len(p) \in Nat
      /\ Head(q) \in StreamReq /\ Head(q) = q[1]
      /\ \A i \in 1..Len(p) : p[i] = q[i + 1]
  OBVIOUS
<1> HIDE DEF p
<1>2. ASSUME NEW k \in 0..Len(p)
      PROVE  k + 1 \in 0..Len(q) /\ Raised(q, k + 1) = Raise(Head(q)) + Raised(p, k)
  <2> DEFINE s == [i \in 1..(k + 1) |-> Raise(q[i])]
             t == [i \in 1..k |-> Raise(p[i])]
  <2>1. k + 1 \in 0..Len(q) /\ k \in Nat
    BY <1>1
  <2>2. s \in Seq(Int) /\ Len(s) = k + 1 /\ t \in Seq(Int) /\ Len(t) = k
    BY <1>1, <2>1, RaisedType
  <2>3. \A i \in 1..k : t[i] = s[i + 1]
    BY <1>1
  <2>4. s[1] = Raise(Head(q))
    BY <1>1, <2>1
  <2> HIDE DEF s, t
  <2>5. Total[t] = Total[s] - s[1]
    BY <2>2, <2>3, TotalShift
  <2>6. Total[s] \in Int /\ Total[t] \in Int /\ s[1] \in Int
    BY <1>1, <2>2, <2>4, TotalDefined, RaiseType
  <2>7. Total[s] = Raise(Head(q)) + Total[t]
    BY <2>4, <2>5, <2>6
  <2> QED
    BY <2>1, <2>7 DEF s, t, Raised
<1> QED
  BY <1>1, <1>2 DEF p

LEMMA FitsNow ==
    ASSUME NEW q \in Seq(StreamReq), NEW n \in Int, NEW low, NEW high, Fits(q, n, low, high)
    PROVE  n <= high
<1>1. 0 \in 0..Len(q)
  OBVIOUS
<1>2. n + Raised(q, 0) <= high
  BY <1>1 DEF Fits
<1> QED
  BY <1>2, RaisedNone

LEMMA FitsEmpty ==
    ASSUME NEW n \in Int, NEW low \in Int, NEW high \in Int, n <= low, n <= high
    PROVE  Fits(<< >>, n, low, high)
<1> DEFINE q == << >>
<1>1. Len(q) = 0 /\ \A k \in 0..Len(q) : k = 0
  OBVIOUS
<1>2. Raised(q, 0) = 0
  BY RaisedNone
<1> HIDE DEF q
<1>3. Fits(q, n, low, high)
  BY <1>1, <1>2 DEF Fits
<1> QED
  BY <1>3 DEF q

\* The task disposes of more, or of less, and the limits move with it.
LEMMA FitsMove ==
    ASSUME NEW q \in Seq(StreamReq), NEW n \in Int, NEW low \in Int, NEW high \in Int,
           Fits(q, n, low, high), NEW d \in Int, NEW low2 \in Int, NEW high2 \in Int,
           low + d <= low2, high + d <= high2
    PROVE  Fits(q, n + d, low2, high2)
<1>1. ASSUME NEW k \in 0..Len(q)
      PROVE  Raised(q, k) \in Int
  BY RaisedType
<1>2. Len(q) \in 0..Len(q)
  OBVIOUS
<1>3. (n + d) + Raised(q, Len(q)) <= low2
  BY <1>1, <1>2 DEF Fits
<1>4. ASSUME NEW k \in 0..Len(q)
      PROVE  (n + d) + Raised(q, k) <= high2
  <2>1. n + Raised(q, k) <= high
    BY DEF Fits
  <2> QED
    BY <1>1, <2>1
<1> QED
  BY <1>3, <1>4 DEF Fits

LEMMA FitsAppend ==
    ASSUME NEW q \in Seq(StreamReq), NEW n \in Int, NEW low \in Int, NEW high \in Int,
           Fits(q, n, low, high), NEW m \in StreamReq, NEW low2 \in Int, NEW high2 \in Int,
           low2 = low + Raise(m), high <= high2, low2 <= high2
    PROVE  Fits(Append(q, m), n, low2, high2)
<1> DEFINE p == Append(q, m)
<1>1. /\ Len(p) = Len(q) + 1 /\ Len(q) \in Nat
      /\ \A k \in 0..Len(p) : k \in 0..Len(q) \/ k = Len(q) + 1
      /\ Len(q) \in 0..Len(q)
  OBVIOUS
<1>2. /\ \A k \in 0..Len(q) : Raised(p, k) = Raised(q, k) /\ Raised(q, k) \in Int
      /\ Raised(p, Len(q) + 1) = Raised(q, Len(q)) + Raise(m)
  BY RaisedAppend, RaisedType
<1> HIDE DEF p
<1>3. Raise(m) \in Int /\ Raised(q, Len(q)) \in Int
  BY <1>1, <1>2, RaiseType
<1>4. n + Raised(q, Len(q)) <= low
  BY DEF Fits
<1>5. n + Raised(p, Len(q) + 1) <= low2
  BY <1>2, <1>3, <1>4
<1>6. ASSUME NEW k \in 0..Len(p) PROVE n + Raised(p, k) <= high2
  <2>1. CASE k \in 0..Len(q)
    <3>1. n + Raised(q, k) <= high
      BY <2>1 DEF Fits
    <3> QED
      BY <1>2, <2>1, <3>1
  <2>2. CASE k = Len(q) + 1
    <3>1. Raised(p, k) \in Int
      BY <1>2, <1>3, <2>2
    <3> QED
      BY <1>5, <2>2, <3>1
  <2> QED
    BY <1>1, <2>1, <2>2
<1>7. Fits(p, n, low2, high2)
  BY <1>1, <1>5, <1>6 DEF Fits
<1> QED
  BY <1>7 DEF p

LEMMA FitsTail ==
    ASSUME NEW q \in Seq(StreamReq), q # << >>, NEW n \in Int, NEW low \in Int,
           NEW high \in Int, Fits(q, n, low, high)
    PROVE  Fits(Tail(q), n + Raise(Head(q)), low, high)
<1> DEFINE p == Tail(q)
<1>1. /\ p \in Seq(StreamReq) /\ Len(p) = Len(q) - 1 /\ Len(q) \in Nat
      /\ Head(q) \in StreamReq
      /\ \A k \in 0..Len(p) :
             k + 1 \in 0..Len(q) /\ Raised(q, k + 1) = Raise(Head(q)) + Raised(p, k)
  BY RaisedTail
<1> HIDE DEF p
<1>2. Raise(Head(q)) \in Int
  BY <1>1, RaiseType
<1>3. \A k \in 0..Len(p) : Raised(p, k) \in Int
  BY <1>1, RaisedType
<1>4. Len(p) \in 0..Len(p) /\ Len(p) + 1 = Len(q)
  BY <1>1
<1>5. (n + Raise(Head(q))) + Raised(p, Len(p)) <= low
  <2>1. Raised(q, Len(q)) = Raise(Head(q)) + Raised(p, Len(p))
    BY <1>1, <1>4
  <2>2. n + Raised(q, Len(q)) <= low
    BY DEF Fits
  <2> QED
    BY <1>2, <1>3, <1>4, <2>1, <2>2
<1>6. ASSUME NEW k \in 0..Len(p)
      PROVE  (n + Raise(Head(q))) + Raised(p, k) <= high
  <2>1. Raised(q, k + 1) = Raise(Head(q)) + Raised(p, k) /\ k + 1 \in 0..Len(q)
    BY <1>1
  <2>2. n + Raised(q, k + 1) <= high
    BY <2>1 DEF Fits
  <2> QED
    BY <1>2, <1>3, <2>1, <2>2
<1>7. Fits(p, n + Raise(Head(q)), low, high)
  BY <1>5, <1>6 DEF Fits
<1> QED
  BY <1>7 DEF p

-----------------------------------------------------------------------------
(* The window in DATA frames that are about to be written.                  *)

\* In the frames of t.
InFrames(q, t) ==
    Total[[i \in DOMAIN q |-> IF q[i].kind = "Frame" /\ q[i].from = t
                              THEN q[i].amount ELSE 0]]

FramesIn(t) == {r \in ConnectionReq : r.kind = "Frame" /\ r.from = t}

LEMMA InFramesChosen ==
    ASSUME NEW q \in Seq(ConnectionReq), NEW t
    PROVE  InFrames(q, t) = Total[Chosen(q, FramesIn(t))]
<1>1. \A i \in DOMAIN q : q[i] \in ConnectionReq
  OBVIOUS
<1>2. Chosen(q, FramesIn(t))
          = [i \in DOMAIN q |-> IF q[i].kind = "Frame" /\ q[i].from = t
                                THEN q[i].amount ELSE 0]
  BY <1>1 DEF Chosen, FramesIn
<1> QED
  BY <1>2 DEF InFrames

LEMMA InFramesType ==
    ASSUME NEW q \in Seq(ConnectionReq), NEW t
    PROVE  InFrames(q, t) \in Nat
BY InFramesChosen, ChosenNatural, Amounts

LEMMA InFramesAppend ==
    ASSUME NEW q \in Seq(ConnectionReq), NEW m \in ConnectionReq, NEW t
    PROVE  InFrames(Append(q, m), t)
               = InFrames(q, t) + IF m.kind = "Frame" /\ m.from = t THEN m.amount ELSE 0
<1>1. /\ Append(q, m) \in Seq(ConnectionReq)
      /\ m \in FramesIn(t) <=> m.kind = "Frame" /\ m.from = t
  BY DEF FramesIn
<1>2. /\ InFrames(q, t) = Total[Chosen(q, FramesIn(t))]
      /\ InFrames(Append(q, m), t) = Total[Chosen(Append(q, m), FramesIn(t))]
  BY <1>1, InFramesChosen
<1> QED
  BY <1>1, <1>2, ChosenAppend, Amounts

LEMMA InFramesTail ==
    ASSUME NEW q \in Seq(ConnectionReq), q # << >>, NEW t
    PROVE  InFrames(Tail(q), t)
               = InFrames(q, t) - IF Head(q).kind = "Frame" /\ Head(q).from = t
                                  THEN Head(q).amount ELSE 0
<1>1. /\ Tail(q) \in Seq(ConnectionReq)
      /\ Head(q) \in FramesIn(t) <=> Head(q).kind = "Frame" /\ Head(q).from = t
  BY DEF FramesIn
<1>2. /\ InFrames(q, t) = Total[Chosen(q, FramesIn(t))]
      /\ InFrames(Tail(q), t) = Total[Chosen(Tail(q), FramesIn(t))]
  BY <1>1, InFramesChosen
<1> QED
  BY <1>1, <1>2, ChosenTail, Amounts

\* A task that has sent nothing has no frame under way.
LEMMA InFramesNone ==
    ASSUME NEW q \in Seq(ConnectionReq), NEW t, \A i \in DOMAIN q : q[i].from # t
    PROVE  InFrames(q, t) = 0
<1>1. \A i \in DOMAIN q : q[i] \notin FramesIn(t)
  BY DEF FramesIn
<1> QED
  BY <1>1, InFramesChosen, ChosenNone, Amounts

-----------------------------------------------------------------------------
(* The order of the frames.                                                 *)

OrderedFrames == {"headers", "end_stream"}

\* A request in the channel comes where its frames may be written.
PlaceInOrder(i) ==
    LET req == conn_rx[i] IN
    /\ req.kind = "Response" => ~Sent(req.from, "headers", i)
    /\ req.kind = "Frame" =>
           Sent(req.from, "headers", i) /\ ~Sent(req.from, "end_stream", i)

\* Where a task stands tells what it has not sent yet.
SoFar(t) ==
    /\ task[t].at = "handling" => ~Sent(t, "headers", End)
    /\ task[t].at \in {"handling", "reading", "sending"} => ~Sent(t, "end_stream", End)

FramesInv ==
    /\ \A i \in DOMAIN conn_rx : PlaceInOrder(i)
    /\ \A t \in Tasks : SoFar(t)
    /\ \A id \in StreamIds : id > biggest_open_stream => wire[id] \cap OrderedFrames = {}

SameWire ==
    \A id \in StreamIds : \A f \in OrderedFrames : f \in wire'[id] <=> f \in wire[id]

\* A request that is added changes nothing for the places in front of it.
LEMMA SentSame ==
    ASSUME TypeInv, SameWire, Grows, NEW t \in Tasks, task[t].id \in StreamIds,
           task'[t].id = task[t].id, NEW f \in OrderedFrames, NEW n \in Nat,
           n <= Len(conn_rx) + 1
    PROVE  Sent(t, f, n)' <=> Sent(t, f, n)
<1>1. conn_rx \in Seq(ConnectionReq)
  BY DEF TypeInv, TypeOK
<1>2. f \in wire'[task'[t].id] <=> f \in wire[task[t].id]
  BY DEF SameWire
<1>3. /\ \A i \in DOMAIN conn_rx : i \in DOMAIN conn_rx' /\ conn_rx'[i] = conn_rx[i]
      /\ \A i \in DOMAIN conn_rx' : i < n => i \in DOMAIN conn_rx
  <2>1. CASE conn_rx' = conn_rx
    BY <2>1
  <2>2. ASSUME NEW req \in ConnectionReq, conn_rx' = Append(conn_rx, req)
        PROVE  <1>3
    BY <1>1, <2>2, AppendPlaces
  <2> QED
    BY <2>1, <2>2 DEF Grows
<1> QED
  BY <1>2, <1>3 DEF Sent

\* It is in front of what is sent next.
LEMMA SentEnd ==
    ASSUME TypeInv, SameWire, NEW req \in ConnectionReq, conn_rx' = Append(conn_rx, req),
           NEW t \in Tasks, task[t].id \in StreamIds, task'[t].id = task[t].id,
           NEW f \in OrderedFrames
    PROVE  Sent(t, f, End)' <=> Sent(t, f, End) \/ (req.from = t /\ f \in FramesOf(req))
<1>1. conn_rx \in Seq(ConnectionReq)
  BY DEF TypeInv, TypeOK
<1>2. f \in wire'[task'[t].id] <=> f \in wire[task[t].id]
  BY DEF SameWire
<1>3. /\ Len(conn_rx') = Len(conn_rx) + 1 /\ conn_rx'[Len(conn_rx) + 1] = req
      /\ Len(conn_rx) \in Nat /\ Len(conn_rx) + 1 \in DOMAIN conn_rx'
      /\ \A i \in DOMAIN conn_rx : /\ i \in DOMAIN conn_rx' /\ conn_rx'[i] = conn_rx[i]
                                   /\ i \in Nat /\ i < Len(conn_rx) + 1
      /\ \A i \in DOMAIN conn_rx' : i \in DOMAIN conn_rx \/ i = Len(conn_rx) + 1
  BY <1>1, AppendPlaces
<1>4. /\ \A i \in DOMAIN conn_rx' : i < Len(conn_rx') + 1
      /\ \A i \in DOMAIN conn_rx : i < Len(conn_rx) + 1
  BY <1>3
<1> DEFINE old == \E i \in DOMAIN conn_rx : conn_rx[i].from = t /\ f \in FramesOf(conn_rx[i])
           new == \E i \in DOMAIN conn_rx' : conn_rx'[i].from = t /\ f \in FramesOf(conn_rx'[i])
<1>5. new <=> old \/ (req.from = t /\ f \in FramesOf(req))
  <2>1. new => old \/ (req.from = t /\ f \in FramesOf(req))
    BY <1>3
  <2>2. old => new
    BY <1>3
  <2>3. req.from = t /\ f \in FramesOf(req) => new
    BY <1>3
  <2> QED
    BY <2>1, <2>2, <2>3, Zenon
<1>6. Sent(t, f, End) <=> f \in wire[task[t].id] \/ old
  BY <1>4 DEF Sent, End
<1>7. Sent(t, f, End)' <=> f \in wire'[task'[t].id] \/ new
  BY <1>4 DEF Sent, End
<1> QED
  BY <1>2, <1>5, <1>6, <1>7, Zenon

\* When the first request is taken and its frames are written, each place keeps what
\* is in front of it.
LEMMA SentTaken ==
    ASSUME TypeInv, conn_rx # << >>, conn_rx' = Tail(conn_rx), NEW t \in Tasks,
           task'[t].id = task[t].id, NEW f,
           f \in wire'[task[t].id] <=>
               f \in wire[task[t].id] \/ (Head(conn_rx).from = t /\ f \in FramesOf(Head(conn_rx))),
           NEW n \in Nat, n >= 2
    PROVE  Sent(t, f, n - 1)' <=> Sent(t, f, n)
<1>1. conn_rx \in Seq(ConnectionReq)
  BY DEF TypeInv, TypeOK
<1>2. /\ Head(conn_rx) = conn_rx[1] /\ 1 \in DOMAIN conn_rx
      /\ \A i \in DOMAIN conn_rx :
             i \in Nat /\ (i = 1 \/ (i - 1 \in DOMAIN conn_rx' /\ conn_rx'[i - 1] = conn_rx[i]))
      /\ \A i \in DOMAIN conn_rx' :
             i \in Nat /\ i + 1 \in DOMAIN conn_rx /\ conn_rx[i + 1] = conn_rx'[i]
  BY <1>1, TailPlaces
<1>3. ASSUME Sent(t, f, n - 1)' PROVE Sent(t, f, n)
  <2>1. CASE f \in wire'[task[t].id]
    BY <1>2, <2>1 DEF Sent
  <2>2. ASSUME NEW i \in DOMAIN conn_rx', i < n - 1, conn_rx'[i].from = t,
               f \in FramesOf(conn_rx'[i])
        PROVE  Sent(t, f, n)
    <3>1. i + 1 < n
      BY <1>2, <2>2
    <3> QED
      BY <1>2, <2>2, <3>1 DEF Sent
  <2> QED
    BY <1>3, <2>1, <2>2 DEF Sent
<1>4. ASSUME Sent(t, f, n) PROVE Sent(t, f, n - 1)'
  <2>1. CASE f \in wire[task[t].id]
    <3>1. f \in wire'[task'[t].id]
      BY <2>1
    <3> QED
      BY <3>1 DEF Sent
  <2>2. ASSUME NEW i \in DOMAIN conn_rx, i < n, conn_rx[i].from = t,
               f \in FramesOf(conn_rx[i])
        PROVE  Sent(t, f, n - 1)'
    <3>1. CASE i = 1
      BY <1>2, <2>2, <3>1 DEF Sent
    <3>2. CASE i # 1
      <4>1. i - 1 < n - 1
        BY <1>2, <2>2
      <4> QED
        BY <1>2, <2>2, <3>2, <4>1 DEF Sent
    <3> QED
      BY <3>1, <3>2
  <2> QED
    BY <1>4, <2>1, <2>2 DEF Sent
<1> QED
  BY <1>3, <1>4

\* A place keeps its order while requests are added behind it.
LEMMA PlaceKept ==
    ASSUME TypeInv, OwnRequests, SameWire, Grows, NEW i \in DOMAIN conn_rx, PlaceInOrder(i),
           \A t \in Tasks : Used(t) => task'[t].id = task[t].id
    PROVE  PlaceInOrder(i)'
<1>1. conn_rx \in Seq(ConnectionReq)
  BY DEF TypeInv, TypeOK
<1>2. i \in Nat /\ i <= Len(conn_rx) + 1 /\ conn_rx[i] \in ConnectionReq
  BY <1>1
<1>3. conn_rx'[i] = conn_rx[i]
  BY <1>1, AppendPlaces DEF Grows
<1>4. PICK t \in Tasks : t = conn_rx[i].from
  BY <1>2 DEF ConnectionReq
<1>5. Used(t)
  BY <1>4 DEF OwnRequests, OwnRequest
<1>6. task[t].id \in StreamIds /\ task'[t].id = task[t].id
  BY <1>5 DEF TypeInv, Used
<1>7. /\ Sent(t, "headers", i)' <=> Sent(t, "headers", i)
      /\ Sent(t, "end_stream", i)' <=> Sent(t, "end_stream", i)
  BY <1>2, <1>6, SentSame DEF OrderedFrames
<1> QED
  BY <1>3, <1>4, <1>7 DEF PlaceInOrder

\* What others send says nothing of a task.
LEMMA SoFarKept ==
    ASSUME TypeInv, SameWire, NEW t \in Tasks, SoFar(t), task'[t] = task[t],
           \/ conn_rx' = conn_rx
           \/ \E req \in ConnectionReq : conn_rx' = Append(conn_rx, req) /\ req.from # t
    PROVE  SoFar(t)'
<1> SUFFICES ASSUME task[t].at \in {"handling", "reading", "sending"}
             PROVE  SoFar(t)'
  BY DEF SoFar
<1>1. conn_rx \in Seq(ConnectionReq) /\ task[t].id \in StreamIds
  BY DEF TypeInv, TypeOK
<1>2. ASSUME NEW f \in OrderedFrames PROVE Sent(t, f, End)' <=> Sent(t, f, End)
  <2>1. CASE conn_rx' = conn_rx
    <3>1. PICK n \in Nat : n = Len(conn_rx) + 1
      BY <1>1
    <3>2. Sent(t, f, n)' <=> Sent(t, f, n)
      BY <1>1, <2>1, <3>1, SentSame DEF Grows
    <3> QED
      BY <2>1, <3>1, <3>2 DEF End
  <2>2. ASSUME NEW req \in ConnectionReq, conn_rx' = Append(conn_rx, req), req.from # t
        PROVE  Sent(t, f, End)' <=> Sent(t, f, End)
    BY <1>1, <2>2, SentEnd
  <2> QED
    BY <2>1, <2>2
<1> QED
  BY <1>2 DEF SoFar, OrderedFrames

\* Steps that write no frame of a response, send nothing and open no stream.
LEMMA FramesQuiet ==
    ASSUME TypeInv, OwnRequests, FramesInv, SameWire, conn_rx' = conn_rx, task' = task,
           biggest_open_stream' = biggest_open_stream
    PROVE  FramesInv'
<1>1. \A i \in DOMAIN conn_rx : PlaceInOrder(i)'
  BY PlaceKept DEF FramesInv, Grows
<1>2. \A t \in Tasks : SoFar(t)'
  BY SoFarKept DEF FramesInv
<1>3. \A id \in StreamIds : id > biggest_open_stream' => wire'[id] \cap OrderedFrames = {}
  BY DEF FramesInv, SameWire
<1> QED
  BY <1>1, <1>2, <1>3 DEF FramesInv

\* Where a task stands decides what it may send.
Speaks(t) ==
    \/ /\ conn_rx' = conn_rx
       /\ task'[t].at = "handling" => task[t].at = "handling"
       /\ task'[t].at \in {"reading", "sending"} => task[t].at \in {"reading", "sending"}
    \/ \E req \in ConnectionReq :
           /\ conn_rx' = Append(conn_rx, req) /\ req.from = t
           /\ task'[t].at # "handling"
           /\ req.kind = "Response" => task[t].at = "handling"
           /\ req.kind = "Frame" => task[t].at \in {"reading", "sending"}
           /\ task'[t].at \in {"reading", "sending"} =>
                  /\ task[t].at \in {"handling", "reading", "sending"}
                  /\ "end_stream" \notin FramesOf(req)

LEMMA FramesSpoken ==
    ASSUME TypeInv, OwnRequests, OrderInv, FramesInv, NEW t \in Tasks, OneTask(t), Speaks(t)
    PROVE  FramesInv'
<1>1. /\ conn_rx \in Seq(ConnectionReq) /\ SameWire
      /\ biggest_open_stream' = biggest_open_stream /\ wire' = wire
      /\ task[t].at # "unused" /\ task'[t].id = task[t].id /\ task[t].id \in StreamIds
      /\ \A u \in Tasks : u # t => task'[u] = task[u]
  BY DEF TypeInv, TypeOK, OneTask, TaskStep, streamVars, peerVars, wireVars, SameWire
<1>2. \A id \in StreamIds : id > biggest_open_stream' => wire'[id] \cap OrderedFrames = {}
  BY <1>1 DEF FramesInv
<1>3. SoFar(t)
  BY DEF FramesInv
<1>4. CASE /\ conn_rx' = conn_rx
           /\ task'[t].at = "handling" => task[t].at = "handling"
           /\ task'[t].at \in {"reading", "sending"} => task[t].at \in {"reading", "sending"}
  <2>1. \A i \in DOMAIN conn_rx : PlaceInOrder(i)'
    BY <1>1, <1>4, PlaceKept DEF FramesInv, Grows
  <2>2. \A u \in Tasks : u # t => SoFar(u)'
    BY <1>1, <1>4, SoFarKept DEF FramesInv
  <2>3. PICK n \in Nat : n = Len(conn_rx) + 1
    BY <1>1
  <2>4. \A f \in OrderedFrames : Sent(t, f, n)' <=> Sent(t, f, n)
    BY <1>1, <1>4, <2>3, SentSame DEF Grows
  <2>5. SoFar(t)'
    BY <1>3, <1>4, <2>3, <2>4 DEF SoFar, OrderedFrames, End
  <2> QED
    BY <1>2, <1>4, <2>1, <2>2, <2>5 DEF FramesInv
<1>5. ASSUME NEW req \in ConnectionReq, conn_rx' = Append(conn_rx, req), req.from = t,
             task'[t].at # "handling",
             req.kind = "Response" => task[t].at = "handling",
             req.kind = "Frame" => task[t].at \in {"reading", "sending"},
             task'[t].at \in {"reading", "sending"} =>
                 /\ task[t].at \in {"handling", "reading", "sending"}
                 /\ "end_stream" \notin FramesOf(req)
      PROVE  FramesInv'
  <2>1. \A i \in DOMAIN conn_rx : PlaceInOrder(i)'
    BY <1>1, <1>5, PlaceKept DEF FramesInv, Grows
  <2>2. \A u \in Tasks : u # t => SoFar(u)'
    BY <1>1, <1>5, SoFarKept DEF FramesInv
  <2>3. \A f \in OrderedFrames : Sent(t, f, End)' <=> Sent(t, f, End) \/ f \in FramesOf(req)
    BY <1>1, <1>5, SentEnd
  <2>4. SoFar(t)'
    BY <1>3, <1>5, <2>3 DEF SoFar, OrderedFrames
  <2>5. PICK n \in Nat : n = Len(conn_rx) + 1
    BY <1>1
  <2>6. /\ conn_rx'[n] = req
        /\ \A i \in DOMAIN conn_rx' : i \in DOMAIN conn_rx \/ i = n
    BY <1>1, <1>5, <2>5, AppendPlaces
  <2>7. \A f \in OrderedFrames : Sent(t, f, n)' <=> Sent(t, f, n)
    BY <1>1, <1>5, <2>5, SentSame DEF Grows
  <2>8. /\ task[t].at = "handling" => ~Sent(t, "headers", n)
        /\ task[t].at \in {"reading", "sending"} =>
               Sent(t, "headers", n) /\ ~Sent(t, "end_stream", n)
    BY <1>3, <2>5 DEF SoFar, End, OrderInv, TaskInOrder
  <2>9. PlaceInOrder(n)'
    BY <1>5, <2>6, <2>7, <2>8 DEF PlaceInOrder, OrderedFrames
  <2>10. \A i \in DOMAIN conn_rx' : PlaceInOrder(i)'
    BY <2>1, <2>6, <2>9
  <2>11. \A u \in Tasks : SoFar(u)'
    BY <2>2, <2>4
  <2> QED
    BY <1>2, <2>10, <2>11 DEF FramesInv
<1> QED
  BY <1>4, <1>5 DEF Speaks

LEMMA TaskSpeaks ==
    ASSUME ConstantsAssumption, TypeInv, Running, NEW t \in Tasks, StreamTask(t)
    PROVE  Speaks(t)
<1>1. task \in [Tasks -> Task] /\ task[t] \in Task
  BY DEF TypeInv, TypeOK
<1>2. ASSUME NEW kind \in {"Response", "Frame", "GetWindow", "PutWindow",
                           "StreamClosing", "StreamClosed"},
             NEW amount \in Nat, NEW end_stream \in BOOLEAN,
             task[t].at # "unused", task'[t].at # "handling",
             conn_rx' = Append(conn_rx, Request(kind, t, amount, end_stream)),
             kind = "Response" => task[t].at = "handling",
             kind = "Frame" => task[t].at \in {"reading", "sending"},
             task'[t].at \in {"reading", "sending"} =>
                 task[t].at \in {"handling", "reading", "sending"} /\ ~end_stream
      PROVE  Speaks(t)
  <2> DEFINE req == Request(kind, t, amount, end_stream)
  <2>1. req \in ConnectionReq
    BY <1>2, RequestType
  <2>2. req.from = t /\ req.kind = kind /\ req.end_stream = end_stream
    BY DEF Request
  <2> HIDE DEF req
  <2>3. ~end_stream => "end_stream" \notin FramesOf(req)
    BY <2>2 DEF FramesOf
  <2>4. conn_rx' = Append(conn_rx, req)
    BY <1>2 DEF req
  <2> QED
    BY <1>2, <2>1, <2>2, <2>3, <2>4 DEF Speaks
<1>3. CASE SendResponse(t)
  <2>1. PICK size \in 0..MaxBody, no_body \in BOOLEAN :
            /\ conn_rx' = Append(conn_rx, Request("Response", t, 0, no_body))
            /\ task' = [task EXCEPT ![t].at = IF no_body THEN "closing" ELSE "reading",
                                    ![t].body = size]
    BY <1>3 DEF SendResponse, Send
  <2>2. task[t].at = "handling"
    BY <1>3 DEF SendResponse
  <2>3. task'[t].at = IF no_body THEN "closing" ELSE "reading"
    BY <1>1, <2>1 DEF Task
  <2>4. task'[t].at # "handling" /\ (task'[t].at \in {"reading", "sending"} => ~no_body)
    BY <2>3
  <2> QED
    BY <1>2, <2>1, <2>2, <2>4
<1>4. CASE ReadChunk(t)
  <2>1. PICK n \in 1..MaxChunk :
            task' = [task EXCEPT ![t].at = "sending", ![t].body = @ - n,
                                 ![t].left = n, ![t].window_needed = n]
    BY <1>4 DEF ReadChunk
  <2>2. task[t].at = "reading" /\ conn_rx' = conn_rx
    BY <1>4 DEF ReadChunk
  <2>3. task'[t].at = "sending"
    BY <1>1, <2>1 DEF Task
  <2> QED
    BY <2>2, <2>3 DEF Speaks
<1>5. CASE ReadFails(t)
  BY <1>1, <1>5 DEF ReadFails, Speaks, Task
<1>6. CASE EndBody(t)
  BY <1>1, <1>2, <1>6 DEF EndBody, Send, Task
<1>7. CASE RequestWindow(t)
  <2>1. AskFor(t) \in Nat
    BY <1>1, <1>7 DEF RequestWindow, AskFor, CanRequest, Task
  <2> QED
    BY <1>1, <1>2, <1>7, <2>1 DEF RequestWindow, Send, Task
<1>8. CASE SendData(t)
  <2> DEFINE amount == IF task[t].available_window > task[t].left
                       THEN task[t].left ELSE task[t].available_window
  <2>1. amount \in Nat
    BY <1>1 DEF Task
  <2>2. /\ conn_rx' = Append(conn_rx, Request("Frame", t, amount, FALSE))
        /\ task[t].at = "sending"
        /\ task' = [task EXCEPT ![t].available_window = Spent(t, amount),
                                ![t].left = @ - amount,
                                ![t].at = IF task[t].left = amount
                                          THEN "reading" ELSE "sending"]
    BY <1>8 DEF SendData, Send
  <2> HIDE DEF amount
  <2>3. task'[t].at \in {"reading", "sending"}
    BY <1>1, <2>2 DEF Task
  <2> QED
    BY <1>2, <2>1, <2>2, <2>3
<1>9. CASE Receive(t)
  <2>1. conn_rx' = conn_rx
    BY <1>9 DEF Receive
  <2>2. task'[t].at = task[t].at \/ task'[t].at = "closing"
    BY <1>1, <1>9 DEF Receive, Task
  <2> QED
    BY <2>1, <2>2 DEF Speaks
<1>10. CASE GiveBack(t)
  <2>1. task[t].available_window \in Nat
    BY <1>1 DEF Task
  <2> QED
    BY <1>1, <1>2, <1>10, <2>1 DEF GiveBack, Send, Task
<1>11. CASE SendClosing(t)
  BY <1>1, <1>2, <1>11 DEF SendClosing, Send, Task
<1>12. CASE SendClosed(t)
  BY <1>1, <1>2, <1>12 DEF SendClosed, Send, Task
<1>13. CASE SendFails(t)
  BY <1>13 DEF SendFails
<1> QED
  BY <1>3, <1>4, <1>5, <1>6, <1>7, <1>8, <1>9, <1>10, <1>11, <1>12, <1>13
   DEF StreamTask

\* The first request is taken, and its frames are written.
LEMMA FramesTaken ==
    ASSUME TypeInv, OwnStreams, OwnRequests, FramesInv, conn_rx # << >>,
           conn_rx' = Tail(conn_rx), task' = task,
           biggest_open_stream' = biggest_open_stream,
           \A id \in StreamIds : \A f \in OrderedFrames :
               f \in wire'[id] <=>
                   f \in wire[id] \/ (id = Head(conn_rx).id /\ f \in FramesOf(Head(conn_rx)))
    PROVE  FramesInv'
<1> DEFINE req == Head(conn_rx)
<1>1. conn_rx \in Seq(ConnectionReq) /\ req \in ConnectionReq /\ req = conn_rx[1] /\ 1 \in DOMAIN conn_rx
  BY DEF TypeInv, TypeOK
<1>2. /\ req.from \in Tasks /\ Used(req.from) /\ req.id = task[req.from].id
      /\ req.id \in StreamIds /\ req.id <= biggest_open_stream
  BY <1>1 DEF OwnRequests, OwnRequest, OwnStreams, ConnectionReq
<1> HIDE DEF req
<1>3. ASSUME NEW t \in Tasks, Used(t), NEW f \in OrderedFrames, NEW n \in Nat, n >= 2
      PROVE  Sent(t, f, n - 1)' <=> Sent(t, f, n)
  <2>1. task[t].id \in StreamIds /\ (task[t].id = req.id <=> req.from = t)
    BY <1>2, <1>3 DEF OwnStreams, TypeInv, Used
  <2>2. f \in wire'[task[t].id] <=>
            f \in wire[task[t].id] \/ (Head(conn_rx).from = t /\ f \in FramesOf(Head(conn_rx)))
    BY <2>1 DEF req
  <2> QED
    BY <1>3, <2>2, SentTaken
<1>4. ASSUME NEW i \in DOMAIN conn_rx' PROVE PlaceInOrder(i)'
  <2>1. i \in Nat /\ i + 1 \in DOMAIN conn_rx /\ conn_rx[i + 1] = conn_rx'[i] /\ i >= 1
    <3>1. i >= 1
      BY <1>1
    <3> QED
      BY <1>1, <3>1, TailPlaces
  <2>2. PICK n \in Nat : n = i + 1
    BY <2>1
  <2>3. PlaceInOrder(n) /\ OwnRequest(conn_rx[n]) /\ conn_rx[n] \in ConnectionReq /\ n >= 2 /\ n - 1 = i
    BY <1>1, <2>1, <2>2 DEF FramesInv, OwnRequests
  <2>4. PICK t \in Tasks : t = conn_rx[n].from /\ Used(t)
    BY <2>3 DEF ConnectionReq, OwnRequest
  <2>5. \A f \in OrderedFrames : Sent(t, f, i)' <=> Sent(t, f, n)
    BY <1>3, <2>3, <2>4
  <2> QED
    BY <2>1, <2>2, <2>3, <2>4, <2>5 DEF PlaceInOrder, OrderedFrames
<1>5. ASSUME NEW t \in Tasks PROVE SoFar(t)'
  <2>1. CASE ~Used(t)
    BY <2>1 DEF SoFar, Used
  <2>2. CASE Used(t)
    <3>1. PICK n \in Nat : n = Len(conn_rx) + 1
      BY <1>1
    <3>2. n >= 2 /\ n - 1 = Len(conn_rx') + 1
      BY <1>1, <3>1
    <3>3. PICK m \in Nat : m = n - 1
      BY <3>2
    <3>4. \A f \in OrderedFrames : Sent(t, f, m)' <=> Sent(t, f, n)
      BY <1>3, <2>2, <3>2, <3>3
    <3> QED
      BY <3>1, <3>2, <3>3, <3>4 DEF FramesInv, SoFar, OrderedFrames, End
  <2> QED
    BY <2>1, <2>2
<1>6. ASSUME NEW id \in StreamIds, id > biggest_open_stream'
      PROVE  wire'[id] \cap OrderedFrames = {}
  <2>1. wire[id] \cap OrderedFrames = {}
    BY <1>6 DEF FramesInv
  <2>2. id # req.id
    BY <1>2, <1>6, ConstantsAssumption DEF TypeInv, TypeOK, ConstantsAssumption
  <2> QED
    BY <2>1, <2>2 DEF req
<1> QED
  BY <1>4, <1>5, <1>6 DEF FramesInv

\* A stream is opened: nothing has been written for it.
LEMMA FramesOpened ==
    ASSUME ConstantsAssumption, TypeInv, "REOPEN" \notin PeerSends, OwnStreams, OwnRequests,
           FramesInv, NEW id \in StreamIds, NEW kind \in PeerSends, NEW t \in Tasks,
           RecvRequest(id, kind, t)
    PROVE  FramesInv'
<1>1. id > biggest_open_stream /\ biggest_open_stream' = id
  BY OpenOwn
<1>2. /\ task[t].at = "unused" /\ conn_rx' = conn_rx /\ wire' = wire
      /\ task' = [task EXCEPT ![t].at = "handling", ![t].id = id,
                              ![t].window = initial_window_size]
  BY DEF RecvRequest, wireVars
<1>3. /\ task'[t].id = id /\ \A u \in Tasks : u # t => task'[u] = task[u]
      /\ conn_rx \in Seq(ConnectionReq)
  BY <1>2 DEF TypeInv, TypeOK, Task
<1>4. SameWire /\ Grows /\ \A u \in Tasks : Used(u) => task'[u].id = task[u].id
  BY <1>2, <1>3 DEF SameWire, Grows, Used
<1>5. \A i \in DOMAIN conn_rx : PlaceInOrder(i)'
  BY <1>4, PlaceKept DEF FramesInv
<1>6. \A u \in Tasks : u # t => SoFar(u)'
  BY <1>2, <1>3, <1>4, SoFarKept DEF FramesInv
<1>7. \A i \in DOMAIN conn_rx : conn_rx[i].from # t
  BY <1>2 DEF OwnRequests, OwnRequest, Used
<1>8. wire[id] \cap OrderedFrames = {}
  BY <1>1 DEF FramesInv
<1>9. \A f \in OrderedFrames : ~Sent(t, f, End)'
  BY <1>2, <1>3, <1>7, <1>8 DEF Sent
<1>10. SoFar(t)'
  BY <1>9 DEF SoFar, OrderedFrames
<1>11. \A j \in StreamIds : j > biggest_open_stream' => wire'[j] \cap OrderedFrames = {}
  <2> SUFFICES ASSUME NEW j \in StreamIds, j > id PROVE wire[j] \cap OrderedFrames = {}
    BY <1>1, <1>2
  <2>1. j > biggest_open_stream
    BY <1>1 DEF TypeInv, TypeOK, ConstantsAssumption
  <2> QED
    BY <2>1 DEF FramesInv
<1> QED
  BY <1>2, <1>5, <1>6, <1>10, <1>11 DEF FramesInv

LEMMA WireOf ==
    ASSUME TypeInv, NEW id \in StreamIds, NEW frames, Write(id, frames)
    PROVE  \A j \in StreamIds : \A f :
               f \in wire'[j] <=> f \in wire[j] \/ (j = id /\ f \in frames)
BY DEF TypeInv, TypeOK, Write

LEMMA ResetSame ==
    ASSUME TypeInv, NEW id \in StreamIds, ResetStream(id)
    PROVE  SameWire
<1>1. Write(id, {"rst"})
  BY DEF ResetStream
<1> QED
  BY <1>1, WireOf DEF SameWire, OrderedFrames

LEMMA PeerFrames ==
    ASSUME ConstantsAssumption, TypeInv, "REOPEN" \notin PeerSends, OwnStreams, OwnRequests,
           FramesInv, Peer
    PROVE  FramesInv'
<1> USE DEF loopVars, windowVars, streamVars, shutdownVars, taskVars, peerVars, wireVars
<1>1. ASSUME NEW id \in StreamIds, NEW kind \in PeerSends, NEW t \in Tasks,
             RecvRequest(id, kind, t)
      PROVE  FramesInv'
  BY <1>1, FramesOpened
<1>2. CASE wire' = wire /\ UNCHANGED <<conn_rx, task, biggest_open_stream>>
  BY <1>2, FramesQuiet DEF SameWire
<1>3. ASSUME NEW id \in StreamIds, ResetStream(id),
             UNCHANGED <<conn_rx, task, biggest_open_stream>>
      PROVE  FramesInv'
  BY <1>3, ResetSame, FramesQuiet
<1>4. ASSUME NEW id \in StreamIds, NEW kind \in PeerSends,
             RecvIllegalHeaders(id, kind) \/ RecvRejectedHeaders(id, kind)
                 \/ RecvUndecodableHeaders(id) \/ RecvRstStream(id)
      PROVE  FramesInv'
  BY <1>2, <1>3, <1>4 DEF RecvIllegalHeaders, RecvRejectedHeaders, RecvUndecodableHeaders,
                          RecvRstStream, Leave
<1>5. ASSUME NEW n \in Increments, NEW id \in StreamIds, RecvStreamWindowUpdate(id, n)
      PROVE  FramesInv'
  BY <1>2, <1>3, <1>5 DEF RecvStreamWindowUpdate
<1>6. ASSUME NEW n \in Increments, RecvGlobalWindowUpdate(n) PROVE FramesInv'
  BY <1>2, <1>6 DEF RecvGlobalWindowUpdate
<1>7. ASSUME NEW size \in InitialWindows, RecvSettings(size) PROVE FramesInv'
  BY <1>2, <1>7 DEF RecvSettings
<1>8. CASE RecvGoAway \/ ConnectionFails
  BY <1>2, <1>8 DEF RecvGoAway, ConnectionFails, Leave
<1>9. ASSUME NEW id \in StreamIds, RecvUndecodableHeaders(id) \/ RecvRstStream(id)
      PROVE  FramesInv'
  BY <1>2, <1>9 DEF RecvUndecodableHeaders, RecvRstStream, Leave
<1> QED
  BY <1>1, <1>4, <1>5, <1>6, <1>7, <1>8, <1>9 DEF Peer

LEMMA StreamsFrames ==
    ASSUME ConstantsAssumption, TypeInv, OwnStreams, OwnRequests, FramesInv, Streams
    PROVE  FramesInv'
<1> USE DEF loopVars, windowVars, streamVars, shutdownVars, taskVars, peerVars, wireVars
<1> DEFINE req == Head(conn_rx)
<1>1. conn_rx # << >> /\ conn_rx' = Tail(conn_rx) /\ task' = task
      /\ biggest_open_stream' = biggest_open_stream
  BY DEF Streams, WriteResponse, WriteFrame, GetWindow, PutWindow, StreamClosing,
         StreamClosed, Take
<1>2. req \in ConnectionReq /\ req.id \in StreamIds
  <2>1. conn_rx \in Seq(ConnectionReq)
    BY DEF TypeInv, TypeOK
  <2>2. req \in ConnectionReq
    BY <1>1, <2>1
  <2> HIDE DEF req
  <2> QED
    BY <2>2 DEF ConnectionReq
<1>3. ASSUME \A id \in StreamIds : \A f \in OrderedFrames :
                 f \in wire'[id] <=> f \in wire[id] \/ (id = req.id /\ f \in FramesOf(req))
      PROVE  FramesInv'
  BY <1>1, <1>3, FramesTaken
<1>4. ASSUME FramesOf(req) = {}, SameWire PROVE FramesInv'
  BY <1>3, <1>4 DEF SameWire
<1>5. CASE WriteResponse
  <2> DEFINE frames == IF req.end_stream THEN {"headers", "end_stream"} ELSE {"headers"}
  <2>1. req.kind = "Response" /\ Write(req.id, frames)
    BY <1>5 DEF WriteResponse, Take
  <2>2. \A f \in OrderedFrames : f \in frames <=> f \in FramesOf(req)
    BY <2>1 DEF FramesOf, OrderedFrames
  <2> HIDE DEF frames
  <2>3. \A id \in StreamIds : \A f :
            f \in wire'[id] <=> f \in wire[id] \/ (id = req.id /\ f \in frames)
    BY <1>2, <2>1, WireOf
  <2> QED
    BY <1>3, <2>2, <2>3
<1>6. CASE WriteFrame
  <2> DEFINE frames == IF req.end_stream THEN {"data", "end_stream"} ELSE {"data"}
  <2>1. req.kind = "Frame" /\ Write(req.id, frames)
    BY <1>6 DEF WriteFrame, Take
  <2>2. \A f \in OrderedFrames : f \in frames <=> f \in FramesOf(req)
    BY <2>1 DEF FramesOf, OrderedFrames
  <2> HIDE DEF frames
  <2>3. \A id \in StreamIds : \A f :
            f \in wire'[id] <=> f \in wire[id] \/ (id = req.id /\ f \in frames)
    BY <1>2, <2>1, WireOf
  <2> QED
    BY <1>3, <2>2, <2>3
<1>7. CASE GetWindow \/ PutWindow \/ StreamClosed
  <2>1. req.kind \in {"GetWindow", "PutWindow", "StreamClosed"} /\ wire' = wire
    BY <1>7 DEF GetWindow, PutWindow, StreamClosed, Take
  <2> QED
    BY <1>4, <2>1 DEF SameWire, FramesOf
<1>8. CASE StreamClosing
  <2>1. req.kind = "StreamClosing" /\ (wire' = wire \/ ResetStream(req.id))
    BY <1>8 DEF StreamClosing, Take
  <2>2. SameWire
    BY <1>2, <2>1, ResetSame DEF SameWire
  <2> QED
    BY <1>4, <2>1, <2>2 DEF FramesOf
<1> QED
  BY <1>5, <1>6, <1>7, <1>8 DEF Streams

LEMMA FramesStep ==
    ASSUME ConstantsAssumption, TypeInv, Running, "REOPEN" \notin PeerSends, OwnStreams,
           OwnRequests, OrderInv, FramesInv, [Next]_vars
    PROVE  FramesInv'
<1> USE DEF loopVars, windowVars, streamVars, shutdownVars, taskVars, peerVars, wireVars
<1>1. CASE wire' = wire /\ UNCHANGED <<conn_rx, task, biggest_open_stream>>
  BY <1>1, FramesQuiet DEF SameWire
<1>2. CASE Peer
  BY <1>2, PeerFrames
<1>3. CASE Streams
  BY <1>3, StreamsFrames
<1>4. ASSUME NEW t \in Tasks, StreamTask(t) PROVE FramesInv'
  BY <1>4, TaskSteps, TaskSpeaks, FramesSpoken
<1>5. CASE AnnounceShutdown \/ NoticeShutdown \/ FlushWriteBuffer
  BY <1>1, <1>5 DEF AnnounceShutdown, NoticeShutdown, StopAccepting, FlushWriteBuffer
<1>6. CASE DistributeWindow
  BY <1>1, <1>6 DEF DistributeWindow, DropWindowRequest, GiveWindow
<1>7. CASE UNCHANGED vars
  BY <1>1, <1>7 DEF vars
<1> QED
  BY <1>2, <1>3, <1>4, <1>5, <1>6, <1>7 DEF Next

-----------------------------------------------------------------------------
(* The windows of the streams.                                              *)

AtWork(t) == task[t].at \in {"handling", "reading", "sending"}

\* The stream window a task has asked for and not sent yet: the connection's window
\* goes back to the pool when the task ends, and the stream's is not used any more.
Lent(t) == IF task[t].at = "sending" THEN task[t].left - task[t].window_needed ELSE 0

\* What it has taken from the window of its stream and the peer has not seen.
Due(t) == Lent(t) + InFrames(conn_rx, t)

\* A task keeps to the highest window of its stream, and while it reads its channel,
\* with what is left of its window; at the end of the channel, to the window itself.
Within(t) ==
    IF Used(t)
    THEN /\ Due(t) <= HighestCredit[task[t].id]
         /\ AtWork(t) => Fits(rx[t], task[t].window + Due(t), stream_credit[task[t].id],
                              HighestCredit[task[t].id])
    ELSE rx[t] = << >>

LoweredType == lowered \in [StreamIds -> Nat]

LEMMA WithinType ==
    ASSUME TypeInv, Pool, Books, LoweredType, NEW t \in Tasks, Used(t)
    PROVE  /\ task[t].id \in StreamIds /\ task[t].window \in Int /\ rx[t] \in Seq(StreamReq)
           /\ stream_credit[task[t].id] \in Int /\ lowered[task[t].id] \in Nat
           /\ HighestCredit[task[t].id] = stream_credit[task[t].id] + lowered[task[t].id]
           /\ HighestCredit[task[t].id] \in Int
           /\ stream_credit[task[t].id] <= HighestCredit[task[t].id]
           /\ Lent(t) \in Nat /\ InFrames(conn_rx, t) \in Nat /\ Due(t) \in Nat
<1>1. /\ task[t].id \in StreamIds /\ task[t] \in Task /\ rx[t] \in Seq(StreamReq)
      /\ conn_rx \in Seq(ConnectionReq)
      /\ stream_credit[task[t].id] \in Int /\ lowered[task[t].id] \in Nat
  BY DEF TypeInv, TypeOK, LoweredType, Used
<1>2. HighestCredit[task[t].id] = stream_credit[task[t].id] + lowered[task[t].id]
  BY <1>1 DEF HighestCredit
<1>3. Lent(t) \in Nat
  <2>1. /\ task[t].window_needed \in Nat /\ task[t].left \in Nat /\ Owed(t) \in Nat
        /\ task[t].window_needed <= Owed(t)
    BY OwedType
  <2>2. Owed(t) <= task[t].left
    BY DEF Books, Book
  <2> QED
    BY <2>1, <2>2 DEF Lent
<1>4. InFrames(conn_rx, t) \in Nat
  BY <1>1, InFramesType
<1>5. Due(t) \in Nat
  BY <1>3, <1>4 DEF Due
<1> QED
  BY <1>1, <1>2, <1>3, <1>4, <1>5 DEF Task

\* A task that does nothing: a frame of it may be written, and a message may come.
LEMMA WithinKept ==
    ASSUME TypeInv, Pool, Books, LoweredType, NEW t \in Tasks, Used(t), Within(t),
           task'[t] = task[t], NEW a \in Nat, NEW r \in Int,
           InFrames(conn_rx', t) = InFrames(conn_rx, t) - a,
           \/ rx'[t] = rx[t] /\ r = 0
           \/ \E m \in StreamReq : rx'[t] = Append(rx[t], m) /\ r = Raise(m),
           stream_credit'[task[t].id] = stream_credit[task[t].id] - a + r,
           HighestCredit'[task[t].id] \in Int,
           HighestCredit'[task[t].id] >= HighestCredit[task[t].id] - a,
           HighestCredit'[task[t].id] >= stream_credit'[task[t].id]
    PROVE  Within(t)'
<1> DEFINE id == task[t].id
<1>7. /\ stream_credit[id] \in Int /\ HighestCredit[id] \in Int /\ HighestCredit'[id] \in Int
      /\ Due(t) \in Int /\ task[t].window \in Int /\ rx[t] \in Seq(StreamReq)
  BY WithinType
<1>1. PICK low \in Int, high \in Int, high2 \in Int, n \in Int, w \in Int :
          /\ low = stream_credit[id] /\ high = HighestCredit[id] /\ high2 = HighestCredit'[id]
          /\ n = Due(t) /\ w = task[t].window
  BY <1>7
<1>2. Due(t)' = n - a /\ task'[t].id = id /\ task'[t].window = w /\ (Used(t))'
  <2>1. Lent(t)' = Lent(t)
    BY DEF Lent
  <2>2. Lent(t) \in Nat /\ InFrames(conn_rx, t) \in Nat
    BY WithinType
  <2> QED
    BY <1>1, <2>1, <2>2 DEF Due, Used
<1>3. n <= high
  BY <1>1 DEF Within
<1>4. Due(t)' <= HighestCredit'[id]
  BY <1>1, <1>2, <1>3
<1>5. ASSUME AtWork(t)
      PROVE  Fits(rx'[t], w + (n - a), stream_credit'[id], HighestCredit'[id])
  <2>1. PICK m1 \in Int, m2 \in Int, m3 \in Int, m4 \in Int, d \in Int :
            /\ m1 = w + n /\ m2 = w + (n - a) /\ m2 = m1 + d /\ m3 = low - a /\ m4 = high - a
            /\ d = 0 - a
    OBVIOUS
  <2>2. Fits(rx[t], m1, low, high)
    BY <1>1, <1>5, <2>1 DEF Within
  <2>6. Fits(rx[t], m1 + d, m3, m4)
    <3>1. low + d <= m3 /\ high + d <= m4
      BY <2>1, SMTT(30)
    <3> QED
      BY <1>7, <2>2, <3>1, FitsMove
  <2>3. Fits(rx[t], m2, m3, m4)
    BY <2>1, <2>6
  <2>4. CASE rx'[t] = rx[t] /\ r = 0
    <3>1. PICK z \in Int : z = 0
      OBVIOUS
    <3>2. stream_credit'[id] = m3 /\ m4 + z <= high2 /\ m3 + z <= m3 /\ m2 + z = m2
      BY <1>1, <2>1, <2>4, <3>1
    <3>3. Fits(rx[t], m2 + z, m3, high2)
      BY <1>7, <2>3, <3>2, FitsMove
    <3> QED
      BY <1>1, <2>1, <2>4, <3>2, <3>3
  <2>5. ASSUME NEW m \in StreamReq, rx'[t] = Append(rx[t], m), r = Raise(m)
        PROVE  Fits(rx'[t], w + (n - a), stream_credit'[id], HighestCredit'[id])
    <3>1. PICK low2 \in Int : low2 = stream_credit'[id] /\ low2 = m3 + Raise(m)
      BY <1>1, <2>1, <2>5
    <3>2. m4 <= high2 /\ low2 <= high2
      BY <1>1, <2>1, <3>1
    <3>3. Fits(Append(rx[t], m), m2, low2, high2)
      BY <1>7, <2>3, <3>1, <3>2, FitsAppend
    <3> QED
      BY <1>1, <2>1, <2>5, <3>1, <3>3
  <2> QED
    BY <2>4, <2>5
<1>6. AtWork(t)' => AtWork(t)
  BY DEF AtWork
<1> QED
  BY <1>2, <1>4, <1>5, <1>6 DEF Within

\* What a step of a task does to its windows: it may move some from the window of the
\* stream to what is due, take up what a message says, or leave its work.
OwnMove(t) ==
    \/ ~AtWork(t)' /\ Due(t)' <= Due(t)
    \/ /\ AtWork(t) /\ rx'[t] = rx[t]
       /\ task'[t].window + Due(t)' = task[t].window + Due(t)
       /\ Due(t)' = Due(t) \/ task'[t].window >= 0
    \/ /\ AtWork(t) /\ rx[t] # << >> /\ rx'[t] = Tail(rx[t])
       /\ Due(t)' = Due(t) /\ task'[t].window = task[t].window + Raise(Head(rx[t]))

LEMMA WithinMoved ==
    ASSUME TypeInv, Pool, Books, LoweredType, NEW t \in Tasks, Used(t), Within(t),
           task'[t].id = task[t].id, Used(t)', OwnMove(t),
           task'[t].window \in Int, Due(t)' \in Int,
           stream_credit'[task[t].id] = stream_credit[task[t].id],
           HighestCredit'[task[t].id] = HighestCredit[task[t].id]
    PROVE  Within(t)'
<1> DEFINE id == task[t].id
<1>1. /\ stream_credit[id] \in Int /\ HighestCredit[id] \in Int
      /\ Due(t) \in Int /\ task[t].window \in Int /\ rx[t] \in Seq(StreamReq)
  BY WithinType
<1>2. PICK low \in Int, high \in Int, n \in Int, w \in Int, n2 \in Int, w2 \in Int :
          /\ low = stream_credit[id] /\ high = HighestCredit[id]
          /\ n = Due(t) /\ w = task[t].window /\ n2 = Due(t)' /\ w2 = task'[t].window
  BY <1>1
<1>3. n <= high /\ (AtWork(t) => Fits(rx[t], w + n, low, high))
  BY <1>2 DEF Within
<1>4. ASSUME n2 <= high, AtWork(t)' => Fits(rx'[t], w2 + n2, low, high)
      PROVE  Within(t)'
  BY <1>2, <1>4 DEF Within
<1>5. CASE ~AtWork(t)' /\ Due(t)' <= Due(t)
  BY <1>2, <1>3, <1>4, <1>5
<1>6. CASE /\ AtWork(t) /\ rx'[t] = rx[t]
           /\ task'[t].window + Due(t)' = task[t].window + Due(t)
           /\ Due(t)' = Due(t) \/ task'[t].window >= 0
  <2>1. w2 + n2 = w + n
    BY <1>2, <1>6
  <2>2. Fits(rx[t], w + n, low, high)
    BY <1>3, <1>6
  <2>3. w + n <= high
    <3>1. PICK m \in Int : m = w + n
      OBVIOUS
    <3> QED
      BY <1>1, <2>2, <3>1, FitsNow
  <2>4. n2 <= high
    BY <1>2, <1>3, <1>6, <2>1, <2>3
  <2> QED
    BY <1>4, <1>6, <2>1, <2>2, <2>4
<1>7. CASE /\ AtWork(t) /\ rx[t] # << >> /\ rx'[t] = Tail(rx[t])
           /\ Due(t)' = Due(t) /\ task'[t].window = task[t].window + Raise(Head(rx[t]))
  <2>1. PICK m \in Int : m = w + n
    OBVIOUS
  <2>2. Fits(rx[t], m, low, high)
    BY <1>3, <1>7, <2>1
  <2>3. Fits(Tail(rx[t]), m + Raise(Head(rx[t])), low, high)
    BY <1>1, <1>7, <2>2, FitsTail
  <2>4. PICK r \in Int : r = Raise(Head(rx[t]))
    BY <1>1, <1>7, RaisedTail, RaiseType
  <2>5. w2 + n2 = m + r /\ n2 = n
    BY <1>2, <1>7, <2>1, <2>4
  <2>6. Fits(Tail(rx[t]), w2 + n2, low, high)
    BY <2>3, <2>4, <2>5
  <2> QED
    BY <1>3, <1>4, <1>7, <2>5, <2>6
<1> QED
  BY <1>5, <1>6, <1>7 DEF OwnMove

LEMMA SpokenFrames ==
    ASSUME TypeInv, NEW t \in Tasks, Used(t),
           NEW kind \in {"Response", "Frame", "GetWindow", "PutWindow",
                         "StreamClosing", "StreamClosed"},
           NEW amount \in Nat, NEW end_stream \in BOOLEAN,
           conn_rx' = Append(conn_rx, Request(kind, t, amount, end_stream))
    PROVE  InFrames(conn_rx', t) = InFrames(conn_rx, t) + IF kind = "Frame" THEN amount ELSE 0
<1> DEFINE req == Request(kind, t, amount, end_stream)
<1>1. req \in ConnectionReq
  BY RequestType DEF Used
<1>2. req.from = t /\ req.kind = kind /\ req.amount = amount
  BY DEF Request
<1>3. conn_rx \in Seq(ConnectionReq) /\ conn_rx' = Append(conn_rx, req)
  BY DEF TypeInv, TypeOK
<1> HIDE DEF req
<1>4. InFrames(conn_rx', t)
          = InFrames(conn_rx, t) + IF req.kind = "Frame" /\ req.from = t THEN req.amount ELSE 0
  BY <1>1, <1>3, InFramesAppend
<1> QED
  BY <1>2, <1>4

\* A task that has nothing lent before a step nor after it.
LEMMA IdleMove ==
    ASSUME TypeInv, NEW t \in Tasks, Lent(t) = 0, Lent(t)' = 0,
           InFrames(conn_rx', t) = InFrames(conn_rx, t)
    PROVE  Due(t)' = Due(t) /\ Due(t) \in Int
<1>1. InFrames(conn_rx, t) \in Nat
  BY InFramesType DEF TypeInv, TypeOK
<1> QED
  BY <1>1 DEF Due

LEMMA RequestMove ==
    ASSUME TypeInv, Pool, Books, LoweredType, NEW t \in Tasks, Used(t), RequestWindow(t)
    PROVE  OwnMove(t)
<1>1. task[t] \in Task /\ task \in [Tasks -> Task] /\ task[t].at = "sending"
  BY DEF TypeInv, TypeOK, RequestWindow
<1>2. PICK n \in Nat, w \in Int, l \in Int, g \in Int, f \in Int :
          /\ n = AskFor(t) /\ w = task[t].window /\ l = task[t].left
          /\ g = task[t].window_needed /\ f = InFrames(conn_rx, t) /\ n <= w
  <2>1. AskFor(t) \in Nat /\ AskFor(t) <= task[t].window
    BY <1>1 DEF RequestWindow, AskFor, CanRequest, Task
  <2>2. InFrames(conn_rx, t) \in Nat
    BY WithinType
  <2> QED
    BY <1>1, <2>1, <2>2 DEF Task
<1>3. /\ task'[t].window_needed = g - n /\ task'[t].window = w - n
      /\ task'[t].left = l /\ task'[t].at = "sending" /\ rx' = rx
      /\ conn_rx' = Append(conn_rx, Request("GetWindow", t, n, FALSE))
  BY <1>1, <1>2 DEF RequestWindow, Send, Task
<1>4. InFrames(conn_rx', t) = f
  <2>1. InFrames(conn_rx', t)
            = InFrames(conn_rx, t) + IF "GetWindow" = "Frame" THEN n ELSE 0
    BY <1>3, SpokenFrames
  <2> QED
    BY <1>2, <2>1
<1>5. Due(t) = (l - g) + f /\ Due(t)' = (l - (g - n)) + f
  BY <1>1, <1>2, <1>3, <1>4 DEF Due, Lent
<1>6. task'[t].window + Due(t)' = task[t].window + Due(t) /\ task'[t].window >= 0
  <2>1. (w - n) + ((l - (g - n)) + f) = w + ((l - g) + f) /\ w - n >= 0
    BY <1>2
  <2> QED
    BY <1>2, <1>3, <1>5, <2>1
<1> QED
  BY <1>1, <1>3, <1>6 DEF OwnMove, AtWork

LEMMA DataMove ==
    ASSUME TypeInv, Pool, Books, LoweredType, NEW t \in Tasks, Used(t), SendData(t)
    PROVE  OwnMove(t)
<1>1. task[t] \in Task /\ task \in [Tasks -> Task] /\ task[t].at = "sending"
  BY DEF TypeInv, TypeOK, SendData
<1>2. PICK a \in Nat, l \in Nat, g \in Nat, f \in Nat :
          /\ a = task[t].available_window /\ l = task[t].left
          /\ g = task[t].window_needed /\ f = InFrames(conn_rx, t)
  BY <1>1, WithinType DEF Task
<1>3. g + a <= l
  <2>1. PICK b \in Nat, x \in Nat, y \in Nat :
            /\ b = Carried(rx[t], "AvailableWindow") /\ x = Wanted(conn_rx, t)
            /\ y = Queued(pending_window_req, task[t].id)
    BY HeldType, OwedType
  <2>2. Owed(t) = g + x + y + (a + b)
    BY <1>2, <2>1 DEF Owed, Held
  <2>3. Owed(t) <= l
    BY <1>2 DEF Books, Book
  <2> QED
    BY <2>2, <2>3
<1>4. PICK n \in Nat : n = IF a > l THEN l ELSE a
  OBVIOUS
<1>5. /\ conn_rx' = Append(conn_rx, Request("Frame", t, n, FALSE))
      /\ task' = [task EXCEPT ![t].available_window = Spent(t, n), ![t].left = @ - n,
                              ![t].at = IF l = n THEN "reading" ELSE "sending"]
      /\ rx' = rx
  BY <1>2, <1>4 DEF SendData, Send
<1>6. /\ task'[t].left = l - n /\ task'[t].window_needed = g /\ task'[t].window = task[t].window
      /\ task'[t].at = IF l = n THEN "reading" ELSE "sending"
  BY <1>1, <1>2, <1>5 DEF Task
<1>7. InFrames(conn_rx', t) = f + n
  BY <1>2, <1>5, SpokenFrames
<1>8. Due(t) = (l - g) + f
  BY <1>1, <1>2 DEF Due, Lent
<1>9. Due(t)' = Due(t) /\ AtWork(t)'
  <2>1. CASE l = n
    <3>1. g = 0
      BY <1>3, <1>4, <2>1
    <3>2. Due(t)' = 0 + (f + n)
      BY <1>6, <1>7, <2>1 DEF Due, Lent
    <3> QED
      BY <1>6, <1>8, <2>1, <3>1, <3>2 DEF AtWork
  <2>2. CASE l # n
    <3>1. Due(t)' = ((l - n) - g) + (f + n)
      BY <1>6, <1>7, <2>2 DEF Due, Lent
    <3> QED
      BY <1>6, <1>8, <2>2, <3>1 DEF AtWork
  <2> QED
    BY <2>1, <2>2
<1> QED
  BY <1>1, <1>5, <1>6, <1>9 DEF OwnMove, AtWork

LEMMA ReceiveMove ==
    ASSUME TypeInv, Pool, Books, LoweredType, NEW t \in Tasks, Used(t), Receive(t)
    PROVE  OwnMove(t)
<1>1. /\ task[t] \in Task /\ task \in [Tasks -> Task] /\ rx[t] \in Seq(StreamReq)
      /\ rx \in [Tasks -> Seq(StreamReq)] /\ rx[t] # << >> /\ AtWork(t)
  BY DEF TypeInv, TypeOK, Receive, WaitsForWindow, AtWork
<1>2. PICK req \in StreamReq : req = Head(rx[t])
  BY <1>1, HeadTail
<1>3. rx'[t] = Tail(rx[t]) /\ conn_rx' = conn_rx
  BY <1>1 DEF Receive
<1>4. Lent(t) \in Nat /\ InFrames(conn_rx, t) \in Nat
  BY WithinType
<1>5. ASSUME task'[t].at = "closing" PROVE OwnMove(t)
  <2>1. Due(t)' = 0 + InFrames(conn_rx, t)
    BY <1>3, <1>5 DEF Due, Lent
  <2>2. Due(t)' <= Due(t)
    BY <1>4, <2>1 DEF Due
  <2> QED
    BY <1>5, <2>2 DEF OwnMove, AtWork
<1>6. ASSUME task'[t].at = task[t].at, task'[t].left = task[t].left,
             task'[t].window_needed = task[t].window_needed,
             task'[t].window = task[t].window + Raise(req)
      PROVE  OwnMove(t)
  <2>1. Due(t)' = Due(t)
    BY <1>3, <1>6 DEF Due, Lent
  <2> QED
    BY <1>1, <1>2, <1>3, <1>6, <2>1 DEF OwnMove
<1>7. CASE req.kind = "AvailableWindow" /\ InI32(task[t].available_window + req.amount)
  <2>1. task' = [task EXCEPT ![t].available_window = task[t].available_window + req.amount]
    BY <1>2, <1>7 DEF Receive
  <2>2. Raise(req) = 0 /\ task[t].window \in Int
    BY <1>1, <1>7 DEF Raise, Task
  <2>3. /\ task'[t].at = task[t].at /\ task'[t].left = task[t].left
        /\ task'[t].window_needed = task[t].window_needed /\ task'[t].window = task[t].window
    BY <1>1, <2>1 DEF Task
  <2> QED
    BY <1>6, <2>2, <2>3
<1>8. CASE req.kind = "WindowUpdate" /\ InI32(task[t].window + req.amount)
  <2>1. task' = [task EXCEPT ![t].window = task[t].window + req.amount]
    BY <1>2, <1>8 DEF Receive
  <2>2. Raise(req) = req.amount
    BY <1>8 DEF Raise
  <2>3. /\ task'[t].at = task[t].at /\ task'[t].left = task[t].left
        /\ task'[t].window_needed = task[t].window_needed
        /\ task'[t].window = task[t].window + req.amount
    BY <1>1, <2>1 DEF Task
  <2> QED
    BY <1>6, <2>2, <2>3
<1>9. CASE req.kind = "Reset"
  <2>1. task' = [task EXCEPT ![t].at = "closing", ![t].error = "stream"]
    BY <1>2, <1>9 DEF Receive
  <2>2. task'[t].at = "closing"
    BY <1>1, <2>1 DEF Task
  <2> QED
    BY <1>5, <2>2
<1>10. CASE /\ ~(req.kind = "AvailableWindow" /\ InI32(task[t].available_window + req.amount))
            /\ ~(req.kind = "WindowUpdate" /\ InI32(task[t].window + req.amount))
            /\ req.kind # "Reset"
  <2>1. task' = [task EXCEPT ![t].at = "closing", ![t].error = "connection"]
    BY <1>2, <1>10 DEF Receive
  <2>2. task'[t].at = "closing"
    BY <1>1, <2>1 DEF Task
  <2> QED
    BY <1>5, <2>2
<1> QED
  BY <1>7, <1>8, <1>9, <1>10

LEMMA TaskMoves ==
    ASSUME ConstantsAssumption, TypeInv, Running, Pool, Books, LoweredType, NEW t \in Tasks,
           Used(t), StreamTask(t)
    PROVE  OwnMove(t)
<1>1. task[t] \in Task /\ task \in [Tasks -> Task]
  BY DEF TypeInv, TypeOK
<1>2. ASSUME NEW kind \in {"Response", "PutWindow", "StreamClosing", "StreamClosed"},
             NEW amount \in Nat, NEW end_stream \in BOOLEAN,
             conn_rx' = Append(conn_rx, Request(kind, t, amount, end_stream))
      PROVE  InFrames(conn_rx', t) = InFrames(conn_rx, t)
  <2>1. InFrames(conn_rx', t)
            = InFrames(conn_rx, t) + IF kind = "Frame" THEN amount ELSE 0
    BY <1>2, SpokenFrames
  <2>2. InFrames(conn_rx, t) \in Nat /\ kind # "Frame"
    BY <1>2, WithinType
  <2> QED
    BY <2>1, <2>2
\* A task without a chunk neither before the step nor after it.
<1>3. ASSUME task[t].at # "sending", task'[t].at # "sending",
             InFrames(conn_rx', t) = InFrames(conn_rx, t),
             AtWork(t)' => AtWork(t) /\ rx' = rx /\ task'[t].window = task[t].window
      PROVE  OwnMove(t)
  <2>1. Due(t)' = Due(t) /\ Due(t) \in Int
    BY <1>3, IdleMove DEF Lent
  <2> QED
    BY <1>3, <2>1 DEF OwnMove
<1>4. CASE SendResponse(t)
  <2>1. PICK size \in 0..MaxBody, no_body \in BOOLEAN :
            /\ conn_rx' = Append(conn_rx, Request("Response", t, 0, no_body))
            /\ task' = [task EXCEPT ![t].at = IF no_body THEN "closing" ELSE "reading",
                                    ![t].body = size]
    BY <1>4 DEF SendResponse, Send
  <2>2. task[t].at = "handling" /\ rx' = rx
    BY <1>4 DEF SendResponse
  <2>3. task'[t].at \in {"closing", "reading"} /\ task'[t].window = task[t].window
    BY <1>1, <2>1 DEF Task
  <2>4. InFrames(conn_rx', t) = InFrames(conn_rx, t)
    BY <1>2, <2>1
  <2> QED
    BY <1>3, <2>2, <2>3, <2>4 DEF AtWork
<1>5. CASE ReadChunk(t)
  <2>1. PICK n \in 1..MaxChunk :
            task' = [task EXCEPT ![t].at = "sending", ![t].body = @ - n,
                                 ![t].left = n, ![t].window_needed = n]
    BY <1>5 DEF ReadChunk
  <2>2. task[t].at = "reading" /\ conn_rx' = conn_rx /\ rx' = rx
    BY <1>5 DEF ReadChunk
  <2>3. /\ task'[t].at = "sending" /\ task'[t].left = n /\ task'[t].window_needed = n
        /\ task'[t].window = task[t].window
    BY <1>1, <2>1 DEF Task
  <2>4. Lent(t) = 0 /\ Lent(t)' = 0
    <3>1. n \in Int /\ n - n = 0
      BY DEF ConstantsAssumption
    <3> QED
      BY <2>2, <2>3, <3>1 DEF Lent
  <2>5. Due(t)' = Due(t)
    BY <2>2, <2>4, IdleMove
  <2> QED
    BY <2>2, <2>3, <2>5 DEF OwnMove, AtWork
<1>6. CASE ReadFails(t)
  BY <1>1, <1>3, <1>6 DEF ReadFails, AtWork, Task
<1>7. CASE EndBody(t)
  <2>1. /\ task[t].at = "reading" /\ task' = [task EXCEPT ![t].at = "closing"]
        /\ conn_rx' = Append(conn_rx, Request("Frame", t, 0, TRUE))
    BY <1>7 DEF EndBody, Send
  <2>2. InFrames(conn_rx', t) = InFrames(conn_rx, t) + IF "Frame" = "Frame" THEN 0 ELSE 0
    BY <2>1, SpokenFrames
  <2>3. InFrames(conn_rx', t) = InFrames(conn_rx, t)
    BY <2>2, WithinType
  <2>4. task'[t].at = "closing"
    BY <1>1, <2>1 DEF Task
  <2> QED
    BY <1>3, <2>1, <2>3, <2>4 DEF AtWork
<1>8. CASE RequestWindow(t)
  BY <1>8, RequestMove
<1>9. CASE SendData(t)
  BY <1>9, DataMove
<1>10. CASE Receive(t)
  BY <1>10, ReceiveMove
<1>11. CASE GiveBack(t)
  <2>1. /\ task[t].at = "closing" /\ task' = [task EXCEPT ![t].available_window = 0]
        /\ conn_rx' = Append(conn_rx, Request("PutWindow", t, task[t].available_window, FALSE))
        /\ task[t].available_window \in Nat
    BY <1>1, <1>11 DEF GiveBack, Send, Task
  <2>2. InFrames(conn_rx', t) = InFrames(conn_rx, t)
    BY <1>2, <2>1
  <2>3. task'[t].at = "closing"
    BY <1>1, <2>1 DEF Task
  <2> QED
    BY <1>3, <2>1, <2>2, <2>3 DEF AtWork
<1>12. CASE SendClosing(t)
  <2>1. /\ task[t].at = "closing" /\ task' = [task EXCEPT ![t].at = "announced"]
        /\ conn_rx' = Append(conn_rx, Request("StreamClosing", t, 0, FALSE))
    BY <1>12 DEF SendClosing, Send
  <2>2. InFrames(conn_rx', t) = InFrames(conn_rx, t)
    BY <1>2, <2>1
  <2>3. task'[t].at = "announced"
    BY <1>1, <2>1 DEF Task
  <2> QED
    BY <1>3, <2>1, <2>2, <2>3 DEF AtWork
<1>13. CASE SendClosed(t)
  <2>1. /\ task[t].at = "announced" /\ task' = [task EXCEPT ![t].at = "exited"]
        /\ conn_rx' = Append(conn_rx, Request("StreamClosed", t, 0, FALSE))
    BY <1>13 DEF SendClosed, Send
  <2>2. InFrames(conn_rx', t) = InFrames(conn_rx, t)
    BY <1>2, <2>1
  <2>3. task'[t].at = "exited"
    BY <1>1, <2>1 DEF Task
  <2> QED
    BY <1>3, <2>1, <2>2, <2>3 DEF AtWork
<1>14. CASE SendFails(t)
  BY <1>14 DEF SendFails
<1> QED
  BY <1>4, <1>5, <1>6, <1>7, <1>8, <1>9, <1>10, <1>11, <1>12, <1>13, <1>14 DEF StreamTask

\* What a step does to the history variable.
LEMMA LoweredNext ==
    ASSUME TypeInv, TypeInv', LoweredType, [HistoryNext]_<<vars, lowered>>
    PROVE  /\ LoweredType' /\ [Next]_vars
           /\ initial_window_size' = initial_window_size => lowered' = lowered
           /\ \A id \in StreamIds :
                  lowered'[id] = IF streams[id] # NoTask /\ Running'
                                 THEN Below(lowered[id], initial_window_size' - initial_window_size)
                                 ELSE lowered[id]
<1>1. /\ initial_window_size \in Nat /\ initial_window_size' \in Nat
      /\ lowered \in [StreamIds -> Nat]
  BY DEF TypeInv, TypeOK, LoweredType
<1>2. /\ \A n \in Nat : Below(n, initial_window_size' - initial_window_size) \in Nat
      /\ initial_window_size' = initial_window_size =>
             \A n \in Nat : Below(n, initial_window_size' - initial_window_size) = n
  <2>1. PICK d \in Int : d = initial_window_size' - initial_window_size
    <3>1. initial_window_size' - initial_window_size \in Int
      BY <1>1
    <3> QED
      BY <3>1
  <2>2. \A n \in Nat : Below(n, d) \in Nat /\ (d = 0 => Below(n, d) = n)
    BY DEF Below
  <2>3. initial_window_size' = initial_window_size => d = 0
    BY <1>1, <2>1
  <2> QED
    BY <2>1, <2>2, <2>3
<1>3. CASE HistoryNext
  <2>1. lowered' = [id \in StreamIds |->
           IF streams[id] # NoTask /\ Running'
           THEN Below(lowered[id], initial_window_size' - initial_window_size)
           ELSE lowered[id]]
    BY <1>3 DEF HistoryNext
  <2>2. lowered' \in [StreamIds -> Nat]
    BY <1>1, <1>2, <2>1
  <2>3. ASSUME initial_window_size' = initial_window_size PROVE lowered' = lowered
    BY <1>1, <1>2, <2>1, <2>3
  <2> QED
    BY <1>3, <2>1, <2>2, <2>3 DEF HistoryNext, LoweredType
<1>4. CASE UNCHANGED <<vars, lowered>>
  <2>1. lowered' = lowered /\ vars' = vars
    BY <1>4
  <2>2. initial_window_size' = initial_window_size
    BY <2>1 DEF vars
  <2> QED
    BY <1>1, <1>2, <2>1, <2>2 DEF LoweredType
<1> QED
  BY <1>3, <1>4

\* A task that nothing happens to, but that it may be told to stop.
LEMMA WithinQuiet ==
    ASSUME TypeInv, Pool, Books, LoweredType, NEW t \in Tasks, Within(t), task'[t] = task[t],
           InFrames(conn_rx', t) = InFrames(conn_rx, t),
           Used(t) => /\ stream_credit'[task[t].id] = stream_credit[task[t].id]
                      /\ lowered'[task[t].id] = lowered[task[t].id],
           \/ rx'[t] = rx[t]
           \/ \E m \in StreamReq : Alive(t) /\ Raise(m) = 0 /\ rx'[t] = Append(rx[t], m)
    PROVE  Within(t)'
<1>1. CASE ~Used(t)
  <2>1. rx'[t] = rx[t] /\ ~(Used(t))'
    BY <1>1 DEF Alive, Used
  <2> QED
    BY <1>1, <2>1 DEF Within
<1>2. CASE Used(t)
  <2> DEFINE id == task[t].id
  <2>1. /\ id \in StreamIds /\ stream_credit[id] \in Int /\ HighestCredit[id] \in Int
        /\ stream_credit[id] <= HighestCredit[id] /\ InFrames(conn_rx, t) \in Nat
        /\ HighestCredit[id] = stream_credit[id] + lowered[id]
    BY <1>2, WithinType
  <2>2. HighestCredit'[id] = HighestCredit[id]
    <3>1. HighestCredit'[id] = stream_credit'[id] + lowered'[id]
      BY <2>1 DEF HighestCredit
    <3> QED
      BY <1>2, <2>1, <3>1
  <2>3. PICK z \in Int : z = 0
    OBVIOUS
  <2>4. /\ z \in Nat /\ InFrames(conn_rx', t) = InFrames(conn_rx, t) - z
        /\ stream_credit'[id] = stream_credit[id] - z + z
        /\ HighestCredit'[id] \in Int /\ HighestCredit'[id] >= HighestCredit[id] - z
        /\ HighestCredit'[id] >= stream_credit'[id]
    BY <1>2, <2>1, <2>2, <2>3
  <2>5. \/ rx'[t] = rx[t] /\ z = 0
        \/ \E m \in StreamReq : rx'[t] = Append(rx[t], m) /\ z = Raise(m)
    BY <2>3
  <2> QED
    BY <1>2, <2>4, <2>5, WithinKept
<1> QED
  BY <1>1, <1>2

\* Steps that have nothing to do with the windows of the streams.
LEMMA QuietWithin ==
    ASSUME TypeInv, Pool, Books, LoweredType, \A t \in Tasks : Within(t), task' = task,
           \/ conn_rx' = conn_rx
           \/ conn_rx # << >> /\ conn_rx' = Tail(conn_rx) /\ Head(conn_rx).kind # "Frame",
           stream_credit' = stream_credit, lowered' = lowered,
           \/ rx' = rx
           \/ \E ts : \E m \in StreamReq : Raise(m) = 0 /\ Tell(ts, m)
    PROVE  \A t \in Tasks : Within(t)'
<1> SUFFICES ASSUME NEW t \in Tasks PROVE Within(t)'
  OBVIOUS
<1>1. conn_rx \in Seq(ConnectionReq)
  BY DEF TypeInv, TypeOK
<1>2. InFrames(conn_rx', t) = InFrames(conn_rx, t)
  <2>1. CASE conn_rx # << >> /\ conn_rx' = Tail(conn_rx) /\ Head(conn_rx).kind # "Frame"
    <3>1. InFrames(conn_rx', t) = InFrames(conn_rx, t) - IF Head(conn_rx).kind = "Frame" /\ Head(conn_rx).from = t
                                  THEN Head(conn_rx).amount ELSE 0
      BY <1>1, <2>1, InFramesTail
    <3>2. InFrames(conn_rx, t) \in Nat
      BY <1>1, InFramesType
    <3> QED
      BY <2>1, <3>1, <3>2
  <2> QED
    BY <2>1
<1>3. \/ rx'[t] = rx[t]
      \/ \E m \in StreamReq : Alive(t) /\ Raise(m) = 0 /\ rx'[t] = Append(rx[t], m)
  BY DEF Tell
<1> QED
  BY <1>2, <1>3, WithinQuiet

\* A DATA frame is written: what was due to the peer is taken from the windows.
LEMMA WrittenWithin ==
    ASSUME ConstantsAssumption, TypeInv, TypeInv', OwnStreams, OwnRequests, Pool, Books,
           LoweredType, \A t \in Tasks : Within(t), WriteFrame, lowered' = lowered
    PROVE  \A t \in Tasks : Within(t)'
<1> DEFINE req == Head(conn_rx)
<1>1. /\ conn_rx # << >> /\ conn_rx' = Tail(conn_rx) /\ req.kind = "Frame"
      /\ task' = task /\ rx' = rx
      /\ stream_credit' = [stream_credit EXCEPT ![req.id] = @ - req.amount]
  BY DEF WriteFrame, Take, taskVars
<1>2. /\ conn_rx \in Seq(ConnectionReq) /\ stream_credit \in [StreamIds -> Int]
      /\ stream_credit' \in [StreamIds -> Int]
  BY DEF TypeInv, TypeOK
<1>3. req \in ConnectionReq /\ OwnRequest(req)
  BY <1>1, <1>2 DEF OwnRequests
<1>4. PICK u \in Tasks, a \in Nat, i \in StreamIds :
          /\ u = req.from /\ a = req.amount /\ i = req.id /\ Used(u) /\ i = task[u].id
  BY <1>3 DEF ConnectionReq, OwnRequest
<1> SUFFICES ASSUME NEW t \in Tasks PROVE Within(t)'
  OBVIOUS
<1>5. InFrames(conn_rx', t) = InFrames(conn_rx, t) - IF t = u THEN a ELSE 0
  <2>1. InFrames(conn_rx', t) = InFrames(conn_rx, t) - IF req.kind = "Frame" /\ req.from = t
                                                       THEN req.amount ELSE 0
    BY <1>1, <1>2, InFramesTail
  <2> QED
    BY <1>1, <1>4, <2>1
<1>6. InFrames(conn_rx, t) \in Nat
  BY <1>2, InFramesType
<1>7. ASSUME t # u PROVE Within(t)'
  <2>1. InFrames(conn_rx', t) = InFrames(conn_rx, t)
    BY <1>5, <1>6, <1>7
  <2>2. ASSUME Used(t)
        PROVE  /\ stream_credit'[task[t].id] = stream_credit[task[t].id]
               /\ lowered'[task[t].id] = lowered[task[t].id]
    <3>1. task[t].id # i /\ task[t].id \in StreamIds
      BY <1>4, <1>7, <2>2, OneOwner, WithinType
    <3> QED
      BY <1>1, <1>2, <1>4, <3>1
  <2> QED
    BY <1>1, <2>1, <2>2, WithinQuiet
<1>8. ASSUME t = u PROVE Within(t)'
  <2>1. /\ Used(t) /\ task[t].id = i /\ InFrames(conn_rx', t) = InFrames(conn_rx, t) - a
        /\ stream_credit[i] \in Int /\ lowered[i] \in Nat
        /\ HighestCredit[i] = stream_credit[i] + lowered[i]
    <3>1. Used(t) /\ task[t].id = i /\ InFrames(conn_rx', t) = InFrames(conn_rx, t) - a
      BY <1>4, <1>5, <1>8
    <3> QED
      BY <3>1, WithinType
  <2>2. stream_credit'[i] = stream_credit[i] - a
    BY <1>1, <1>2, <1>4
  <2>3. HighestCredit'[i] = stream_credit'[i] + lowered[i]
    BY DEF HighestCredit
  <2>4. PICK z \in Int : z = 0
    OBVIOUS
  <2>5. /\ stream_credit'[i] = stream_credit[i] - a + z
        /\ HighestCredit'[i] \in Int /\ HighestCredit'[i] >= HighestCredit[i] - a
        /\ HighestCredit'[i] >= stream_credit'[i]
    BY <2>1, <2>2, <2>3, <2>4
  <2>6. rx'[t] = rx[t] /\ task'[t] = task[t]
    BY <1>1
  <2> HIDE DEF req
  <2> QED
    BY <2>1, <2>4, <2>5, <2>6, WithinKept
<1> QED
  BY <1>7, <1>8

\* A message that raises or lowers the window of a task comes with the same change of what
\* the peer has granted its stream.
LEMMA WithinTold ==
    ASSUME TypeInv, Pool, Books, LoweredType, NEW t \in Tasks, Used(t), Within(t),
           task'[t] = task[t], conn_rx' = conn_rx, NEW d \in Int,
           rx'[t] = Append(rx[t], [kind |-> "WindowUpdate", amount |-> d]),
           stream_credit'[task[t].id] = stream_credit[task[t].id] + d,
           lowered'[task[t].id] = Below(lowered[task[t].id], d) \/
               (d >= 0 /\ lowered'[task[t].id] = lowered[task[t].id])
    PROVE  Within(t)'
<1> DEFINE id == task[t].id
           m == [kind |-> "WindowUpdate", amount |-> d]
<1>1. /\ id \in StreamIds /\ stream_credit[id] \in Int /\ lowered[id] \in Nat
      /\ HighestCredit[id] = stream_credit[id] + lowered[id]
      /\ InFrames(conn_rx, t) \in Nat
  BY WithinType
<1>2. m \in StreamReq /\ Raise(m) = d
  BY DEF StreamReq, Raise
<1>3. PICK l \in Nat, l2 \in Nat, s \in Int :
          /\ l = lowered[id] /\ l2 = lowered'[id] /\ s = stream_credit[id]
          /\ s + d + l2 >= s + l
  <2>1. lowered'[id] \in Nat /\ d + lowered'[id] >= lowered[id]
    BY <1>1 DEF Below
  <2> QED
    BY <1>1, <2>1
<1>4. HighestCredit'[id] = stream_credit'[id] + l2
  BY <1>1, <1>3 DEF HighestCredit
<1>5. PICK z \in Int : z = 0
  OBVIOUS
<1>6. /\ z \in Nat /\ InFrames(conn_rx', t) = InFrames(conn_rx, t) - z
      /\ stream_credit'[id] = stream_credit[id] - z + d
      /\ HighestCredit'[id] \in Int /\ HighestCredit'[id] >= HighestCredit[id] - z
      /\ HighestCredit'[id] >= stream_credit'[id]
  <2>1. stream_credit'[id] = s + d /\ HighestCredit'[id] = (s + d) + l2 /\ HighestCredit[id] = s + l
    BY <1>1, <1>3, <1>4
  <2>2. (s + d) + l2 \in Int /\ (s + d) + l2 >= s + l - z /\ (s + d) + l2 >= s + d
        /\ s + d = s - z + d
    BY <1>3, <1>5
  <2>3. InFrames(conn_rx', t) = InFrames(conn_rx, t) - z
    BY <1>1, <1>5
  <2> QED
    BY <1>3, <1>5, <2>1, <2>2, <2>3
<1>7. \E r \in StreamReq : rx'[t] = Append(rx[t], r) /\ d = Raise(r)
  BY <1>2
<1> QED
  BY <1>6, <1>7, WithinKept

\* WINDOW_UPDATE on a stream: its task hears of it.
LEMMA RaisedWithin ==
    ASSUME ConstantsAssumption, TypeInv, OwnStreams, Pool, Books, LoweredType,
           \A t \in Tasks : Within(t), lowered' = lowered,
           NEW id \in StreamIds, NEW n \in Increments, RecvStreamWindowUpdate(id, n)
    PROVE  \A t \in Tasks : Within(t)'
<1> USE DEF windowVars, streamVars, taskVars, peerVars, wireVars
<1>1. task' = task /\ conn_rx' = conn_rx /\ n \in Nat
  BY DEF RecvStreamWindowUpdate, ConstantsAssumption
<1>2. CASE streams[id] # NoTask /\ Alive(streams[id])
  <2> DEFINE m == [kind |-> "WindowUpdate", amount |-> n]
  <2>1. /\ Tell({streams[id]}, m)
        /\ stream_credit' = [stream_credit EXCEPT ![id] = @ + n]
    BY <1>2 DEF RecvStreamWindowUpdate
  <2>2. stream_credit \in [StreamIds -> Int] /\ streams \in [StreamIds -> Tasks \cup {NoTask}]
    BY DEF TypeInv, TypeOK
  <2>3. PICK u \in Tasks : u = streams[id] /\ Used(u) /\ task[u].id = id /\ Alive(u)
    <3>1. streams[id] \in Tasks /\ Used(streams[id]) /\ task[streams[id]].id = id
      BY <1>2, <2>2 DEF OwnStreams
    <3> QED
      BY <1>2, <3>1
  <2> HIDE DEF m
  <2> SUFFICES ASSUME NEW t \in Tasks PROVE Within(t)'
    OBVIOUS
  <2>4. ASSUME t # u PROVE Within(t)'
    <3>1. rx'[t] = rx[t]
      BY <2>1, <2>3, <2>4 DEF Tell
    <3>2. ASSUME Used(t)
          PROVE  /\ stream_credit'[task[t].id] = stream_credit[task[t].id]
                 /\ lowered'[task[t].id] = lowered[task[t].id]
      <4>1. task[t].id # id /\ task[t].id \in StreamIds
        BY <2>3, <2>4, <3>2, OneOwner, WithinType, SMTT(30)
      <4> QED
        BY <2>1, <2>2, <4>1
    <3> QED
      BY <1>1, <3>1, <3>2, WithinQuiet
  <2>5. ASSUME t = u PROVE Within(t)'
    <3>1. /\ Used(t) /\ rx'[t] = Append(rx[t], m) /\ task[t].id = id
          /\ stream_credit'[id] = stream_credit[id] + n
      BY <2>1, <2>2, <2>3, <2>5 DEF Tell
    <3>2. n \in Int /\ n >= 0 /\ lowered'[id] = lowered[id] /\ task'[t] = task[t]
      BY <1>1
    <3> QED
      BY <1>1, <3>1, <3>2, WithinTold DEF m
  <2> QED
    BY <2>4, <2>5
<1>3. CASE ~(streams[id] # NoTask /\ Alive(streams[id]))
  <2>1. stream_credit' = stream_credit /\ (ResetStream(id) \/ rx' = rx)
    BY <1>3 DEF RecvStreamWindowUpdate
  <2>2. rx' = rx \/ \E ts : \E m \in StreamReq : Raise(m) = 0 /\ Tell(ts, m)
    <3>1. [kind |-> "Reset", amount |-> 0] \in StreamReq
          /\ Raise([kind |-> "Reset", amount |-> 0]) = 0
      BY DEF StreamReq, Raise
    <3> QED
      BY <2>1, <3>1 DEF ResetStream
  <2> QED
    BY <1>1, <2>1, <2>2, QuietWithin
<1> QED
  BY <1>2, <1>3

\* SETTINGS: each task hears of the difference, unless the connection ends.
LEMMA SettingsWithin ==
    ASSUME ConstantsAssumption, TypeInv, TypeInv', OwnStreams, Pool, Books, LoweredType,
           \A t \in Tasks : Within(t), NEW size \in InitialWindows, RecvSettings(size),
           Running, Running',
           \A id \in StreamIds :
               lowered'[id] = IF streams[id] # NoTask /\ Running'
                              THEN Below(lowered[id], initial_window_size' - initial_window_size)
                              ELSE lowered[id]
    PROVE  \A t \in Tasks : Within(t)'
<1> DEFINE dif == initial_window_size' - initial_window_size
           m == [kind |-> "WindowUpdate", amount |-> dif]
<1>1. \A t \in Handled : Alive(t)
  BY DEF RecvSettings, Close, Running
<1>2. /\ Tell(Handled, m) /\ task' = task /\ conn_rx' = conn_rx
      /\ stream_credit' = [id \in StreamIds |->
             IF streams[id] # NoTask THEN stream_credit[id] + dif ELSE stream_credit[id]]
  BY <1>1 DEF RecvSettings
<1>3. dif \in Int
  <2>1. initial_window_size \in Nat /\ initial_window_size' \in Nat
    BY DEF TypeInv, TypeOK
  <2> QED
    BY <2>1
<1>4. PICK d \in Int : d = dif
  BY <1>3
<1> SUFFICES ASSUME NEW t \in Tasks PROVE Within(t)'
  OBVIOUS
<1>5. CASE t \in Handled
  <2>1. PICK id \in StreamIds : streams[id] = t /\ streams[id] # NoTask
    BY <1>5 DEF Handled
  <2>2. Used(t) /\ task[t].id = id /\ Alive(t)
    BY <1>1, <1>5, <2>1 DEF OwnStreams
  <2>3. /\ stream_credit'[id] = stream_credit[id] + d
        /\ lowered'[id] = Below(lowered[id], d)
    BY <1>2, <1>4, <2>1
  <2>4. rx'[t] = Append(rx[t], [kind |-> "WindowUpdate", amount |-> d])
    BY <1>2, <1>4, <1>5, <2>2 DEF Tell
  <2> HIDE DEF dif, m
  <2> QED
    BY <1>2, <2>2, <2>3, <2>4, WithinTold
<1>6. CASE t \notin Handled
  <2>1. rx'[t] = rx[t]
    BY <1>2, <1>6 DEF Tell
  <2>2. ASSUME Used(t)
        PROVE  /\ stream_credit'[task[t].id] = stream_credit[task[t].id]
               /\ lowered'[task[t].id] = lowered[task[t].id]
    <3>1. task[t].id \in StreamIds
      BY <2>2, WithinType
    <3>2. ASSUME streams[task[t].id] # NoTask PROVE FALSE
      <4>1. /\ Used(streams[task[t].id]) /\ task[streams[task[t].id]].id = task[t].id
            /\ streams[task[t].id] \in Tasks
        <5>1. streams \in [StreamIds -> Tasks \cup {NoTask}]
          BY DEF TypeInv, TypeOK
        <5>2. \A id \in StreamIds : streams[id] # NoTask =>
                  Used(streams[id]) /\ task[streams[id]].id = id
          BY DEF OwnStreams
        <5> QED
          BY <3>1, <3>2, <5>1, <5>2
      <4>2. streams[task[t].id] = t
        BY <2>2, <4>1 DEF OwnStreams
      <4> QED
        BY <1>6, <3>1, <3>2, <4>2 DEF Handled
    <3> QED
      BY <1>2, <3>1, <3>2
  <2> QED
    BY <1>2, <2>1, <2>2, WithinQuiet
<1> QED
  BY <1>5, <1>6

\* A stream is opened: its task starts with the window the peer has granted it.
LEMMA OpenedWithin ==
    ASSUME ConstantsAssumption, TypeInv, TypeInv', "REOPEN" \notin PeerSends, OwnStreams,
           OwnRequests, Pool, Books, LoweredType, LoweredType', \A t \in Tasks : Within(t),
           lowered' = lowered,
           NEW id \in StreamIds, NEW kind \in PeerSends, NEW u \in Tasks,
           RecvRequest(id, kind, u)
    PROVE  \A t \in Tasks : Within(t)'
<1>1. /\ task[u].at = "unused" /\ conn_rx' = conn_rx /\ rx' = rx
      /\ task' = [task EXCEPT ![u].at = "handling", ![u].id = id,
                              ![u].window = initial_window_size]
      /\ stream_credit' = [stream_credit EXCEPT ![id] = initial_window_size]
  BY DEF RecvRequest, Sends
<1>2. id > biggest_open_stream /\ biggest_open_stream \in Nat /\ StreamIds \subseteq Nat
  <2>1. id > biggest_open_stream
    BY OpenOwn
  <2>2. biggest_open_stream \in StreamIds \cup {0}
    BY DEF TypeInv, TypeOK
  <2> QED
    BY <2>1, <2>2 DEF ConstantsAssumption
<1>3. /\ task \in [Tasks -> Task] /\ task[u] \in Task /\ stream_credit \in [StreamIds -> Int]
      /\ conn_rx \in Seq(ConnectionReq) /\ initial_window_size \in Nat
      /\ lowered[id] \in Nat
  BY DEF TypeInv, TypeOK, LoweredType
<1>4. /\ task'[u].at = "handling" /\ task'[u].id = id /\ task'[u].window = initial_window_size
      /\ \A t \in Tasks : t # u => task'[t] = task[t]
  BY <1>1, <1>3 DEF Task
<1>5. InFrames(conn_rx', u) = 0
  <2>1. ASSUME NEW i \in DOMAIN conn_rx PROVE conn_rx[i].from # u
    BY <1>1 DEF OwnRequests, OwnRequest, Used
  <2> QED
    BY <1>1, <1>3, <2>1, InFramesNone
<1>6. Within(u)'
  <2>1. Due(u)' = 0
    BY <1>4, <1>5 DEF Due, Lent
  <2>2. rx'[u] = << >>
    BY <1>1 DEF Within, Used
  <2>3. PICK w \in Nat, h \in Int :
            /\ w = initial_window_size /\ h = HighestCredit'[id] /\ w <= h
            /\ stream_credit'[id] = w
    <3>1. HighestCredit'[id] = stream_credit'[id] + lowered[id]
      BY DEF HighestCredit
    <3>2. stream_credit'[id] = initial_window_size
      BY <1>1, <1>3
    <3>3. HighestCredit'[id] \in Nat /\ initial_window_size <= HighestCredit'[id]
      BY <1>3, <3>1, <3>2
    <3> QED
      BY <1>3, <3>2, <3>3, SMTT(30)
  <2>4. Fits(<< >>, w, w, h)
    BY <2>3, FitsEmpty
  <2>5. Fits(rx'[u], task'[u].window + Due(u)', stream_credit'[task'[u].id],
             HighestCredit'[task'[u].id])
    <3>1. w + 0 = w
      OBVIOUS
    <3> QED
      BY <1>4, <2>1, <2>2, <2>3, <2>4, <3>1
  <2>6. (Used(u))' /\ Due(u)' <= HighestCredit'[task'[u].id]
    BY <1>4, <2>1, <2>3 DEF Used
  <2> QED
    BY <2>5, <2>6 DEF Within
<1>7. ASSUME NEW t \in Tasks, t # u PROVE Within(t)'
  <2>1. task'[t] = task[t]
    BY <1>4, <1>7
  <2>2. ASSUME Used(t)
        PROVE  /\ stream_credit'[task[t].id] = stream_credit[task[t].id]
               /\ lowered'[task[t].id] = lowered[task[t].id]
    <3>1. task[t].id \in StreamIds /\ task[t].id <= biggest_open_stream
      BY <2>2, WithinType DEF OwnStreams
    <3>2. task[t].id \in Nat /\ id \in Nat
      BY <1>2, <3>1
    <3>3. task[t].id # id
      BY <1>2, <3>1, <3>2
    <3> QED
      BY <1>1, <1>3, <3>1, <3>3
  <2> QED
    BY <1>1, <2>1, <2>2, WithinQuiet
<1> QED
  BY <1>6, <1>7

\* A step of a task.
LEMMA TaskWithin ==
    ASSUME ConstantsAssumption, TypeInv, TypeInv', Running, OwnStreams, Pool, Books,
           LoweredType, \A t \in Tasks : Within(t), lowered' = lowered,
           NEW u \in Tasks, StreamTask(u)
    PROVE  \A t \in Tasks : Within(t)'
<1>1. OneTask(u)
  BY TaskSteps
<1>2. stream_credit' = stream_credit /\ Used(u) /\ (Used(u))' /\ task'[u].id = task[u].id
  BY <1>1 DEF OneTask, TaskStep, peerVars, Used
<1>3. HighestCredit' = HighestCredit
  BY <1>2 DEF HighestCredit
<1>4. Within(u)'
  <2>1. task'[u] \in Task /\ conn_rx' \in Seq(ConnectionReq)
    BY DEF TypeInv, TypeOK
  <2>2. task'[u].window \in Int /\ Lent(u)' \in Int
    BY <2>1 DEF Task, Lent
  <2>3. InFrames(conn_rx', u) \in Nat
    BY <2>1, InFramesType
  <2>4. Due(u)' \in Int
    BY <2>2, <2>3 DEF Due
  <2>5. OwnMove(u)
    BY <1>2, TaskMoves
  <2> QED
    BY <1>2, <1>3, <2>2, <2>4, <2>5, WithinMoved
<1>5. ASSUME NEW t \in Tasks, t # u PROVE Within(t)'
  <2>1. task'[t] = task[t] /\ rx'[t] = rx[t]
    BY <1>1, <1>5 DEF OneTask
  <2>2. InFrames(conn_rx', t) = InFrames(conn_rx, t)
    <3>1. conn_rx \in Seq(ConnectionReq)
      BY DEF TypeInv, TypeOK
    <3>2. InFrames(conn_rx, t) \in Nat
      BY <3>1, InFramesType
    <3>3. ASSUME NEW req \in ConnectionReq, req.from = u, conn_rx' = Append(conn_rx, req)
          PROVE  InFrames(conn_rx', t) = InFrames(conn_rx, t)
      <4>1. InFrames(conn_rx', t) = InFrames(conn_rx, t) + IF req.kind = "Frame" /\ req.from = t
                                                           THEN req.amount ELSE 0
        BY <3>1, <3>3, InFramesAppend
      <4> QED
        BY <1>5, <3>2, <3>3, <4>1
    <3> QED
      BY <1>1, <3>3 DEF OneTask
  <2> QED
    BY <1>2, <2>1, <2>2, WithinQuiet
<1> QED
  BY <1>4, <1>5

LEMMA WithinStep ==
    ASSUME ConstantsAssumption, TypeInv, TypeInv', Running, Running', "REOPEN" \notin PeerSends,
           OwnStreams, OwnRequests, Pool, Books, LoweredType, \A t \in Tasks : Within(t),
           [HistoryNext]_<<vars, lowered>>
    PROVE  \A t \in Tasks : Within(t)'
<1> USE DEF loopVars, windowVars, streamVars, shutdownVars, taskVars, peerVars, wireVars
<1>1. /\ LoweredType' /\ [Next]_vars
      /\ initial_window_size' = initial_window_size => lowered' = lowered
      /\ \A id \in StreamIds :
             lowered'[id] = IF streams[id] # NoTask /\ Running'
                            THEN Below(lowered[id], initial_window_size' - initial_window_size)
                            ELSE lowered[id]
  BY LoweredNext
<1>2. ASSUME initial_window_size' = initial_window_size, task' = task,
             \/ conn_rx' = conn_rx
             \/ conn_rx # << >> /\ conn_rx' = Tail(conn_rx) /\ Head(conn_rx).kind # "Frame",
             stream_credit' = stream_credit,
             \/ rx' = rx
             \/ \E id \in StreamIds : ResetStream(id)
             \/ \E ts : \E m \in StreamReq : Raise(m) = 0 /\ Tell(ts, m)
      PROVE  \A t \in Tasks : Within(t)'
  <2>1. [kind |-> "Reset", amount |-> 0] \in StreamReq
        /\ Raise([kind |-> "Reset", amount |-> 0]) = 0
    BY DEF StreamReq, Raise
  <2>2. rx' = rx \/ \E ts : \E m \in StreamReq : Raise(m) = 0 /\ Tell(ts, m)
    BY <1>2, <2>1 DEF ResetStream
  <2> QED
    BY <1>1, <1>2, <2>2, QuietWithin
<1>3. CASE Peer
  <2>1. ASSUME NEW id \in StreamIds, NEW kind \in PeerSends, RecvIllegalHeaders(id, kind)
        PROVE  \A t \in Tasks : Within(t)'
    BY <1>2, <2>1 DEF RecvIllegalHeaders, Leave
  <2>2. ASSUME NEW id \in StreamIds, NEW kind \in PeerSends, RecvRejectedHeaders(id, kind)
        PROVE  \A t \in Tasks : Within(t)'
    BY <1>2, <2>2 DEF RecvRejectedHeaders
  <2>3. ASSUME NEW id \in StreamIds, NEW kind \in PeerSends, NEW t \in Tasks,
               RecvRequest(id, kind, t)
        PROVE  \A u \in Tasks : Within(u)'
    <3>1. initial_window_size' = initial_window_size
      BY <2>3 DEF RecvRequest
    <3> QED
      BY <1>1, <2>3, <3>1, OpenedWithin
  <2>4. ASSUME NEW id \in StreamIds, RecvUndecodableHeaders(id) \/ RecvRstStream(id)
        PROVE  \A t \in Tasks : Within(t)'
    BY <1>2, <2>4 DEF RecvUndecodableHeaders, RecvRstStream, Leave
  <2>5. ASSUME NEW n \in Increments, RecvGlobalWindowUpdate(n)
        PROVE  \A t \in Tasks : Within(t)'
    BY <1>2, <2>5 DEF RecvGlobalWindowUpdate
  <2>6. ASSUME NEW n \in Increments, NEW id \in StreamIds, RecvStreamWindowUpdate(id, n)
        PROVE  \A t \in Tasks : Within(t)'
    <3>1. initial_window_size' = initial_window_size
      BY <2>6 DEF RecvStreamWindowUpdate
    <3> QED
      BY <1>1, <2>6, <3>1, RaisedWithin
  <2>7. ASSUME NEW size \in InitialWindows, RecvSettings(size)
        PROVE  \A t \in Tasks : Within(t)'
    BY <1>1, <2>7, SettingsWithin
  <2>8. CASE RecvGoAway \/ ConnectionFails
    BY <1>2, <2>8 DEF RecvGoAway, ConnectionFails, Leave
  <2> QED
    BY <1>3, <2>1, <2>2, <2>3, <2>4, <2>5, <2>6, <2>7, <2>8 DEF Peer
<1>4. CASE AnnounceShutdown \/ NoticeShutdown \/ FlushWriteBuffer \/ UNCHANGED vars
  BY <1>2, <1>4 DEF AnnounceShutdown, NoticeShutdown, StopAccepting, FlushWriteBuffer, vars
<1>5. CASE WriteResponse \/ GetWindow \/ PutWindow \/ StreamClosed
  BY <1>2, <1>5 DEF WriteResponse, GetWindow, PutWindow, StreamClosed, Take
<1>6. CASE StreamClosing
  <2>1. /\ conn_rx # << >> /\ conn_rx' = Tail(conn_rx) /\ Head(conn_rx).kind = "StreamClosing"
        /\ rx' = rx \/ ResetStream(Head(conn_rx).id)
        /\ task' = task /\ stream_credit' = stream_credit
        /\ initial_window_size' = initial_window_size
    BY <1>6 DEF StreamClosing, Take
  <2>2. Head(conn_rx).id \in StreamIds
    <3>1. Head(conn_rx) \in ConnectionReq
      BY <2>1, HeadTail DEF TypeInv, TypeOK
    <3> QED
      BY <3>1 DEF ConnectionReq
  <2> QED
    BY <1>2, <2>1, <2>2
<1>7. CASE WriteFrame
  <2>1. initial_window_size' = initial_window_size
    BY <1>7 DEF WriteFrame
  <2> QED
    BY <1>1, <1>7, <2>1, WrittenWithin
<1>8. CASE DropWindowRequest
  BY <1>2, <1>8 DEF DropWindowRequest
<1>9. CASE GiveWindow
  <2>1. /\ distributing /\ Asked.amount > 0
        /\ Tell({streams[Asked.id]}, [kind |-> "AvailableWindow", amount |-> Given])
        /\ conn_rx' = conn_rx /\ task' = task /\ stream_credit' = stream_credit
        /\ initial_window_size' = initial_window_size
    BY <1>9 DEF GiveWindow, Close, Running
  <2>2. Given \in Nat
    BY <2>1, GivenType
  <2>3. /\ [kind |-> "AvailableWindow", amount |-> Given] \in StreamReq
        /\ Raise([kind |-> "AvailableWindow", amount |-> Given]) = 0
    BY <2>2 DEF StreamReq, Raise
  <2> QED
    BY <1>2, <2>1, <2>3
<1>10. ASSUME NEW t \in Tasks, StreamTask(t) PROVE \A u \in Tasks : Within(u)'
  <2>1. TaskStep
    BY <1>10, TaskSteps DEF OneTask
  <2>2. initial_window_size' = initial_window_size
    BY <2>1 DEF TaskStep
  <2> QED
    BY <1>1, <1>10, <2>2, TaskWithin
<1> QED
  BY <1>1, <1>3, <1>4, <1>5, <1>6, <1>7, <1>8, <1>9, <1>10 DEF Next, Streams, DistributeWindow

-----------------------------------------------------------------------------
(* The refinement.                                                          *)

WireInv ==
    /\ LoweredType
    /\ Running => FramesInv /\ \A t \in Tasks : Within(t)

LEMMA InitWire == ASSUME ConstantsAssumption, HistoryInit PROVE WireInv
<1>1. /\ conn_rx = << >> /\ wire = [id \in StreamIds |-> {}] /\ rx = [t \in Tasks |-> << >>]
      /\ \A t \in Tasks : task[t].at = "unused"
  BY DEF HistoryInit, Init
<1>2. \A t \in Tasks : Within(t) /\ SoFar(t)
  BY <1>1 DEF Within, Used, SoFar
<1>3. FramesInv
  BY <1>1, <1>2 DEF FramesInv
<1>4. LoweredType
  BY DEF HistoryInit, LoweredType
<1> QED
  BY <1>2, <1>3, <1>4 DEF WireInv

LEMMA WireInvStep ==
    ASSUME ConstantsAssumption, "REOPEN" \notin PeerSends, TypeInv, TypeInv', SendInv,
           ShutdownInv, WireInv, [HistoryNext]_<<vars, lowered>>
    PROVE  WireInv'
<1>1. LoweredType' /\ [Next]_vars
  BY LoweredNext DEF WireInv
<1>2. ASSUME Running' PROVE FramesInv' /\ \A t \in Tasks : Within(t)'
  <2>1. Running
    BY <1>1, <1>2, NotAgain
  <2>2. /\ OwnStreams /\ OwnRequests /\ Pool /\ Books /\ OrderInv
        /\ LoweredType /\ FramesInv /\ \A t \in Tasks : Within(t)
    BY <2>1 DEF SendInv, ShutdownInv, WireInv
  <2>3. FramesInv'
    BY <1>1, <2>1, <2>2, FramesStep
  <2>4. \A t \in Tasks : Within(t)'
    BY <1>2, <2>1, <2>2, WithinStep
  <2> QED
    BY <2>3, <2>4
<1> QED
  BY <1>1, <1>2 DEF WireInv

LEMMA HistoryInvariant ==
    ASSUME "REOPEN" \notin PeerSends
    PROVE  HistorySpec => [](TypeInv /\ SendInv /\ ShutdownInv /\ WireInv)
<1>1. HistorySpec => Spec
  <2>1. HistoryInit => Init
    BY DEF HistoryInit
  <2>2. [HistoryNext]_<<vars, lowered>> => [Next]_vars
    BY DEF HistoryNext
  <2> QED
    BY <2>1, <2>2, PTL DEF HistorySpec, Spec
<1>2. HistoryInit => WireInv
  BY ConstantsAssumption, InitWire
<1>3. /\ TypeInv /\ TypeInv' /\ SendInv /\ ShutdownInv /\ WireInv
      /\ [HistoryNext]_<<vars, lowered>>
      => WireInv'
  BY ConstantsAssumption, WireInvStep
<1>4. Spec => [](TypeInv /\ SendInv)
  BY SendInvariant
<1>5. Spec => [](TypeInv /\ CountInv /\ ShutdownInv)
  BY ShutdownInvariant
<1> QED
  BY <1>1, <1>2, <1>3, <1>4, <1>5, PTL DEF HistorySpec

\* What the peer sees of a step.
LEMMA SeenNothing ==
    ASSUME Running' = Running, credit' = credit, HighestCredit' = HighestCredit, wire' = wire
    PROVE  [Wire!Next]_(Wire!vars)
BY DEF Wire!vars

LEMMA SeenClose ==
    ASSUME Running, ~Running', credit' = credit, HighestCredit' = HighestCredit, wire' = wire
    PROVE  [Wire!Next]_(Wire!vars)
BY DEF Wire!Next, Wire!Close

LEMMA SeenRst ==
    ASSUME TypeInv, Running, NEW id \in StreamIds, Write(id, {"rst"}), credit' = credit,
           HighestCredit' = HighestCredit
    PROVE  [Wire!Next]_(Wire!vars)
<1>1. wire' = [wire EXCEPT ![id] = @ \cup {"rst"}] /\ Running' \in BOOLEAN
  BY DEF Write, Running
<1>2. Wire!Rst(id)
  BY <1>1 DEF Wire!Rst, Wire!Add
<1>3. Wire!Next
  BY <1>2 DEF Wire!Next
<1> QED
  BY <1>3

LEMMA SeenGrant ==
    ASSUME Running, Running', credit' > credit, HighestCredit' = HighestCredit, wire' = wire
    PROVE  [Wire!Next]_(Wire!vars)
BY DEF Wire!Next, Wire!Grant

LEMMA SeenGrantStreams ==
    ASSUME Running, Running', credit' = credit, wire' = wire,
           \A id \in StreamIds :
               /\ HighestCredit'[id] \in Int
               /\ "headers" \in wire[id] => HighestCredit'[id] >= HighestCredit[id]
    PROVE  [Wire!Next]_(Wire!vars)
<1>1. HighestCredit' \in [StreamIds -> Int]
  <2>1. HighestCredit' = [id \in StreamIds |-> HighestCredit'[id]]
    BY DEF HighestCredit
  <2> QED
    BY <2>1
<1>2. Wire!GrantStreams
  BY <1>1 DEF Wire!GrantStreams
<1> QED
  BY <1>2 DEF Wire!Next

\* A connection that has ended is silent.
LEMMA SeenAfterEnd ==
    ASSUME ~Running, [Next]_vars
    PROVE  UNCHANGED <<exit, credit, stream_credit, wire, initial_window_size>>
<1> USE DEF loopVars, windowVars, streamVars, shutdownVars, taskVars, peerVars,
            wireVars, Selecting, Take
<1>1. CASE UNCHANGED vars \/ AnnounceShutdown
  BY <1>1 DEF vars, AnnounceShutdown
<1>2. ~Peer
  BY ZenonT(30) DEF Peer, RecvIllegalHeaders, RecvRejectedHeaders, RecvRequest, RecvUndecodableHeaders,
         RecvRstStream, RecvGlobalWindowUpdate, RecvStreamWindowUpdate, RecvSettings,
         RecvGoAway, ConnectionFails
<1>3. ~(NoticeShutdown \/ FlushWriteBuffer \/ Streams \/ DistributeWindow)
  BY DEF NoticeShutdown, FlushWriteBuffer, Streams, WriteResponse, WriteFrame, GetWindow,
         PutWindow, StreamClosing, StreamClosed, DistributeWindow, DropWindowRequest,
         GiveWindow
<1>4. ASSUME NEW t \in Tasks, StreamTask(t)
      PROVE  UNCHANGED <<exit, credit, stream_credit, wire, initial_window_size>>
  <2>1. TaskStep
    BY <1>4 DEF StreamTask, SendResponse, ReadChunk, ReadFails, EndBody, RequestWindow,
                SendData, Receive, GiveBack, SendClosing, SendClosed, SendFails
  <2> QED
    BY <2>1 DEF TaskStep
<1> QED
  BY <1>1, <1>2, <1>3, <1>4 DEF Next

\* What is about to be written fits into the window of the connection.
LEMMA FrameInCredit ==
    ASSUME ConstantsAssumption, TypeInv, Pool, Balanced, conn_rx # << >>,
           Head(conn_rx).kind = "Frame"
    PROVE  Head(conn_rx).amount <= credit
<1>1. conn_rx \in Seq(ConnectionReq) /\ Tail(conn_rx) \in Seq(ConnectionReq)
      /\ Head(conn_rx) \in ConnectionReq
  BY HeadTail DEF TypeInv, TypeOK
<1>2. PICK a \in Nat : a = Head(conn_rx).amount
  BY <1>1 DEF ConnectionReq
<1>3. PICK c \in Nat, d \in Nat :
          c = Carried(conn_rx, "Frame") /\ d = Carried(Tail(conn_rx), "Frame")
  BY <1>1, CarriedTypes
<1>4. d = c - a
  BY <1>1, <1>2, <1>3, CarriedTail, Amounts
<1>5. PICK g \in Nat, p \in Nat, o \in Nat :
          /\ g = global_window /\ p = Carried(conn_rx, "PutWindow") /\ o = Over(Tasks, Holdings)
  <2>1. Over(Tasks, Holdings) \in Nat
    <3>1. \A t \in Tasks : Held(t) \in Nat
      BY HeldType
    <3>2. Holdings \in [Tasks -> Nat] /\ IsFiniteSet(Tasks)
      BY <3>1 DEF Holdings, ConstantsAssumption
    <3> QED
      BY <3>2, OverNatural
  <2>2. Carried(conn_rx, "PutWindow") \in Nat /\ global_window \in Nat
    BY <1>1, CarriedTypes DEF Pool
  <2> QED
    BY <2>1, <2>2
<1>6. credit = g + o + p + c
  BY <1>3, <1>5, Accounts DEF Balanced
<1> QED
  BY <1>2, <1>3, <1>4, <1>5, <1>6, SMTT(30)

\* WriteResponse writes the first HEADERS of its stream.
LEMMA SeenResponse ==
    ASSUME TypeInv, OwnRequests, FramesInv, WriteResponse, lowered' = lowered
    PROVE  [Wire!Next]_(Wire!vars)
<1> DEFINE req == Head(conn_rx)
           frames == IF req.end_stream THEN {"headers", "end_stream"} ELSE {"headers"}
<1>1. /\ conn_rx # << >> /\ req.kind = "Response" /\ Write(req.id, frames)
      /\ Running /\ Running' = Running /\ credit' = credit /\ stream_credit' = stream_credit
  BY DEF WriteResponse, Take, Selecting, Running, loopVars
<1>2. /\ 1 \in DOMAIN conn_rx /\ req = conn_rx[1] /\ req \in ConnectionReq
  BY <1>1, HeadTail DEF TypeInv, TypeOK
<1>3. PICK id \in StreamIds, t \in Tasks :
          id = req.id /\ t = req.from /\ id = task[t].id
  BY <1>2 DEF ConnectionReq, OwnRequests, OwnRequest
<1>4. "headers" \notin wire[id]
  BY <1>1, <1>2, <1>3 DEF FramesInv, PlaceInOrder, Sent
<1>5. PICK end \in {{}, {"end_stream"}} : frames = {"headers"} \cup end
  OBVIOUS
<1> HIDE DEF req, frames
<1>6. wire' = [wire EXCEPT ![id] = @ \cup ({"headers"} \cup end)]
  BY <1>1, <1>3, <1>5 DEF Write
<1>7. HighestCredit' = HighestCredit
  BY <1>1 DEF HighestCredit
<1>8. Wire!Headers(id, end)
  BY <1>1, <1>4, <1>6, <1>7 DEF Wire!Headers, Wire!Add
<1> QED
  BY <1>8 DEF Wire!Next

\* WriteFrame writes DATA within both windows, between the HEADERS and the END_STREAM.
LEMMA SeenFrame ==
    ASSUME ConstantsAssumption, TypeInv, TypeInv', OwnRequests, Pool, Books, Balanced, LoweredType,
           FramesInv, \A t \in Tasks : Within(t), WriteFrame, lowered' = lowered
    PROVE  [Wire!Next]_(Wire!vars)
<1> DEFINE req == Head(conn_rx)
           frames == IF req.end_stream THEN {"data", "end_stream"} ELSE {"data"}
<1>1. /\ conn_rx # << >> /\ req.kind = "Frame" /\ Write(req.id, frames)
      /\ Running /\ Running' = Running /\ credit' = credit - req.amount
      /\ stream_credit' = [stream_credit EXCEPT ![req.id] = @ - req.amount]
  BY DEF WriteFrame, Take, Selecting, Running, loopVars
<1>2. /\ 1 \in DOMAIN conn_rx /\ req = conn_rx[1] /\ req \in ConnectionReq
      /\ conn_rx \in Seq(ConnectionReq) /\ Tail(conn_rx) \in Seq(ConnectionReq)
  BY <1>1, HeadTail DEF TypeInv, TypeOK
<1>3. PICK id \in StreamIds, t \in Tasks, n \in Nat :
          id = req.id /\ t = req.from /\ id = task[t].id /\ Used(t) /\ n = req.amount
  BY <1>2 DEF ConnectionReq, OwnRequests, OwnRequest
<1>4. "headers" \in wire[id] /\ "end_stream" \notin wire[id]
  <2>1. Sent(t, "headers", 1) /\ ~Sent(t, "end_stream", 1)
    BY <1>1, <1>2, <1>3 DEF FramesInv, PlaceInOrder
  <2>2. \A i \in DOMAIN conn_rx : ~(i < 1)
    BY <1>2
  <2> QED
    BY <1>3, <2>1, <2>2 DEF Sent
<1>5. PICK end \in {{}, {"end_stream"}} : frames = {"data"} \cup end
  OBVIOUS
<1>6. n <= credit
  BY <1>1, <1>3, FrameInCredit
<1>7. n <= HighestCredit[id]
  <2>1. InFrames(Tail(conn_rx), t)
            = InFrames(conn_rx, t) - IF req.kind = "Frame" /\ req.from = t
                                     THEN req.amount ELSE 0
    BY <1>1, <1>2, InFramesTail
  <2>2. PICK f \in Nat, g \in Nat, l \in Nat, h \in Int :
            /\ f = InFrames(conn_rx, t) /\ g = InFrames(Tail(conn_rx), t)
            /\ l = Lent(t) /\ h = HighestCredit[id]
    <3>1. InFrames(Tail(conn_rx), t) \in Nat
      BY <1>2, InFramesType
    <3> QED
      BY <1>3, <3>1, WithinType
  <2>3. g = f - n
    BY <1>1, <1>3, <2>1, <2>2
  <2>4. l + f <= h
    BY <1>3, <2>2 DEF Within, Due
  <2> QED
    BY <2>2, <2>3, <2>4
<1> HIDE DEF req, frames
<1>8. wire' = [wire EXCEPT ![id] = @ \cup ({"data"} \cup end)]
  BY <1>1, <1>3, <1>5 DEF Write
<1>9. credit' = credit - n /\ credit - credit' = n
  <2>1. credit \in Int
    BY DEF TypeInv, TypeOK
  <2> QED
    BY <1>1, <1>3, <2>1
<1>10. HighestCredit' = [HighestCredit EXCEPT ![id] = @ - n]
  <2>1. stream_credit \in [StreamIds -> Int] /\ lowered \in [StreamIds -> Nat]
    BY DEF TypeInv, TypeOK, LoweredType
  <2>2. HighestCredit' = [j \in StreamIds |-> stream_credit'[j] + lowered[j]]
    BY DEF HighestCredit
  <2>3. \A j \in StreamIds :
            stream_credit'[j] = IF j = id THEN stream_credit[j] - n ELSE stream_credit[j]
    BY <1>1, <1>3, <2>1
  <2>4. \A j \in StreamIds :
            stream_credit'[j] + lowered[j]
                = IF j = id THEN HighestCredit[j] - n ELSE HighestCredit[j]
    BY <2>1, <2>3 DEF HighestCredit
  <2>5. [HighestCredit EXCEPT ![id] = @ - n]
            = [j \in StreamIds |-> IF j = id THEN HighestCredit[j] - n ELSE HighestCredit[j]]
    BY DEF HighestCredit
  <2> QED
    BY <2>2, <2>4, <2>5
<1>11. Wire!Data(id, credit - credit', end)
  BY <1>1, <1>4, <1>6, <1>7, <1>8, <1>9, <1>10 DEF Wire!Data, Wire!Add
<1> QED
  BY <1>11 DEF Wire!Next

\* SETTINGS: the highest window of a stream is never lowered.
LEMMA SeenSettings ==
    ASSUME ConstantsAssumption, TypeInv, TypeInv', LoweredType, LoweredType', Running,
           NEW size \in InitialWindows, RecvSettings(size),
           \A id \in StreamIds :
               lowered'[id] = IF streams[id] # NoTask /\ Running'
                              THEN Below(lowered[id], initial_window_size' - initial_window_size)
                              ELSE lowered[id]
    PROVE  [Wire!Next]_(Wire!vars)
<1> DEFINE dif == initial_window_size' - initial_window_size
<1>1. credit' = credit /\ wire' = wire
  BY DEF RecvSettings, wireVars
<1>2. CASE ~Running'
  <2>1. stream_credit' = stream_credit
    BY <1>2 DEF RecvSettings, Running
  <2>2. lowered' = lowered
    <3>1. lowered \in [StreamIds -> Nat] /\ lowered' \in [StreamIds -> Nat]
      BY DEF LoweredType
    <3>2. \A id \in StreamIds : lowered'[id] = lowered[id]
      BY <1>2
    <3>3. /\ lowered = [id \in StreamIds |-> lowered[id]]
          /\ lowered' = [id \in StreamIds |-> lowered'[id]]
      BY <3>1
    <3>4. [id \in StreamIds |-> lowered'[id]] = [id \in StreamIds |-> lowered[id]]
      BY <3>2
    <3> QED
      BY <3>3, <3>4
  <2> QED
    BY <1>1, <1>2, <2>1, <2>2, SeenClose DEF HighestCredit
<1>3. CASE Running'
  <2>1. \A t \in Handled : Alive(t)
    BY <1>3 DEF RecvSettings, Close, Running
  <2>2. stream_credit' = [id \in StreamIds |->
            IF streams[id] # NoTask THEN stream_credit[id] + dif ELSE stream_credit[id]]
    BY <2>1 DEF RecvSettings
  <2>3. PICK d \in Int : d = dif
    <3>1. initial_window_size \in Nat /\ initial_window_size' \in Nat
      BY DEF TypeInv, TypeOK
    <3>2. dif \in Int
      BY <3>1
    <3> QED
      BY <3>2
  <2>4. ASSUME NEW id \in StreamIds
        PROVE  HighestCredit'[id] \in Int /\ HighestCredit'[id] >= HighestCredit[id]
    <3>1. PICK s \in Int, l \in Nat : s = stream_credit[id] /\ l = lowered[id]
      BY DEF TypeInv, TypeOK, LoweredType
    <3>2. HighestCredit[id] = s + l
      BY <3>1 DEF HighestCredit
    <3>3. HighestCredit'[id] = stream_credit'[id] + lowered'[id]
      BY DEF HighestCredit
    <3>4. CASE streams[id] # NoTask
      <4>1. HighestCredit'[id] = (s + d) + Below(l, d)
        BY <1>3, <2>2, <2>3, <3>1, <3>3, <3>4
      <4>2. (s + d) + Below(l, d) \in Int /\ (s + d) + Below(l, d) >= s + l
        BY DEF Below
      <4> QED
        BY <3>2, <4>1, <4>2
    <3>5. CASE streams[id] = NoTask
      BY <2>2, <3>1, <3>2, <3>3, <3>5
    <3> QED
      BY <3>4, <3>5
  <2> QED
    BY <1>1, <1>3, <2>4, SeenGrantStreams
<1> QED
  BY <1>2, <1>3

\* What the peer sends.
LEMMA SeenPeer ==
    ASSUME ConstantsAssumption, TypeInv, TypeInv', "REOPEN" \notin PeerSends, OwnStreams,
           OwnRequests, LoweredType, LoweredType', FramesInv, Running, Peer,
           initial_window_size' = initial_window_size => lowered' = lowered,
           \A id \in StreamIds :
               lowered'[id] = IF streams[id] # NoTask /\ Running'
                              THEN Below(lowered[id], initial_window_size' - initial_window_size)
                              ELSE lowered[id]
    PROVE  [Wire!Next]_(Wire!vars)
<1> USE DEF loopVars, windowVars, streamVars, shutdownVars, taskVars, peerVars, wireVars
<1>1. ASSUME credit' = credit, stream_credit' = stream_credit, wire' = wire,
             initial_window_size' = initial_window_size
      PROVE  [Wire!Next]_(Wire!vars)
  <2>1. HighestCredit' = HighestCredit
    BY <1>1 DEF HighestCredit
  <2>2. Running' \in BOOLEAN
    BY DEF Running
  <2> QED
    BY <1>1, <2>1, <2>2, SeenNothing, SeenClose
<1>2. ASSUME NEW id \in StreamIds, NEW kind \in PeerSends,
             RecvIllegalHeaders(id, kind) \/ RecvUndecodableHeaders(id) \/ RecvRstStream(id)
      PROVE  [Wire!Next]_(Wire!vars)
  BY <1>1, <1>2 DEF RecvIllegalHeaders, RecvUndecodableHeaders, RecvRstStream, Leave
<1>3. CASE RecvGoAway \/ ConnectionFails
  BY <1>1, <1>3 DEF RecvGoAway, ConnectionFails, Leave
<1>4. ASSUME NEW id \in StreamIds, ResetStream(id), credit' = credit,
             stream_credit' = stream_credit, initial_window_size' = initial_window_size
      PROVE  [Wire!Next]_(Wire!vars)
  <2>1. HighestCredit' = HighestCredit
    BY <1>4 DEF HighestCredit
  <2> QED
    BY <1>4, <2>1, SeenRst DEF ResetStream
<1>5. ASSUME NEW id \in StreamIds, NEW kind \in PeerSends, RecvRejectedHeaders(id, kind)
      PROVE  [Wire!Next]_(Wire!vars)
  BY <1>4, <1>5 DEF RecvRejectedHeaders
<1>6. ASSUME NEW id \in StreamIds, NEW kind \in PeerSends, NEW t \in Tasks,
             RecvRequest(id, kind, t)
      PROVE  [Wire!Next]_(Wire!vars)
  <2>1. /\ stream_credit' = [stream_credit EXCEPT ![id] = initial_window_size]
        /\ initial_window_size' = initial_window_size
        /\ credit' = credit /\ wire' = wire /\ Running' = Running
    BY <1>6 DEF RecvRequest, Sends, Running
  <2>2. id > biggest_open_stream
    BY <1>6, OpenOwn
  <2>3. "headers" \notin wire[id]
    BY <2>2 DEF FramesInv, OrderedFrames
  <2>4. ASSUME NEW j \in StreamIds
        PROVE  /\ HighestCredit'[j] \in Int
               /\ "headers" \in wire[j] => HighestCredit'[j] >= HighestCredit[j]
    <3>1. /\ stream_credit[j] \in Int /\ stream_credit'[j] \in Int /\ lowered[j] \in Nat
          /\ j # id => stream_credit'[j] = stream_credit[j]
      BY <2>1 DEF TypeInv, TypeOK, LoweredType
    <3>2. /\ HighestCredit[j] = stream_credit[j] + lowered[j]
          /\ HighestCredit'[j] = stream_credit'[j] + lowered[j]
      BY <2>1 DEF HighestCredit
    <3> QED
      BY <2>3, <3>1, <3>2
  <2> QED
    BY <2>1, <2>4, SeenGrantStreams
<1>7. ASSUME NEW n \in Increments, RecvGlobalWindowUpdate(n)
      PROVE  [Wire!Next]_(Wire!vars)
  <2>1. stream_credit' = stream_credit /\ wire' = wire
        /\ initial_window_size' = initial_window_size
    BY <1>7 DEF RecvGlobalWindowUpdate
  <2>2. CASE InI32(global_window + n)
    <3>1. credit' = credit + n /\ Running' = Running
      BY <1>7, <2>2 DEF RecvGlobalWindowUpdate, Running
    <3>2. n \in Nat /\ n > 0 /\ credit \in Int
      BY DEF ConstantsAssumption, TypeInv, TypeOK
    <3>3. credit' > credit
      BY <3>1, <3>2
    <3>4. HighestCredit' = HighestCredit
      BY <2>1 DEF HighestCredit
    <3> QED
      BY <2>1, <3>1, <3>3, <3>4, SeenGrant
  <2>3. CASE ~InI32(global_window + n)
    <3>1. credit' = credit
      BY <1>7, <2>3 DEF RecvGlobalWindowUpdate
    <3> QED
      BY <1>1, <2>1, <3>1
  <2> QED
    BY <2>2, <2>3
<1>8. ASSUME NEW n \in Increments, NEW id \in StreamIds, RecvStreamWindowUpdate(id, n)
      PROVE  [Wire!Next]_(Wire!vars)
  <2>1. credit' = credit /\ Running' = Running /\ initial_window_size' = initial_window_size
    BY <1>8 DEF RecvStreamWindowUpdate, Running
  <2>2. CASE streams[id] # NoTask /\ Alive(streams[id])
    <3>1. stream_credit' = [stream_credit EXCEPT ![id] = @ + n] /\ wire' = wire
      BY <1>8, <2>2 DEF RecvStreamWindowUpdate
    <3>2. n \in Nat
      BY DEF ConstantsAssumption
    <3>3. ASSUME NEW j \in StreamIds
          PROVE  HighestCredit'[j] \in Int /\ HighestCredit'[j] >= HighestCredit[j]
      <4>1. PICK s \in Int, l \in Nat : s = stream_credit[j] /\ l = lowered[j]
        BY DEF TypeInv, TypeOK, LoweredType
      <4>2. stream_credit'[j] = s \/ stream_credit'[j] = s + n
        BY <3>1, <4>1 DEF TypeInv, TypeOK
      <4>3. HighestCredit[j] = s + l /\ HighestCredit'[j] = stream_credit'[j] + l
        BY <2>1, <4>1 DEF HighestCredit
      <4> QED
        BY <3>2, <4>1, <4>2, <4>3
    <3> QED
      BY <2>1, <3>1, <3>3, SeenGrantStreams
  <2>3. CASE ~(streams[id] # NoTask /\ Alive(streams[id]))
    <3>1. stream_credit' = stream_credit /\ (ResetStream(id) \/ wire' = wire)
      BY <1>8, <2>3 DEF RecvStreamWindowUpdate
    <3> QED
      BY <1>1, <1>4, <2>1, <3>1
  <2> QED
    BY <2>2, <2>3
<1>9. ASSUME NEW size \in InitialWindows, RecvSettings(size)
      PROVE  [Wire!Next]_(Wire!vars)
  BY <1>9, SeenSettings
<1>10. ASSUME NEW id \in StreamIds, RecvUndecodableHeaders(id) \/ RecvRstStream(id)
       PROVE  [Wire!Next]_(Wire!vars)
  BY <1>1, <1>10 DEF RecvUndecodableHeaders, RecvRstStream, Leave
<1> QED
  BY <1>2, <1>3, <1>5, <1>6, <1>7, <1>8, <1>9, <1>10 DEF Peer

\* Every step of the connection and its tasks is one of H2Wire, or none.
LEMMA SeenStep ==
    ASSUME ConstantsAssumption, "REOPEN" \notin PeerSends, TypeInv, TypeInv', SendInv, WireInv,
           [HistoryNext]_<<vars, lowered>>
    PROVE  [Wire!Next]_(Wire!vars)
<1> USE DEF loopVars, windowVars, streamVars, shutdownVars, taskVars, peerVars, wireVars
<1>1. /\ LoweredType /\ LoweredType' /\ [Next]_vars
      /\ initial_window_size' = initial_window_size => lowered' = lowered
      /\ \A id \in StreamIds :
             lowered'[id] = IF streams[id] # NoTask /\ Running'
                            THEN Below(lowered[id], initial_window_size' - initial_window_size)
                            ELSE lowered[id]
  BY LoweredNext DEF WireInv
<1>2. CASE ~Running
  <2>1. UNCHANGED <<exit, credit, stream_credit, wire, initial_window_size>>
    BY <1>1, <1>2, SeenAfterEnd
  <2>2. HighestCredit' = HighestCredit /\ Running' = Running
    BY <1>1, <2>1 DEF HighestCredit, Running
  <2> QED
    BY <2>1, <2>2, SeenNothing
<1>3. CASE Running
  <2>1. /\ OwnStreams /\ OwnRequests /\ Pool /\ Books /\ Balanced
        /\ FramesInv /\ \A t \in Tasks : Within(t)
    BY <1>3 DEF SendInv, WireInv
  <2>2. ASSUME credit' = credit, stream_credit' = stream_credit, wire' = wire,
               initial_window_size' = initial_window_size
        PROVE  [Wire!Next]_(Wire!vars)
    <3>1. HighestCredit' = HighestCredit
      BY <1>1, <2>2 DEF HighestCredit
    <3>2. Running' \in BOOLEAN
      BY DEF Running
    <3> QED
      BY <1>3, <2>2, <3>1, <3>2, SeenNothing, SeenClose
  <2>3. CASE Peer
    BY <1>1, <1>3, <2>1, <2>3, SeenPeer
  <2>4. CASE AnnounceShutdown \/ NoticeShutdown \/ FlushWriteBuffer \/ UNCHANGED vars
    BY <2>2, <2>4 DEF AnnounceShutdown, NoticeShutdown, StopAccepting, FlushWriteBuffer, vars
  <2>5. CASE WriteResponse
    <3>1. initial_window_size' = initial_window_size
      BY <2>5 DEF WriteResponse
    <3> QED
      BY <1>1, <2>1, <2>5, <3>1, SeenResponse
  <2>6. CASE WriteFrame
    <3>1. initial_window_size' = initial_window_size
      BY <2>6 DEF WriteFrame
    <3> QED
      BY <1>1, <2>1, <2>6, <3>1, SeenFrame
  <2>7. CASE GetWindow \/ PutWindow \/ StreamClosed
    BY <2>2, <2>7 DEF GetWindow, PutWindow, StreamClosed
  <2>8. CASE StreamClosing
    <3>1. /\ conn_rx # << >> /\ credit' = credit /\ stream_credit' = stream_credit
          /\ initial_window_size' = initial_window_size
          /\ wire' = wire \/ ResetStream(Head(conn_rx).id)
      BY <2>8 DEF StreamClosing, Take
    <3>2. PICK id \in StreamIds : id = Head(conn_rx).id
      <4>1. Head(conn_rx) \in ConnectionReq
        BY <3>1, HeadTail DEF TypeInv, TypeOK
      <4> QED
        BY <4>1 DEF ConnectionReq
    <3>3. HighestCredit' = HighestCredit
      BY <1>1, <3>1 DEF HighestCredit
    <3>4. ASSUME ResetStream(id) PROVE [Wire!Next]_(Wire!vars)
      BY <1>3, <3>1, <3>3, <3>4, SeenRst DEF ResetStream
    <3> QED
      BY <2>2, <3>1, <3>2, <3>4
  <2>9. CASE DistributeWindow
    BY <2>2, <2>9 DEF DistributeWindow, DropWindowRequest, GiveWindow
  <2>10. ASSUME NEW t \in Tasks, StreamTask(t) PROVE [Wire!Next]_(Wire!vars)
    <3>1. TaskStep
      BY <1>3, <2>10, TaskSteps DEF OneTask
    <3> QED
      BY <2>2, <3>1 DEF TaskStep
  <2> QED
    BY <1>1, <2>3, <2>4, <2>5, <2>6, <2>7, <2>8, <2>9, <2>10 DEF Next, Streams
<1> QED
  BY <1>2, <1>3

\* The connection keeps the promise of H2Wire, whatever the number of streams and tasks and
\* the sizes of windows, bodies and chunks: HEADERS, DATA and END_STREAM come in order, and
\* DATA within the window of the connection and the highest one the peer gave its stream.
THEOREM WireKept ==
    ASSUME "REOPEN" \notin PeerSends
    PROVE  HistorySpec => WireSpec
<1>1. ASSUME ConstantsAssumption, HistoryInit PROVE Wire!Init
  <2>1. /\ exit = "running" /\ credit = GlobalWindow
        /\ stream_credit = [id \in StreamIds |-> StreamWindow]
        /\ wire = [id \in StreamIds |-> {}] /\ lowered = [id \in StreamIds |-> 0]
    BY <1>1 DEF HistoryInit, Init
  <2>2. GlobalWindow \in Nat /\ StreamWindow \in Nat
    BY <1>1 DEF ConstantsAssumption
  <2>3. \A id \in StreamIds : stream_credit[id] + lowered[id] \in Nat
    BY <2>1, <2>2
  <2>4. HighestCredit \in [StreamIds -> Nat]
    BY <2>3 DEF HighestCredit
  <2> QED
    BY <2>1, <2>2, <2>4 DEF Wire!Init, Running
<1>2. HistoryInit => Wire!Init
  BY <1>1, ConstantsAssumption
<1>3. TypeInv /\ TypeInv' /\ SendInv /\ WireInv /\ [HistoryNext]_<<vars, lowered>>
      => [Wire!Next]_(Wire!vars)
  BY ConstantsAssumption, SeenStep
<1>4. HistorySpec => [](TypeInv /\ SendInv /\ ShutdownInv /\ WireInv)
  BY HistoryInvariant
<1> QED
  BY <1>2, <1>3, <1>4, PTL DEF HistorySpec, WireSpec, Wire!Spec
=============================================================================
