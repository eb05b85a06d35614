------------------------ MODULE H2RequestBody_proofs ------------------------
(***************************************************************************)
(* Proofs about H2RequestBody, for any number of streams, any windows and  *)
(* any frames: types, that both receive windows are accounted for, and     *)
(* that a peer that keeps to them is not accused.                          *)
(***************************************************************************)
EXTENDS H2RequestBody, Sums_proofs

Tasks == [at : {"unused", "serving", "ending", "exited"}, peer_window : Nat,
          error : {"none", "flow control", "no body"}]

States == [state : {"none", "held", "returned", "draining"}, size : Nat \cup {NoSize},
           read : Nat, len : Nat, unread : Nat]

\* A task that reports an error has one.
Failures ==
    \A i \in DOMAIN conn_rx :
        conn_rx[i].kind = "StreamClosing" => task[conn_rx[i].id].error # "none"

TypeInv == TypeOK /\ Failures

-----------------------------------------------------------------------------
(* Types. *)

LEMMA Constants ==
    /\ IsFiniteSet(StreamIds)
    /\ MaxInt \in Nat /\ GlobalPeerWindow \in Nat /\ PeerWindow \in Nat
    /\ GlobalPeerWindow <= MaxInt /\ PeerWindow <= MaxInt
    /\ Sizes \subseteq Nat /\ NoSize \notin Nat
    /\ \A f \in Frames : f[1] \in Nat /\ f[2] \in Nat
    /\ \A want \in 1..MaxRead : want \in Nat
<1>1. MaxInt \in Nat
  BY RequestBodyAssumption
<1>2. GlobalPeerWindow \in Nat /\ GlobalPeerWindow <= MaxInt
  BY RequestBodyAssumption
<1>3. PeerWindow \in Nat /\ PeerWindow <= MaxInt
  BY RequestBodyAssumption
<1>4. \A f \in Frames : f[1] \in Nat /\ f[2] \in Nat
  BY RequestBodyAssumption
<1>5. \A want \in 1..MaxRead : want \in Nat
  BY RequestBodyAssumption
<1> QED
  BY <1>1, <1>2, <1>3, <1>4, <1>5, RequestBodyAssumption

\* TypeOK variable by variable.
LEMMA Types ==
    ASSUME TypeOK
    PROVE  /\ peer_window \in Nat /\ peer_window <= MaxInt
           /\ conn_rx \in Seq(Amounts)
           /\ task \in [StreamIds -> Tasks]
           /\ rx \in [StreamIds -> Seq(Nat)] /\ window_rx \in [StreamIds -> Seq(Nat)]
           /\ background \in [StreamIds -> Seq(Nat)]
           /\ body \in [StreamIds -> States]
           /\ credit \in Int /\ stream_credit \in [StreamIds -> Int]
           /\ overdrawn \in BOOLEAN /\ padding \in [StreamIds -> Nat]
<1>1. peer_window \in 0..MaxInt
  BY DEF TypeOK
<1>2. peer_window \in Nat /\ peer_window <= MaxInt
  BY <1>1, Constants
<1> QED
  BY <1>2 DEF TypeOK, Tasks, States

\* Every element of the queue is a message.
LEMMA Queued ==
    ASSUME TypeOK, NEW i \in DOMAIN conn_rx
    PROVE  /\ conn_rx[i] \in Amounts /\ conn_rx[i].id \in StreamIds /\ conn_rx[i].amount \in Nat
           /\ conn_rx[i].kind \in {"UpdatePeerWindow", "StreamClosing", "StreamClosed"}
<1>1. conn_rx[i] \in Amounts
  BY Types
<1> QED
  BY <1>1 DEF Amounts

LEMMA Interval == \A n, m \in Nat : n <= m => n \in 0..m
OBVIOUS

LEMMA InitTypeInv == Init => TypeInv
<1> SUFFICES ASSUME Init PROVE TypeInv
  OBVIOUS
<1>1. peer_window \in Nat /\ peer_window <= MaxInt /\ credit \in Int
  BY Constants DEF Init
<1>2. task \in [StreamIds -> Tasks]
  BY DEF Init, Tasks
<1>3. body \in [StreamIds -> States]
  BY DEF Init, NoBody, States
<1>4. stream_credit \in [StreamIds -> Int]
  BY Constants DEF Init
<1>5. conn_rx \in Seq(Amounts) /\ Failures
  BY DEF Init, Failures
<1>6. /\ rx \in [StreamIds -> Seq(Nat)] /\ window_rx \in [StreamIds -> Seq(Nat)]
      /\ background \in [StreamIds -> Seq(Nat)]
  BY DEF Init
<1>7. /\ exit = "running" /\ streams = {} /\ overdrawn = FALSE
      /\ padding \in [StreamIds -> Nat]
  BY DEF Init
<1>8. TypeOK
  BY <1>1, <1>2, <1>3, <1>4, <1>5, <1>6, <1>7, Interval, Constants DEF TypeOK, Tasks, States
<1> QED
  BY <1>5, <1>8 DEF TypeInv

\* A message is put into a queue, or taken from it.
LEMMA Put ==
    ASSUME NEW q \in [StreamIds -> Seq(Nat)], NEW id \in StreamIds, NEW n \in Nat
    PROVE  [q EXCEPT ![id] = Append(@, n)] \in [StreamIds -> Seq(Nat)]
OBVIOUS

LEMMA Get ==
    ASSUME NEW q \in [StreamIds -> Seq(Nat)], NEW id \in StreamIds, q[id] # << >>
    PROVE  [q EXCEPT ![id] = Tail(@)] \in [StreamIds -> Seq(Nat)] /\ Head(q[id]) \in Nat
<1>1. Tail(q[id]) \in Seq(Nat) /\ Head(q[id]) \in Nat
  OBVIOUS
<1> QED
  BY <1>1

LEMMA Gain ==
    ASSUME NEW c \in [StreamIds -> Int], NEW id \in StreamIds, NEW n \in Int
    PROVE  [c EXCEPT ![id] = @ + n] \in [StreamIds -> Int] /\ [c EXCEPT ![id] = @ - n] \in [StreamIds -> Int]
OBVIOUS

LEMMA UpdateWindowType ==
    ASSUME window_rx \in [StreamIds -> Seq(Nat)], NEW id \in StreamIds, NEW n \in Nat,
           UpdateWindow(id, n)
    PROVE  window_rx' \in [StreamIds -> Seq(Nat)]
BY DEF UpdateWindow

\* What is added to the queue of the connection.
LEMMA Sent ==
    ASSUME conn_rx \in Seq(Amounts), NEW m \in Amounts, conn_rx' = Append(conn_rx, m)
    PROVE  /\ conn_rx' \in Seq(Amounts)
           /\ \A i \in DOMAIN conn_rx' : \/ i \in DOMAIN conn_rx /\ conn_rx'[i] = conn_rx[i]
                                         \/ conn_rx'[i] = m
OBVIOUS

LEMMA OneMore ==
    ASSUME NEW q \in Seq(Amounts), NEW m \in Amounts
    PROVE  q \o <<m>> = Append(q, m)
OBVIOUS

LEMMA Longer ==
    ASSUME NEW q \in Seq(Amounts), NEW m \in Amounts
    PROVE  Append(q, m) \in Seq(Amounts)
OBVIOUS

LEMMA Taken ==
    ASSUME conn_rx \in Seq(Amounts), conn_rx # << >>, conn_rx' = Tail(conn_rx)
    PROVE  /\ conn_rx' \in Seq(Amounts) /\ Head(conn_rx) \in Amounts
           /\ Head(conn_rx) = conn_rx[1] /\ 1 \in DOMAIN conn_rx
           /\ \A i \in DOMAIN conn_rx' : i + 1 \in DOMAIN conn_rx /\ conn_rx'[i] = conn_rx[i + 1]
OBVIOUS

\* Only the error and the place of a task matter to what is reported of it.
LEMMA SameErrors ==
    ASSUME TypeOK, Failures, conn_rx' = conn_rx,
           \A j \in StreamIds : task[j].error # "none" => task'[j].error # "none"
    PROVE  Failures'
BY Queued DEF Failures

LEMMA TakenErrors ==
    ASSUME TypeOK, Failures, conn_rx # << >>, conn_rx' = Tail(conn_rx), task' = task
    PROVE  Failures'
<1>1. \A i \in DOMAIN conn_rx' : i + 1 \in DOMAIN conn_rx /\ conn_rx'[i] = conn_rx[i + 1]
  BY Types, Taken
<1> QED
  BY <1>1 DEF Failures

\* What the handler takes is no more than is there.
LEMMA HandOutType ==
    ASSUME body \in [StreamIds -> States], window_rx \in [StreamIds -> Seq(Nat)],
           NEW id \in StreamIds, NEW want \in Nat, Remaining(id, want) > 0,
           NEW len \in Nat, NEW unread \in Nat, HandOut(id, len, unread, want)
    PROVE  /\ body' \in [StreamIds -> States]
           /\ window_rx' \in [StreamIds -> Seq(Nat)]
<1> DEFINE amount == IF unread < Remaining(id, want) THEN unread ELSE Remaining(id, want)
<1>1. /\ body[id] \in States /\ body[id].size \in Nat \cup {NoSize}
      /\ body[id].read \in Nat
  BY DEF States
<1>2. Remaining(id, want) \in Nat
  BY <1>1, Constants DEF Remaining
<1>3. amount \in Nat /\ unread - amount \in Nat
  BY <1>2
<1>4. body' = [body EXCEPT ![id].read = IF body[id].size = NoSize THEN 0 ELSE @ + amount,
                           ![id].len = IF amount = unread THEN 0 ELSE len,
                           ![id].unread = unread - amount]
  BY DEF HandOut
<1>5. window_rx' = window_rx \/ UpdateWindow(id, len)
  BY DEF HandOut
<1> HIDE DEF amount
<1>6. PICK r \in Nat, l \in Nat, u \in Nat :
          body' = [body EXCEPT ![id].read = r, ![id].len = l, ![id].unread = u]
  <2>1. /\ (IF body[id].size = NoSize THEN 0 ELSE body[id].read + amount) \in Nat
        /\ (IF amount = unread THEN 0 ELSE len) \in Nat
    BY <1>1, <1>3
  <2> QED
    BY <1>3, <1>4, <2>1
<1>7. body' \in [StreamIds -> States]
  BY <1>1, <1>6 DEF States
<1>8. window_rx' \in [StreamIds -> Seq(Nat)]
  BY <1>5, UpdateWindowType
<1> QED
  BY <1>7, <1>8

\* The actions of the connection task.
LEMMA ConnectionTypes ==
    ASSUME TypeOK, Failures, Connection
    PROVE  TypeOK' /\ Failures'
<1>1. /\ conn_rx # << >> /\ conn_rx' = Tail(conn_rx)
      /\ streams' \in {streams, streams \ {Head(conn_rx).id}}
      /\ UNCHANGED <<task, rx, window_rx, bodyVars, overdrawn, padding>>
  BY DEF Connection, UpdatePeerWindow, StreamFailed, StreamClosed, peerVars
<1>2. /\ conn_rx' \in Seq(Amounts) /\ Head(conn_rx) \in Amounts
      /\ Head(conn_rx) = conn_rx[1] /\ 1 \in DOMAIN conn_rx
  BY <1>1, Types, Taken
<1>3. Head(conn_rx).amount \in Nat /\ Head(conn_rx).id \in StreamIds
  BY <1>2, Queued
<1>4. Failures'
  BY <1>1, TakenErrors
<1>5. /\ exit' \in {"running", "stream closed", "flow control", "stream error",
                    "overflow", "no body"}
      /\ peer_window' \in Nat /\ peer_window' <= MaxInt
      /\ credit' \in Int /\ stream_credit' \in [StreamIds -> Int]
  <2>1. /\ exit \in {"running", "stream closed", "flow control", "stream error",
                     "overflow", "no body"}
        /\ peer_window \in Nat /\ peer_window <= MaxInt /\ MaxInt \in Nat
        /\ credit \in Int /\ stream_credit \in [StreamIds -> Int]
    BY Types, Constants DEF TypeOK
  <2>2. CASE UpdatePeerWindow
    <3>1. PICK n \in Nat, id \in StreamIds : n = Head(conn_rx).amount /\ id = Head(conn_rx).id
      BY <1>3
    <3>2. CASE peer_window + n > MaxInt
      BY <2>1, <2>2, <3>1, <3>2 DEF UpdatePeerWindow
    <3>3. CASE ~(peer_window + n > MaxInt)
      <4>1. /\ peer_window' = peer_window + n /\ credit' = credit + n
            /\ stream_credit' = [stream_credit EXCEPT ![id] = @ + n] /\ exit' = exit
        BY <2>2, <3>1, <3>3 DEF UpdatePeerWindow
      <4>0. n \in Int
        OBVIOUS
      <4>2. stream_credit' \in [StreamIds -> Int]
        BY <2>1, <4>0, <4>1, Gain
      <4>3. \A w, m \in Nat : \A c \in Int : ~(w + n > m) => w + n \in Nat /\ w + n <= m /\ c + n \in Int
        OBVIOUS
      <4>4. peer_window' \in Nat /\ peer_window' <= MaxInt /\ credit' \in Int
        BY <2>1, <3>3, <4>1, <4>3
      <4> QED
        BY <2>1, <4>1, <4>2, <4>4
    <3> QED
      BY <3>2, <3>3
  <2>3. CASE StreamFailed
    <3>1. exit' = task[Head(conn_rx).id].error /\ task[Head(conn_rx).id].error # "none"
      BY <1>2, <2>3 DEF StreamFailed, Failures
    <3>2. task[Head(conn_rx).id] \in Tasks
      BY <1>3, Types
    <3>3. exit' \in {"flow control", "no body"}
      BY <3>1, <3>2 DEF Tasks
    <3> QED
      BY <2>1, <2>3, <3>3 DEF StreamFailed, peerVars
  <2>4. CASE StreamClosed
    BY <2>1, <2>4 DEF StreamClosed, peerVars
  <2> QED
    BY <2>2, <2>3, <2>4 DEF Connection
<1>6. /\ streams' \subseteq StreamIds
      /\ task' \in [StreamIds -> Tasks]
      /\ rx' \in [StreamIds -> Seq(Nat)] /\ window_rx' \in [StreamIds -> Seq(Nat)]
      /\ background' \in [StreamIds -> Seq(Nat)]
      /\ body' \in [StreamIds -> States]
      /\ overdrawn' \in BOOLEAN /\ padding' \in [StreamIds -> Nat]
  BY <1>1, Types DEF TypeOK, bodyVars
<1>7. peer_window' \in 0..MaxInt
  BY <1>5, Interval, Constants
<1>8. TypeOK'
  BY <1>2, <1>5, <1>6, <1>7 DEF TypeOK, Tasks, States
<1> QED
  BY <1>4, <1>8

\* The actions of a stream, of its peer, of its task and of its handler, one by one.
LEMMA OpenTypes ==
    ASSUME TypeOK, Failures, NEW id \in StreamIds, OpenStream(id)
    PROVE  TypeOK' /\ Failures'
<1>1. task' \in [StreamIds -> Tasks] /\ \A j \in StreamIds : task'[j].error = task[j].error
  <2>1. task \in [StreamIds -> Tasks] /\ PeerWindow \in Nat
    BY Types, Constants
  <2>2. task' = [task EXCEPT ![id].at = "serving", ![id].peer_window = PeerWindow]
    BY DEF OpenStream
  <2> QED
    BY <2>1, <2>2 DEF Tasks
<1>2. body' \in [StreamIds -> States]
  <2>1. body \in [StreamIds -> States]
    BY Types
  <2>2. CASE body' = body
    BY <2>1, <2>2
  <2>3. ASSUME NEW size \in Sizes \cup {NoSize},
               body' = [body EXCEPT ![id].state = "held", ![id].size = size]
        PROVE  body' \in [StreamIds -> States]
    <3>1. size \in Nat \cup {NoSize}
      BY Constants
    <3> QED
      BY <2>1, <2>3, <3>1 DEF States
  <2> QED
    BY <2>2, <2>3 DEF OpenStream
<1>3. Failures'
  BY <1>1, SameErrors DEF OpenStream
<1>4. TypeOK'
  BY <1>1, <1>2 DEF TypeOK, OpenStream, peerVars, Tasks, States
<1> QED
  BY <1>3, <1>4

\* What the peer counts.
LEMMA PayTypes ==
    ASSUME TypeOK, NEW id \in StreamIds, NEW n \in Nat, NEW pad \in Nat, Pay(id, n, pad)
    PROVE  /\ credit' \in Int /\ stream_credit' \in [StreamIds -> Int]
           /\ overdrawn' \in BOOLEAN /\ padding' \in [StreamIds -> Nat]
<1>1. /\ credit \in Int /\ stream_credit \in [StreamIds -> Int] /\ overdrawn \in BOOLEAN
      /\ padding \in [StreamIds -> Nat]
  BY Types
<1>2. PICK m \in Int : m = n + pad
  OBVIOUS
<1>3. credit' = credit - m /\ stream_credit' = [stream_credit EXCEPT ![id] = @ - m]
  BY <1>2 DEF Pay
<1>4. overdrawn' \in BOOLEAN
  BY <1>1 DEF Pay
<1>5. padding' \in [StreamIds -> Nat]
  <2>1. padding' = [padding EXCEPT ![id] = @ + pad]
    BY DEF Pay
  <2> QED
    BY <1>1, <2>1
<1>6. stream_credit' \in [StreamIds -> Int]
  BY <1>1, <1>3, Gain
<1>7. credit' \in Int
  BY <1>1, <1>3
<1> QED
  BY <1>4, <1>5, <1>6, <1>7

LEMMA DataTypes ==
    ASSUME TypeOK, Failures, NEW id \in StreamIds, NEW n \in Nat, NEW pad \in Nat,
           RecvData(id, n, pad)
    PROVE  TypeOK' /\ Failures'
<1>1. /\ credit' \in Int /\ stream_credit' \in [StreamIds -> Int]
      /\ overdrawn' \in BOOLEAN /\ padding' \in [StreamIds -> Nat]
  BY PayTypes DEF RecvData
<1>2. /\ exit' \in {"running", "stream closed", "flow control", "stream error",
                    "overflow", "no body"}
      /\ peer_window' \in Nat /\ peer_window' <= MaxInt /\ rx' \in [StreamIds -> Seq(Nat)]
  <2>1. /\ exit \in {"running", "stream closed", "flow control", "stream error",
                     "overflow", "no body"}
        /\ peer_window \in Nat /\ peer_window <= MaxInt /\ MaxInt \in Nat
        /\ rx \in [StreamIds -> Seq(Nat)]
    BY Types, Constants DEF TypeOK
  <2>2. \/ Refuse("stream closed") \/ Refuse("flow control") \/ Refuse("stream error")
        \/ ~(n > peer_window) /\ Receive(id, n)
    BY DEF RecvData
  <2>3. CASE Refuse("stream closed") \/ Refuse("flow control") \/ Refuse("stream error")
    BY <2>1, <2>3 DEF Refuse
  <2>4. CASE ~(n > peer_window) /\ Receive(id, n)
    <3>1. rx' \in [StreamIds -> Seq(Nat)]
      BY <2>1, <2>4, Put DEF Receive
    <3>2. \A w, m \in Nat : ~(n > w) /\ w <= m => w - n \in Nat /\ w - n <= m
      OBVIOUS
    <3>3. peer_window' \in Nat /\ peer_window' <= MaxInt
      BY <2>1, <2>4, <3>2 DEF Receive
    <3> QED
      BY <2>1, <2>4, <3>1, <3>3 DEF Receive
  <2> QED
    BY <2>2, <2>3, <2>4
<1>3. peer_window' \in 0..MaxInt
  BY <1>2, Interval, Constants
<1>4. Failures'
  BY SameErrors DEF RecvData
<1>5. TypeOK'
  BY <1>1, <1>2, <1>3 DEF TypeOK, RecvData, bodyVars
<1> QED
  BY <1>4, <1>5

LEMMA StreamTypes ==
    ASSUME TypeOK, Failures, NEW id \in StreamIds, Stream(id)
    PROVE  TypeOK' /\ Failures'
<1>0. /\ task \in [StreamIds -> Tasks] /\ task[id] \in Tasks /\ task[id].peer_window \in Nat
      /\ rx \in [StreamIds -> Seq(Nat)] /\ window_rx \in [StreamIds -> Seq(Nat)]
      /\ background \in [StreamIds -> Seq(Nat)] /\ conn_rx \in Seq(Amounts)
  BY Types DEF Tasks
<1>1. CASE HandleRequestBody(id)
  <2>1. PICK n \in Nat : n = Head(rx[id]) /\ rx' \in [StreamIds -> Seq(Nat)]
    BY <1>0, <1>1, Get DEF HandleRequestBody
  <2>2. /\ task' \in [StreamIds -> Tasks] /\ background' \in [StreamIds -> Seq(Nat)]
        /\ \A j \in StreamIds : task[j].error # "none" => task'[j].error # "none"
    <3>1. ASSUME NEW e \in {"flow control", "no body"}, Fails(id, e)
          PROVE  /\ task' \in [StreamIds -> Tasks] /\ background' \in [StreamIds -> Seq(Nat)]
                 /\ \A j \in StreamIds : task[j].error # "none" => task'[j].error # "none"
      BY <1>0, <3>1 DEF Fails, Tasks
    <3>2. CASE PassOn(id, n) /\ ~(n > task[id].peer_window)
      <4>1. background' \in [StreamIds -> Seq(Nat)]
        BY <1>0, <3>2, Put DEF PassOn
      <4>2. PICK w \in Nat : w = task[id].peer_window - n
        BY <1>0, <3>2
      <4>3. task' = [task EXCEPT ![id].peer_window = w]
        BY <3>2, <4>2 DEF PassOn
      <4> QED
        BY <1>0, <4>1, <4>3 DEF Tasks
    <3> QED
      BY <1>1, <2>1, <3>1, <3>2 DEF HandleRequestBody
  <2>3. Failures'
    BY <1>1, <2>2, SameErrors DEF HandleRequestBody
  <2>4. TypeOK'
    BY <1>1, <2>1, <2>2 DEF HandleRequestBody, TypeOK, Tasks, States, connVars, peerVars
  <2> QED
    BY <2>3, <2>4
<1>2. CASE ForwardWindow(id)
  <2>1. PICK n \in Nat : n = Head(window_rx[id]) /\ window_rx' \in [StreamIds -> Seq(Nat)]
    BY <1>0, <1>2, Get DEF ForwardWindow
  <2>2. /\ task' \in [StreamIds -> Tasks]
        /\ \A j \in StreamIds : task'[j].error = task[j].error
    <3>1. PICK w \in Nat : w = task[id].peer_window + n
      BY <1>0
    <3>2. task' = [task EXCEPT ![id].peer_window = w]
      BY <1>2, <2>1, <3>1 DEF ForwardWindow
    <3> QED
      BY <1>0, <3>2 DEF Tasks
  <2> DEFINE m == [kind |-> "UpdatePeerWindow", id |-> id, amount |-> n]
  <2>3. m \in Amounts /\ conn_rx' = Append(conn_rx, m) /\ m.kind # "StreamClosing"
    BY <1>2, <2>1 DEF ForwardWindow, Amounts
  <2> HIDE DEF m
  <2>4. /\ conn_rx' \in Seq(Amounts)
        /\ \A i \in DOMAIN conn_rx' : \/ i \in DOMAIN conn_rx /\ conn_rx'[i] = conn_rx[i]
                                      \/ conn_rx'[i] = m
    BY <1>0, <2>3, Sent
  <2>5. Failures'
    <3> SUFFICES ASSUME NEW i \in DOMAIN conn_rx', conn_rx'[i].kind = "StreamClosing"
                 PROVE  task'[conn_rx'[i].id].error # "none"
      BY DEF Failures
    <3>1. i \in DOMAIN conn_rx /\ conn_rx'[i] = conn_rx[i]
      BY <2>3, <2>4
    <3>2. conn_rx[i].id \in StreamIds
      BY <3>1, Queued
    <3> QED
      BY <2>2, <3>1, <3>2 DEF Failures
  <2>6. TypeOK'
    BY <1>2, <2>1, <2>2, <2>4 DEF ForwardWindow, TypeOK, Tasks, connVars, bodyVars, peerVars
  <2> QED
    BY <2>5, <2>6
<1>3. CASE Finish(id)
  <2>1. /\ task' \in [StreamIds -> Tasks]
        /\ \A j \in StreamIds : task'[j].error = task[j].error
    BY <1>0, <1>3 DEF Finish, Tasks
  <2>2. Failures'
    BY <1>3, <2>1, SameErrors DEF Finish
  <2>3. TypeOK'
    BY <1>3, <2>1 DEF Finish, TypeOK, Tasks, connVars, bodyVars, peerVars
  <2> QED
    BY <2>2, <2>3
<1>4. CASE Exit(id)
  <2>1. /\ task' \in [StreamIds -> Tasks]
        /\ \A j \in StreamIds : task'[j].error = task[j].error
    BY <1>0, <1>4 DEF Exit, Tasks
  <2>2. rx' \in [StreamIds -> Seq(Nat)] /\ window_rx' \in [StreamIds -> Seq(Nat)]
    BY <1>0, <1>4 DEF Exit
  <2>3. conn_rx' \in Seq(Amounts) /\ Failures'
    <3> DEFINE m == [kind |-> "StreamClosing", id |-> id, amount |-> 0]
               c == [kind |-> "StreamClosed", id |-> id, amount |-> 0]
    <3>1. m \in Amounts /\ c \in Amounts /\ c.kind # "StreamClosing" /\ m.id = id
      BY DEF Amounts
    <3>2. \/ task[id].error = "none" /\ conn_rx' = conn_rx \o << >> \o <<c>>
          \/ task[id].error # "none" /\ conn_rx' = conn_rx \o <<m>> \o <<c>>
      BY <1>4 DEF Exit
    <3> HIDE DEF m, c
    <3>3. /\ conn_rx' \in Seq(Amounts)
          /\ \A i \in DOMAIN conn_rx' : \/ i \in DOMAIN conn_rx /\ conn_rx'[i] = conn_rx[i]
                                        \/ task[id].error # "none" /\ conn_rx'[i] = m
                                        \/ conn_rx'[i] = c
      <4>1. CASE task[id].error = "none" /\ conn_rx' = conn_rx \o << >> \o <<c>>
        <5>1. conn_rx' = Append(conn_rx, c)
          BY <1>0, <4>1
        <5> QED
          BY <1>0, <3>1, <5>1, Sent
      <4>2. CASE task[id].error # "none" /\ conn_rx' = conn_rx \o <<m>> \o <<c>>
        <5>1. conn_rx' = Append(Append(conn_rx, m), c)
          BY <1>0, <3>1, <4>2, OneMore, Longer
        <5> QED
          BY <1>0, <3>1, <4>2, <5>1
      <4> QED
        BY <3>2, <4>1, <4>2
    <3>4. ASSUME NEW i \in DOMAIN conn_rx', conn_rx'[i].kind = "StreamClosing"
          PROVE  task'[conn_rx'[i].id].error # "none"
      <4>1. CASE i \in DOMAIN conn_rx /\ conn_rx'[i] = conn_rx[i]
        <5>1. conn_rx[i].id \in StreamIds
          BY <4>1, Queued
        <5> QED
          BY <2>1, <3>4, <4>1, <5>1 DEF Failures
      <4>2. CASE task[id].error # "none" /\ conn_rx'[i] = m
        BY <2>1, <3>1, <4>2
      <4> QED
        BY <3>1, <3>3, <3>4, <4>1, <4>2
    <3> QED
      BY <3>3, <3>4 DEF Failures
  <2>4. TypeOK'
    BY <1>4, <2>1, <2>2, <2>3 DEF Exit, TypeOK, Tasks, connVars, bodyVars, peerVars
  <2> QED
    BY <2>3, <2>4
<1> QED
  BY <1>1, <1>2, <1>3, <1>4 DEF Stream

LEMMA ReaderTypes ==
    ASSUME TypeOK, Failures, NEW id \in StreamIds, Handler(id) \/ Drain(id)
    PROVE  TypeOK' /\ Failures'
<1>0. /\ body \in [StreamIds -> States] /\ window_rx \in [StreamIds -> Seq(Nat)]
      /\ background \in [StreamIds -> Seq(Nat)]
      /\ body[id].len \in Nat /\ body[id].unread \in Nat
  BY Types DEF States
<1>1. ASSUME NEW want \in 1..MaxRead, Read(id, want)
      PROVE  /\ body' \in [StreamIds -> States] /\ window_rx' \in [StreamIds -> Seq(Nat)]
             /\ background' \in [StreamIds -> Seq(Nat)]
  <2>1. want \in Nat /\ Remaining(id, want) > 0
    BY <1>1, Constants DEF Read
  <2>2. CASE HandOut(id, body[id].len, body[id].unread, want) /\ background' = background
    BY <1>0, <2>1, <2>2, HandOutType
  <2>3. CASE background[id] # << >> /\ background' = [background EXCEPT ![id] = Tail(@)]
    <3>1. PICK n \in Nat : n = Head(background[id]) /\ background' \in [StreamIds -> Seq(Nat)]
      BY <1>0, <2>3, Get
    <3>2. CASE HandOut(id, n, n, want)
      BY <1>0, <2>1, <3>1, <3>2, HandOutType
    <3>3. CASE UNCHANGED <<body, window_rx>>
      BY <1>0, <3>1, <3>3
    <3>4. CASE body[id].unread > 0
      BY <1>0, <1>1, <2>1, <3>4, HandOutType DEF Read
    <3> QED
      BY <1>1, <3>1, <3>2, <3>3, <3>4 DEF Read
  <2> QED
    BY <1>1, <2>2, <2>3 DEF Read
<1>2. ASSUME DropBody(id)
      PROVE  /\ body' \in [StreamIds -> States] /\ window_rx' \in [StreamIds -> Seq(Nat)]
             /\ background' = background
  <2>1. body' \in [StreamIds -> States]
    BY <1>0, <1>2, ZenonT(30) DEF DropBody, States
  <2>2. window_rx' = window_rx \/ UpdateWindow(id, body[id].len)
    BY <1>2 DEF DropBody
  <2> QED
    BY <1>0, <1>2, <2>1, <2>2, UpdateWindowType DEF DropBody
<1>3. ASSUME Drain(id)
      PROVE  /\ body' = body /\ window_rx' \in [StreamIds -> Seq(Nat)]
             /\ background' \in [StreamIds -> Seq(Nat)]
  <2>1. PICK n \in Nat : n = Head(background[id]) /\ background' \in [StreamIds -> Seq(Nat)]
    BY <1>0, <1>3, Get DEF Drain
  <2> QED
    BY <1>0, <1>3, <2>1, UpdateWindowType DEF Drain
<1>8. ASSUME ReturnBody(id)
      PROVE  body' \in [StreamIds -> States] /\ window_rx' = window_rx /\ background' = background
  BY <1>0, <1>8 DEF ReturnBody, States
<1>4. /\ body' \in [StreamIds -> States] /\ window_rx' \in [StreamIds -> Seq(Nat)]
      /\ background' \in [StreamIds -> Seq(Nat)]
  BY <1>0, <1>1, <1>2, <1>3, <1>8 DEF Handler, Consume
<1>5. UNCHANGED <<connVars, conn_rx, task, rx, peerVars>>
  BY DEF Handler, Consume, ReturnBody, Read, DropBody, Drain
<1>6. Failures'
  BY <1>5, SameErrors
<1>7. TypeOK'
  BY <1>4, <1>5 DEF TypeOK, Tasks, States, connVars, peerVars
<1> QED
  BY <1>6, <1>7

LEMMA NextTypeInv == TypeInv /\ [Next]_vars => TypeInv'
<1> SUFFICES ASSUME TypeOK, Failures, [Next]_vars PROVE TypeOK' /\ Failures'
  BY DEF TypeInv
<1>1. \A f \in Frames : f[1] \in Nat /\ f[2] \in Nat
  BY Constants
<1>2. CASE UNCHANGED vars
  BY <1>2 DEF vars, connVars, bodyVars, peerVars, TypeOK, Failures
<1> QED
  BY <1>1, <1>2, ConnectionTypes, OpenTypes, DataTypes, StreamTypes, ReaderTypes DEF Next

\* Every variable keeps its type: a window never below nothing or beyond MaxInt, and the
\* connection ends with an error a stream really had (mod.rs, StreamClosing).
THEOREM TypeCorrect == Spec => []TypeOK
<1>1. Spec => []TypeInv
  BY InitTypeInv, NextTypeInv, PTL DEF Spec
<1> QED
  BY <1>1, PTL DEF TypeInv

-----------------------------------------------------------------------------
(* The accounts. *)

\* What the messages of a queue give back to some of the streams.
Given(q, ids) == [i \in DOMAIN q |-> IF q[i].id \in ids THEN q[i].amount ELSE 0]

LEMMA GivenType ==
    ASSUME NEW q \in Seq(Amounts), NEW ids
    PROVE  /\ Given(q, ids) \in Seq(Nat) /\ Given(q, ids) \in Seq(Int)
           /\ Len(Given(q, ids)) = Len(q) /\ DOMAIN q = 1..Len(q) /\ Len(q) \in Nat
<1>1. DOMAIN q = 1..Len(q) /\ Len(q) \in Nat
  OBVIOUS
<1>2. \A i \in 1..Len(q) : q[i].amount \in Nat
  <2> TAKE i \in 1..Len(q)
  <2>1. q[i] \in Amounts
    OBVIOUS
  <2> QED
    BY <2>1 DEF Amounts
<1>3. Given(q, ids) \in [1..Len(q) -> Nat]
  BY <1>1, <1>2 DEF Given
<1>4. Given(q, ids) \in Seq(Nat) /\ Len(Given(q, ids)) = Len(q)
  BY <1>1, <1>3
<1> QED
  BY <1>1, <1>4, TotalNatural

LEMMA ReturningGiven ==
    ASSUME conn_rx \in Seq(Amounts), NEW ids
    PROVE  Returning(ids) = Total[Given(conn_rx, ids)] /\ Returning(ids) \in Nat
BY GivenType, TotalNatural DEF Returning, Given

LEMMA GivenAppend ==
    ASSUME NEW q \in Seq(Amounts), NEW m \in Amounts, NEW ids
    PROVE  Total[Given(Append(q, m), ids)]
               = Total[Given(q, ids)] + IF m.id \in ids THEN m.amount ELSE 0
<1> DEFINE p == Append(q, m)
<1>1. /\ p \in Seq(Amounts) /\ Len(p) = Len(q) + 1 /\ p[Len(q) + 1] = m
      /\ \A i \in 1..Len(q) : p[i] = q[i]
  OBVIOUS
<1> HIDE DEF p
<1>2. /\ Given(p, ids) \in Seq(Int) /\ Len(Given(p, ids)) = Len(p) /\ DOMAIN p = 1..Len(p)
      /\ Given(q, ids) \in Seq(Int) /\ Len(Given(q, ids)) = Len(q) /\ DOMAIN q = 1..Len(q)
      /\ Len(q) \in Nat
  BY <1>1, GivenType
<1>3. \A i \in 1..Len(q) : Given(p, ids)[i] = Given(q, ids)[i]
  <2> TAKE i \in 1..Len(q)
  <2>1. i \in DOMAIN p /\ i \in DOMAIN q
    BY <1>1, <1>2
  <2> QED
    BY <1>1, <2>1 DEF Given
<1>4. Given(p, ids)[Len(q) + 1] = IF m.id \in ids THEN m.amount ELSE 0
  <2>1. Len(q) + 1 \in DOMAIN p
    BY <1>1, <1>2
  <2> QED
    BY <1>1, <2>1 DEF Given
<1>5. Total[Given(p, ids)] = Total[Given(q, ids)] + Given(p, ids)[Len(Given(q, ids)) + 1]
  BY <1>1, <1>2, <1>3, TotalLonger
<1>6. Total[Given(p, ids)] = Total[Given(q, ids)] + IF m.id \in ids THEN m.amount ELSE 0
  BY <1>2, <1>4, <1>5
<1> QED
  BY <1>6 DEF p

LEMMA GivenTail ==
    ASSUME NEW q \in Seq(Amounts), q # << >>, NEW ids
    PROVE  Total[Given(Tail(q), ids)]
               = Total[Given(q, ids)] - IF Head(q).id \in ids THEN Head(q).amount ELSE 0
<1> DEFINE p == Tail(q)
<1>1. /\ p \in Seq(Amounts) /\ Len(q) = Len(p) + 1 /\ Head(q) = q[1]
      /\ \A i \in 1..Len(p) : p[i] = q[i + 1]
  OBVIOUS
<1> HIDE DEF p
<1>2. /\ Given(p, ids) \in Seq(Int) /\ Len(Given(p, ids)) = Len(p) /\ DOMAIN p = 1..Len(p)
      /\ Given(q, ids) \in Seq(Int) /\ Len(Given(q, ids)) = Len(q) /\ DOMAIN q = 1..Len(q)
      /\ Len(p) \in Nat
  BY <1>1, GivenType
<1>3. \A i \in 1..Len(p) : Given(p, ids)[i] = Given(q, ids)[i + 1]
  <2> TAKE i \in 1..Len(p)
  <2>1. i \in DOMAIN p /\ i + 1 \in DOMAIN q
    BY <1>1, <1>2
  <2> QED
    BY <1>1, <2>1 DEF Given
<1>4. Given(q, ids)[1] = IF Head(q).id \in ids THEN Head(q).amount ELSE 0
  <2>1. 1 \in DOMAIN q
    BY <1>1, <1>2
  <2> QED
    BY <1>1, <2>1 DEF Given
<1>5. Total[Given(p, ids)] = Total[Given(q, ids)] - Given(q, ids)[1]
  BY <1>1, <1>2, <1>3, TotalShift
<1> QED
  BY <1>4, <1>5 DEF p

\* The data and the window the server holds of a stream.
Stock(id) == Buffered(id) + Total[window_rx[id]]

LEMMA Totals ==
    ASSUME NEW q \in [StreamIds -> Seq(Nat)], NEW id \in StreamIds
    PROVE  /\ Total[q[id]] \in Nat
           /\ \A n \in Nat : Total[Append(q[id], n)] = Total[q[id]] + n
           /\ q[id] # << >> => /\ Head(q[id]) \in Nat /\ Total[Tail(q[id])] \in Nat
                               /\ Total[q[id]] = Head(q[id]) + Total[Tail(q[id])]
<1>1. q[id] \in Seq(Nat) /\ q[id] \in Seq(Int)
  BY TotalNatural
<1>2. Total[q[id]] \in Nat
  BY <1>1, TotalNatural
<1>3. \A n \in Nat : Total[Append(q[id], n)] = Total[q[id]] + n
  <2> TAKE n \in Nat
  <2>1. n \in Int
    OBVIOUS
  <2> QED
    BY <1>1, <2>1, TotalAppend
<1>4. ASSUME q[id] # << >>
      PROVE  /\ Head(q[id]) \in Nat /\ Total[Tail(q[id])] \in Nat
             /\ Total[q[id]] = Head(q[id]) + Total[Tail(q[id])]
  <2>1. Tail(q[id]) \in Seq(Nat) /\ Head(q[id]) \in Nat
    BY <1>1, <1>4
  <2> QED
    BY <1>1, <1>4, <2>1, TotalNatural, TotalDefined
<1> QED
  BY <1>2, <1>3, <1>4

LEMMA StockType ==
    ASSUME rx \in [StreamIds -> Seq(Nat)], window_rx \in [StreamIds -> Seq(Nat)],
           background \in [StreamIds -> Seq(Nat)], body \in [StreamIds -> States],
           NEW id \in StreamIds
    PROVE  Stock(id) \in Nat
<1>1. /\ Total[rx[id]] \in Nat /\ Total[window_rx[id]] \in Nat /\ Total[background[id]] \in Nat
  BY Totals
<1>2. body[id].len \in Nat
  BY DEF States
<1> QED
  BY <1>1, <1>2, SMTT(30) DEF Stock, Buffered

LEMMA OutstandingType ==
    ASSUME TypeOK
    PROVE  Outstanding \in Nat
<1>1. \A id \in StreamIds : Stock(id) \in Nat
  BY StockType, Types
<1>2. [id \in StreamIds |-> Stock(id)] \in [StreamIds -> Nat]
  BY <1>1
<1>3. Outstanding = Over(StreamIds, [id \in StreamIds |-> Stock(id)])
  BY DEF Outstanding, Stock
<1> QED
  BY <1>2, <1>3, OverNatural, Constants

\* What one stream's stock gains or loses, all of them do.
LEMMA OutstandingChange ==
    ASSUME TypeOK, NEW id \in StreamIds, NEW d \in Int, Stock(id)' = Stock(id) + d,
           \A j \in StreamIds : j # id => Stock(j)' = Stock(j)
    PROVE  Outstanding' = Outstanding + d
<1> DEFINE f == [j \in StreamIds |-> Stock(j)]
           g == [j \in StreamIds |-> Stock(j)']
<1>1. \A j \in StreamIds : Stock(j) \in Int
  BY StockType, Types
<1>2. f \in [StreamIds -> Int]
  BY <1>1
<1>3. g \in [StreamIds -> Int]
  <2>1. ASSUME NEW j \in StreamIds PROVE Stock(j)' \in Int
    <3>1. CASE j = id
      BY <1>1, <3>1
    <3>2. CASE j # id
      BY <1>1, <3>2
    <3> QED
      BY <3>1, <3>2
  <2> QED
    BY <2>1
<1>4. g[id] = f[id] + d /\ \A j \in StreamIds : j # id => g[j] = f[j]
  OBVIOUS
<1>5. Outstanding = Over(StreamIds, f) /\ Outstanding' = Over(StreamIds, g)
  BY DEF Outstanding, Stock
<1> HIDE DEF f, g
<1>6. Over(StreamIds, g) = Over(StreamIds, f) + d
  BY <1>2, <1>3, <1>4, OverChange, Constants
<1> QED
  BY <1>5, <1>6

\* The data a stream holds depends on nothing else.
LEMMA StockSame ==
    ASSUME TypeOK, NEW id \in StreamIds,
           \A j \in StreamIds : j # id =>
               /\ rx'[j] = rx[j] /\ window_rx'[j] = window_rx[j]
               /\ background'[j] = background[j] /\ body'[j].len = body[j].len
    PROVE  \A j \in StreamIds : j # id => Stock(j)' = Stock(j)
BY DEF Stock, Buffered

-----------------------------------------------------------------------------
(* What each action does to the accounts. *)

\* Only a window message carries window.
NoWindow ==
    \A i \in DOMAIN conn_rx : conn_rx[i].kind # "UpdatePeerWindow" => conn_rx[i].amount = 0

\* The body has a frame in hand only as long as it has bytes of it.
Emptied == \A id \in StreamIds : body[id].unread = 0 => body[id].len = 0

LEMMA NextNoWindow ==
    ASSUME TypeOK, NoWindow, [Next]_vars
    PROVE  NoWindow'
<1>0. conn_rx \in Seq(Amounts)
  BY Types
<1>1. CASE Connection
  <2>1. conn_rx # << >> /\ conn_rx' = Tail(conn_rx)
    BY <1>1 DEF Connection, UpdatePeerWindow, StreamFailed, StreamClosed
  <2>2. \A i \in DOMAIN conn_rx' : i + 1 \in DOMAIN conn_rx /\ conn_rx'[i] = conn_rx[i + 1]
    BY <1>0, <2>1, Taken
  <2> QED
    BY <2>2 DEF NoWindow
<1>2. ASSUME NEW id \in StreamIds, ForwardWindow(id) PROVE NoWindow'
  <2>1. window_rx \in [StreamIds -> Seq(Nat)]
    BY Types
  <2> DEFINE m == [kind |-> "UpdatePeerWindow", id |-> id, amount |-> Head(window_rx[id])]
  <2>2. m \in Amounts /\ conn_rx' = Append(conn_rx, m) /\ m.kind = "UpdatePeerWindow"
    BY <1>2, <2>1, Get DEF ForwardWindow, Amounts
  <2> HIDE DEF m
  <2>3. \A i \in DOMAIN conn_rx' : \/ i \in DOMAIN conn_rx /\ conn_rx'[i] = conn_rx[i]
                                   \/ conn_rx'[i] = m
    BY <1>0, <2>2, Sent
  <2> QED
    BY <2>2, <2>3 DEF NoWindow
<1>3. ASSUME NEW id \in StreamIds, Exit(id) PROVE NoWindow'
  <2> DEFINE m == [kind |-> "StreamClosing", id |-> id, amount |-> 0]
             c == [kind |-> "StreamClosed", id |-> id, amount |-> 0]
  <2>1. m \in Amounts /\ c \in Amounts /\ m.amount = 0 /\ c.amount = 0
    BY DEF Amounts
  <2>2. conn_rx' = conn_rx \o << >> \o <<c>> \/ conn_rx' = conn_rx \o <<m>> \o <<c>>
    BY <1>3 DEF Exit
  <2> HIDE DEF m, c
  <2>3. conn_rx' = Append(conn_rx, c) \/ conn_rx' = Append(Append(conn_rx, m), c)
    <3>1. conn_rx \o << >> = conn_rx
      BY <1>0
    <3> QED
      BY <1>0, <2>1, <2>2, <3>1, OneMore, Longer
  <2>4. \A i \in DOMAIN conn_rx' : \/ i \in DOMAIN conn_rx /\ conn_rx'[i] = conn_rx[i]
                                   \/ conn_rx'[i] = m \/ conn_rx'[i] = c
    BY <1>0, <2>1, <2>3
  <2> QED
    BY <2>1, <2>4 DEF NoWindow
<1>4. CASE conn_rx' = conn_rx
  BY <1>4 DEF NoWindow
<1>5. \/ Connection \/ conn_rx' = conn_rx
      \/ \E id \in StreamIds : ForwardWindow(id) \/ Exit(id)
  BY DEF Next, vars, OpenStream, RecvData, Stream, HandleRequestBody, Finish, Handler, Consume, ReturnBody, Read, DropBody,
         Drain
<1> QED
  BY <1>1, <1>2, <1>3, <1>4, <1>5

LEMMA NextEmptied ==
    ASSUME TypeOK, Emptied, [Next]_vars
    PROVE  Emptied'
<1>0. body \in [StreamIds -> States] /\ background \in [StreamIds -> Seq(Nat)]
  BY Types
<1>1. ASSUME NEW id \in StreamIds, NEW len \in Nat, NEW unread \in Nat, NEW want \in Nat,
             Remaining(id, want) \in Nat, HandOut(id, len, unread, want)
      PROVE  Emptied'
  <2> DEFINE amount == IF unread < Remaining(id, want) THEN unread ELSE Remaining(id, want)
  <2>1. amount \in Nat
    BY <1>1
  <2>2. body' = [body EXCEPT ![id].read = IF body[id].size = NoSize THEN 0 ELSE @ + amount,
                             ![id].len = IF amount = unread THEN 0 ELSE len,
                             ![id].unread = unread - amount]
    BY <1>1 DEF HandOut
  <2> HIDE DEF amount
  <2>3. /\ body'[id].len = IF amount = unread THEN 0 ELSE len
        /\ body'[id].unread = unread - amount
        /\ \A j \in StreamIds : j # id => body'[j] = body[j]
    BY <1>0, <2>2 DEF States
  <2>4. body'[id].unread = 0 => amount = unread
    BY <2>1, <2>3
  <2> QED
    BY <2>3, <2>4 DEF Emptied
<1>2. ASSUME NEW id \in StreamIds, NEW want \in 1..MaxRead, Read(id, want) PROVE Emptied'
  <2>1. want \in Nat /\ Remaining(id, want) > 0
    BY <1>2, Constants DEF Read
  <2>2. Remaining(id, want) \in Nat
    <3>1. body[id].size \in Nat \cup {NoSize} /\ body[id].read \in Nat
      BY <1>0 DEF States
    <3> QED
      BY <2>1, <3>1, Constants DEF Remaining
  <2>3. body[id].len \in Nat /\ body[id].unread \in Nat
    BY <1>0 DEF States
  <2>4. CASE body[id].unread > 0
    BY <1>1, <1>2, <2>1, <2>2, <2>3, <2>4 DEF Read
  <2>5. CASE ~(body[id].unread > 0)
    <3>1. PICK n \in Nat : n = Head(background[id])
      BY <1>0, <1>2, <2>5, Get DEF Read
    <3>2. HandOut(id, n, n, want) \/ body' = body
      BY <1>2, <2>5, <3>1 DEF Read
    <3>3. CASE body' = body
      BY <3>3 DEF Emptied
    <3> QED
      BY <1>1, <2>1, <2>2, <3>2, <3>3
  <2> QED
    BY <2>4, <2>5
<1>3. ASSUME NEW id \in StreamIds, DropBody(id) \/ ReturnBody(id) PROVE Emptied'
  <2>1. CASE DropBody(id)
    BY <1>0, <2>1 DEF DropBody, Emptied, States
  <2>2. CASE ReturnBody(id)
    BY <1>0, <2>2 DEF ReturnBody, Emptied, States
  <2> QED
    BY <1>3, <2>1, <2>2
<1>4. ASSUME NEW id \in StreamIds, OpenStream(id) PROVE Emptied'
  BY <1>0, <1>4 DEF OpenStream, Emptied, States
<1>5. CASE body' = body
  BY <1>5 DEF Emptied
<1>6. \/ body' = body
      \/ \E id \in StreamIds : \/ OpenStream(id) \/ DropBody(id) \/ ReturnBody(id)
                               \/ \E want \in 1..MaxRead : Read(id, want)
  BY DEF Next, vars, bodyVars, RecvData, Stream, HandleRequestBody, PassOn, Fails, ForwardWindow, Finish, Exit,
         Handler, Consume, Drain, Connection, UpdatePeerWindow, StreamFailed, StreamClosed
<1> QED
  BY <1>2, <1>3, <1>4, <1>5, <1>6

\* The window on its way back.
LEMMA ReturningTaken ==
    ASSUME TypeOK, NoWindow, NEW ids, Connection
    PROVE  /\ Head(conn_rx).amount \in Nat /\ Head(conn_rx).id \in StreamIds
           /\ ~UpdatePeerWindow => Head(conn_rx).amount = 0
           /\ Returning(ids)' = Returning(ids) -
                  IF Head(conn_rx).id \in ids THEN Head(conn_rx).amount ELSE 0
<1>0. conn_rx \in Seq(Amounts)
  BY Types
<1>1. conn_rx # << >> /\ conn_rx' = Tail(conn_rx)
  BY DEF Connection, UpdatePeerWindow, StreamFailed, StreamClosed
<1>2. Head(conn_rx) = conn_rx[1] /\ 1 \in DOMAIN conn_rx
  BY <1>0, <1>1, Taken
<1>3. Head(conn_rx).amount \in Nat /\ Head(conn_rx).id \in StreamIds
  BY <1>2, Queued
<1>4. ~UpdatePeerWindow => Head(conn_rx).amount = 0
  BY <1>2 DEF NoWindow, Connection, StreamFailed, StreamClosed
<1>5. Returning(ids)' = Total[Given(conn_rx', ids)]
  BY DEF Returning, Given
<1> QED
  BY <1>0, <1>1, <1>3, <1>4, <1>5, GivenTail, ReturningGiven

LEMMA ReturningForwarded ==
    ASSUME TypeOK, NEW ids, NEW id \in StreamIds, ForwardWindow(id)
    PROVE  Returning(ids)' = Returning(ids) + IF id \in ids THEN Head(window_rx[id]) ELSE 0
<1>0. conn_rx \in Seq(Amounts) /\ window_rx \in [StreamIds -> Seq(Nat)]
  BY Types
<1>1. PICK n \in Nat : n = Head(window_rx[id])
  BY <1>0, Get DEF ForwardWindow
<1> DEFINE m == [kind |-> "UpdatePeerWindow", id |-> id, amount |-> n]
<1>2. m \in Amounts /\ m.id = id /\ m.amount = n /\ conn_rx' = Append(conn_rx, m)
  BY <1>1 DEF ForwardWindow, Amounts
<1> HIDE DEF m
<1>3. Returning(ids)' = Total[Given(conn_rx', ids)]
  BY DEF Returning, Given
<1> QED
  BY <1>0, <1>1, <1>2, <1>3, GivenAppend, ReturningGiven

LEMMA ReturningExited ==
    ASSUME TypeOK, NEW ids, NEW id \in StreamIds, Exit(id)
    PROVE  Returning(ids)' = Returning(ids)
<1>0. conn_rx \in Seq(Amounts)
  BY Types
<1> DEFINE m == [kind |-> "StreamClosing", id |-> id, amount |-> 0]
           c == [kind |-> "StreamClosed", id |-> id, amount |-> 0]
<1>1. m \in Amounts /\ c \in Amounts /\ m.amount = 0 /\ c.amount = 0
  BY DEF Amounts
<1>2. conn_rx' = conn_rx \o << >> \o <<c>> \/ conn_rx' = conn_rx \o <<m>> \o <<c>>
  BY DEF Exit
<1> HIDE DEF m, c
<1>3. conn_rx' = Append(conn_rx, c) \/ conn_rx' = Append(Append(conn_rx, m), c)
  <2>1. conn_rx \o << >> = conn_rx
    BY <1>0
  <2> QED
    BY <1>0, <1>1, <1>2, <2>1, OneMore, Longer
<1>4. Returning(ids)' = Total[Given(conn_rx', ids)]
  BY DEF Returning, Given
<1>5. \A q \in Seq(Amounts) : \A x \in {m, c} : Total[Given(Append(q, x), ids)] = Total[Given(q, ids)]
  <2> SUFFICES ASSUME NEW q \in Seq(Amounts), NEW x \in {m, c}
               PROVE  Total[Given(Append(q, x), ids)] = Total[Given(q, ids)]
    OBVIOUS
  <2>1. Total[Given(Append(q, x), ids)] = Total[Given(q, ids)] + 0
    <3>1. x \in Amounts /\ (IF x.id \in ids THEN x.amount ELSE 0) = 0
      BY <1>1
    <3> QED
      BY <3>1, GivenAppend
  <2>2. Total[Given(q, ids)] \in Nat
    BY GivenType, TotalNatural
  <2> QED
    BY <2>1, <2>2
<1>6. Total[Given(conn_rx', ids)] = Total[Given(conn_rx, ids)]
  BY <1>0, <1>1, <1>3, <1>5, Longer
<1> QED
  BY <1>0, <1>4, <1>6, ReturningGiven

LEMMA ReturningSame ==
    ASSUME NEW ids, conn_rx' = conn_rx
    PROVE  Returning(ids)' = Returning(ids)
BY DEF Returning

\* The stock of a stream.
LEMMA StockReceived ==
    ASSUME TypeOK, NEW id \in StreamIds, NEW n \in Nat, Receive(id, n),
           UNCHANGED <<window_rx, bodyVars>>
    PROVE  Outstanding' = Outstanding + n
<1>1. rx \in [StreamIds -> Seq(Nat)] /\ n \in Int
  BY Types
<1>2. rx'[id] = Append(rx[id], n) /\ \A j \in StreamIds : j # id => rx'[j] = rx[j]
  BY <1>1 DEF Receive
<1>3. Stock(id) \in Nat
  BY Types, StockType
<1>4. Total[rx'[id]] = Total[rx[id]] + n
  BY <1>1, <1>2, Totals
<1>5. /\ Stock(id) = Total[rx[id]] + Total[background[id]] + body[id].len + Total[window_rx[id]]
      /\ Stock(id)' = Total[rx'[id]] + Total[background[id]] + body[id].len + Total[window_rx[id]]
  BY DEF Stock, Buffered, bodyVars
<1>6. /\ Total[rx[id]] \in Nat /\ Total[window_rx[id]] \in Nat /\ Total[background[id]] \in Nat
      /\ body[id].len \in Nat
  BY Types, Totals DEF States
<1>7. Stock(id)' = Stock(id) + n
  BY <1>4, <1>5, <1>6
<1>8. \A j \in StreamIds : j # id => Stock(j)' = Stock(j)
  BY <1>2, StockSame DEF bodyVars
<1> QED
  BY <1>1, <1>7, <1>8, OutstandingChange

LEMMA StockPassed ==
    ASSUME TypeOK, NEW id \in StreamIds, HandleRequestBody(id), PassOn(id, Head(rx[id]))
    PROVE  Outstanding' = Outstanding
<1>1. rx \in [StreamIds -> Seq(Nat)] /\ background \in [StreamIds -> Seq(Nat)]
  BY Types
<1>2. /\ rx[id] # << >>
      /\ rx'[id] = Tail(rx[id]) /\ background'[id] = Append(background[id], Head(rx[id]))
      /\ \A j \in StreamIds : j # id => rx'[j] = rx[j] /\ background'[j] = background[j]
      /\ UNCHANGED <<window_rx, body>>
  BY <1>1 DEF HandleRequestBody, PassOn
<1>3. PICK n \in Nat : n = Head(rx[id])
  BY <1>1, <1>2, Get
<1>4. /\ Total[rx[id]] = n + Total[rx'[id]] /\ Total[rx'[id]] \in Nat
      /\ Total[background'[id]] = Total[background[id]] + n
  <2>1. /\ Total[rx[id]] = Head(rx[id]) + Total[Tail(rx[id])] /\ Total[Tail(rx[id])] \in Nat
        /\ Total[Append(background[id], n)] = Total[background[id]] + n
    BY <1>1, <1>2, Totals
  <2> QED
    BY <1>2, <1>3, <2>1
<1>5. /\ Stock(id) = Total[rx[id]] + Total[background[id]] + body[id].len + Total[window_rx[id]]
      /\ Stock(id)' = Total[rx'[id]] + Total[background'[id]] + body[id].len + Total[window_rx[id]]
  BY <1>2 DEF Stock, Buffered
<1>6. /\ Total[rx[id]] \in Nat /\ Total[window_rx[id]] \in Nat /\ Total[background[id]] \in Nat
      /\ body[id].len \in Nat
  BY Types, Totals DEF States
<1>7. Stock(id)' = Stock(id) + 0
  BY <1>4, <1>5, <1>6
<1>8. \A j \in StreamIds : j # id => Stock(j)' = Stock(j)
  BY <1>2, StockSame
<1>9. Outstanding' = Outstanding + 0
  BY <1>7, <1>8, OutstandingChange
<1> QED
  BY <1>9, OutstandingType

LEMMA StockForwarded ==
    ASSUME TypeOK, NEW id \in StreamIds, ForwardWindow(id)
    PROVE  Outstanding' = Outstanding - Head(window_rx[id]) /\ Head(window_rx[id]) \in Nat
<1>1. window_rx \in [StreamIds -> Seq(Nat)]
  BY Types
<1>2. /\ window_rx[id] # << >> /\ window_rx'[id] = Tail(window_rx[id])
      /\ \A j \in StreamIds : j # id => window_rx'[j] = window_rx[j]
      /\ UNCHANGED <<rx, body, background>>
  BY <1>1 DEF ForwardWindow, bodyVars
<1>3. PICK n \in Nat : n = Head(window_rx[id])
  BY <1>1, <1>2, Get
<1>4. Total[window_rx[id]] = n + Total[window_rx'[id]] /\ Total[window_rx'[id]] \in Nat
  BY <1>1, <1>2, <1>3, Totals
<1>5. /\ Stock(id) = Total[rx[id]] + Total[background[id]] + body[id].len + Total[window_rx[id]]
      /\ Stock(id)' = Total[rx[id]] + Total[background[id]] + body[id].len + Total[window_rx'[id]]
  BY <1>2 DEF Stock, Buffered
<1>6. /\ Total[rx[id]] \in Nat /\ Total[window_rx[id]] \in Nat /\ Total[background[id]] \in Nat
      /\ body[id].len \in Nat
  BY Types, Totals DEF States
<1>7. 0 - n \in Int /\ Stock(id)' = Stock(id) + (0 - n)
  BY <1>4, <1>5, <1>6
<1>8. \A j \in StreamIds : j # id => Stock(j)' = Stock(j)
  BY <1>2, StockSame
<1>9. Outstanding' = Outstanding + (0 - n)
  BY <1>7, <1>8, OutstandingChange
<1> QED
  BY <1>3, <1>9, OutstandingType

\* A stream's account when its body's reader moves data to its windows.
LEMMA StockMoved ==
    ASSUME TypeOK, NEW id \in StreamIds, UNCHANGED rx,
           \A j \in StreamIds : j # id =>
               /\ window_rx'[j] = window_rx[j] /\ background'[j] = background[j]
               /\ body'[j].len = body[j].len,
           Total[background'[id]] + body'[id].len + Total[window_rx'[id]]
               = Total[background[id]] + body[id].len + Total[window_rx[id]],
           Total[background'[id]] \in Nat, body'[id].len \in Nat, Total[window_rx'[id]] \in Nat
    PROVE  Outstanding' = Outstanding
<1>1. /\ Stock(id) = Total[rx[id]] + Total[background[id]] + body[id].len + Total[window_rx[id]]
      /\ Stock(id)' = Total[rx[id]] + Total[background'[id]] + body'[id].len + Total[window_rx'[id]]
  BY DEF Stock, Buffered
<1>2. /\ Total[rx[id]] \in Nat /\ Total[window_rx[id]] \in Nat /\ Total[background[id]] \in Nat
      /\ body[id].len \in Nat
  BY Types, Totals DEF States
<1>3. Stock(id)' = Stock(id) + 0
  <2>1. \A r, a, b, c, d, e, g \in Nat : d + e + g = a + b + c => r + d + e + g = (r + a + b + c) + 0
    OBVIOUS
  <2> QED
    BY <1>1, <1>2, <2>1
<1>4. \A j \in StreamIds : j # id => Stock(j)' = Stock(j)
  BY StockSame
<1>5. Outstanding' = Outstanding + 0
  BY <1>3, <1>4, OutstandingChange
<1> QED
  BY <1>5, OutstandingType

\* The window of a task that has not exited is not lost.
LEMMA UpdateWindowTotal ==
    ASSUME TypeOK, NEW id \in StreamIds, ~Exited(id), NEW n \in Nat, UpdateWindow(id, n)
    PROVE  /\ Total[window_rx'[id]] = Total[window_rx[id]] + n
           /\ \A j \in StreamIds : j # id => window_rx'[j] = window_rx[j]
<1>1. window_rx \in [StreamIds -> Seq(Nat)]
  BY Types
<1>2. /\ window_rx'[id] = Append(window_rx[id], n)
      /\ \A j \in StreamIds : j # id => window_rx'[j] = window_rx[j]
  BY <1>1 DEF UpdateWindow
<1> QED
  BY <1>1, <1>2, Totals

LEMMA StockRead ==
    ASSUME TypeOK, Emptied, NEW id \in StreamIds, ~Exited(id), Handler(id) \/ Drain(id)
    PROVE  Outstanding' = Outstanding
<1>0. /\ body \in [StreamIds -> States] /\ background \in [StreamIds -> Seq(Nat)]
      /\ window_rx \in [StreamIds -> Seq(Nat)]
      /\ body[id].len \in Nat /\ body[id].unread \in Nat
      /\ Total[background[id]] \in Nat /\ Total[window_rx[id]] \in Nat
  BY Types, Totals DEF States
<1>1. UNCHANGED rx
  BY DEF Handler, Consume, ReturnBody, Read, DropBody, Drain
\* A frame is handed out: it stays in hand, or its window goes back.
<1>2. ASSUME NEW len \in Nat, NEW unread \in Nat, NEW want, HandOut(id, len, unread, want)
      PROVE  /\ \/ body'[id].len = len /\ window_rx' = window_rx
                \/ /\ body'[id].len = 0 /\ Total[window_rx'[id]] = Total[window_rx[id]] + len
                   /\ \A j \in StreamIds : j # id => window_rx'[j] = window_rx[j]
             /\ \A j \in StreamIds : j # id => body'[j].len = body[j].len
  <2> DEFINE amount == IF unread < Remaining(id, want) THEN unread ELSE Remaining(id, want)
  <2>1. body' = [body EXCEPT ![id].read = IF body[id].size = NoSize THEN 0 ELSE @ + amount,
                             ![id].len = IF amount = unread THEN 0 ELSE len,
                             ![id].unread = unread - amount]
    BY <1>2 DEF HandOut
  <2>2. IF amount = unread THEN UpdateWindow(id, len) ELSE UNCHANGED window_rx
    BY <1>2 DEF HandOut
  <2> HIDE DEF amount
  <2>3. /\ body'[id].len = IF amount = unread THEN 0 ELSE len
        /\ \A j \in StreamIds : j # id => body'[j].len = body[j].len
    BY <1>0, <2>1 DEF States
  <2> QED
    BY <2>2, <2>3, UpdateWindowTotal
<1>3. ASSUME NEW want \in 1..MaxRead, Read(id, want) PROVE Outstanding' = Outstanding
  <2>1. CASE body[id].unread > 0
    <3>1. HandOut(id, body[id].len, body[id].unread, want) /\ background' = background
      BY <1>3, <2>1 DEF Read
    <3>2. CASE body'[id].len = body[id].len /\ window_rx' = window_rx
      BY <1>0, <1>1, <1>2, <3>1, <3>2, StockMoved
    <3>3. CASE /\ body'[id].len = 0 /\ Total[window_rx'[id]] = Total[window_rx[id]] + body[id].len
               /\ \A j \in StreamIds : j # id => window_rx'[j] = window_rx[j]
      <4>1. /\ Total[background'[id]] + body'[id].len + Total[window_rx'[id]]
                   = Total[background[id]] + body[id].len + Total[window_rx[id]]
            /\ Total[background'[id]] \in Nat /\ body'[id].len \in Nat
            /\ Total[window_rx'[id]] \in Nat
        BY <1>0, <3>1, <3>3
      <4> QED
        BY <1>0, <1>1, <1>2, <3>1, <3>3, <4>1, StockMoved
    <3> QED
      BY <1>0, <1>2, <3>1, <3>2, <3>3
  <2>2. CASE ~(body[id].unread > 0)
    <3>1. body[id].len = 0
      BY <1>0, <2>2 DEF Emptied
    <3>2. PICK n \in Nat : n = Head(background[id])
      BY <1>0, <1>3, <2>2, Get DEF Read
    <3>3. /\ background[id] # << >> /\ background' = [background EXCEPT ![id] = Tail(@)]
          /\ IF n > 0 THEN HandOut(id, n, n, want) ELSE UNCHANGED <<body, window_rx>>
      BY <1>3, <2>2, <3>2 DEF Read
    <3>4. /\ \A j \in StreamIds : j # id => background'[j] = background[j]
          /\ Total[background[id]] = n + Total[background'[id]] /\ Total[background'[id]] \in Nat
      BY <1>0, <3>2, <3>3, Totals
    <3>5. /\ body'[id].len + Total[window_rx'[id]] = n + Total[window_rx[id]]
          /\ body'[id].len \in Nat /\ Total[window_rx'[id]] \in Nat
          /\ \A j \in StreamIds : j # id => /\ window_rx'[j] = window_rx[j]
                                            /\ body'[j].len = body[j].len
      <4>1. CASE n > 0
        <5>1. HandOut(id, n, n, want)
          BY <3>3, <4>1
        <5>2. CASE body'[id].len = n /\ window_rx' = window_rx
          BY <1>0, <1>2, <5>1, <5>2
        <5>3. CASE /\ body'[id].len = 0 /\ Total[window_rx'[id]] = Total[window_rx[id]] + n
                   /\ \A j \in StreamIds : j # id => window_rx'[j] = window_rx[j]
          BY <1>0, <1>2, <5>1, <5>3
        <5> QED
          BY <1>2, <5>1, <5>2, <5>3
      <4>2. CASE ~(n > 0)
        <5>1. n = 0 /\ body' = body /\ window_rx' = window_rx
          BY <3>3, <4>2
        <5> QED
          BY <1>0, <3>1, <5>1
      <4> QED
        BY <4>1, <4>2
    <3>6. Total[background'[id]] + body'[id].len + Total[window_rx'[id]]
              = Total[background[id]] + body[id].len + Total[window_rx[id]]
      <4>1. PICK a \in Nat, b \in Nat, l \in Nat, v \in Nat, w \in Nat :
                /\ a = Total[background[id]] /\ b = Total[background'[id]]
                /\ l = body'[id].len /\ v = Total[window_rx'[id]] /\ w = Total[window_rx[id]]
        BY <1>0, <3>4, <3>5
      <4>2. a = n + b /\ l + v = n + w
        BY <3>4, <3>5, <4>1
      <4>3. b + l + v = a + 0 + w
        BY <4>2
      <4> QED
        BY <3>1, <4>1, <4>3
    <3> QED
      BY <1>1, <3>4, <3>5, <3>6, StockMoved
  <2> QED
    BY <2>1, <2>2
<1>4. ASSUME DropBody(id) PROVE Outstanding' = Outstanding
  <2>1. /\ body'[id].len = 0 /\ background' = background
        /\ \A j \in StreamIds : j # id => body'[j].len = body[j].len
        /\ IF body[id].unread > 0 THEN UpdateWindow(id, body[id].len) ELSE UNCHANGED window_rx
    BY <1>0, <1>4 DEF DropBody, States
  <2>2. /\ Total[window_rx'[id]] = Total[window_rx[id]] + body[id].len
        /\ \A j \in StreamIds : j # id => window_rx'[j] = window_rx[j]
    <3>1. CASE body[id].unread > 0
      BY <1>0, <2>1, <3>1, UpdateWindowTotal
    <3>2. CASE ~(body[id].unread > 0)
      <4>1. body[id].len = 0 /\ window_rx' = window_rx
        BY <1>0, <2>1, <3>2 DEF Emptied
      <4> QED
        BY <1>0, <4>1
    <3> QED
      BY <3>1, <3>2
  <2>3. /\ Total[background'[id]] + body'[id].len + Total[window_rx'[id]]
               = Total[background[id]] + body[id].len + Total[window_rx[id]]
        /\ Total[background'[id]] \in Nat /\ body'[id].len \in Nat /\ Total[window_rx'[id]] \in Nat
    BY <1>0, <2>1, <2>2
  <2> QED
    BY <1>1, <2>1, <2>2, <2>3, StockMoved
<1>5. ASSUME Drain(id) PROVE Outstanding' = Outstanding
  <2>1. PICK n \in Nat : n = Head(background[id])
    BY <1>0, <1>5, Get DEF Drain
  <2>2. /\ background[id] # << >> /\ background' = [background EXCEPT ![id] = Tail(@)]
        /\ UpdateWindow(id, n) /\ body' = body
    BY <1>5, <2>1 DEF Drain
  <2>3. /\ \A j \in StreamIds : j # id => background'[j] = background[j]
        /\ Total[background[id]] = n + Total[background'[id]] /\ Total[background'[id]] \in Nat
    BY <1>0, <2>1, <2>2, Totals
  <2>4. /\ Total[window_rx'[id]] = Total[window_rx[id]] + n
        /\ \A j \in StreamIds : j # id => window_rx'[j] = window_rx[j]
    BY <2>2, UpdateWindowTotal
  <2>5. /\ Total[background'[id]] + body'[id].len + Total[window_rx'[id]]
               = Total[background[id]] + body[id].len + Total[window_rx[id]]
        /\ Total[background'[id]] \in Nat /\ body'[id].len \in Nat /\ Total[window_rx'[id]] \in Nat
    <3>1. PICK a \in Nat, b \in Nat, l \in Nat, w \in Nat :
              /\ a = Total[background[id]] /\ b = Total[background'[id]]
              /\ l = body[id].len /\ w = Total[window_rx[id]]
      BY <1>0, <2>3
    <3>2. a = n + b
      BY <2>3, <3>1
    <3>3. b + l + (w + n) = a + l + w /\ w + n \in Nat
      BY <3>2
    <3>4. body'[id].len = l /\ Total[window_rx'[id]] = w + n
      BY <2>2, <2>4, <3>1
    <3> QED
      BY <3>1, <3>3, <3>4
  <2> QED
    BY <1>1, <2>2, <2>3, <2>4, <2>5, StockMoved
<1>6. ASSUME ReturnBody(id) PROVE Outstanding' = Outstanding
  <2>1. UNCHANGED <<rx, window_rx, background>> /\ \A j \in StreamIds : body'[j].len = body[j].len
    BY <1>0, <1>6 DEF ReturnBody, States
  <2> QED
    BY <1>0, <2>1, StockMoved
<1> QED
  BY <1>3, <1>4, <1>5, <1>6 DEF Handler, Consume

\* What a stream loses, all of them do.
LEMMA StockLost ==
    ASSUME TypeOK, NEW id \in StreamIds,
           \A j \in StreamIds : j # id =>
               /\ rx'[j] = rx[j] /\ window_rx'[j] = window_rx[j]
               /\ background'[j] = background[j] /\ body'[j].len = body[j].len,
           Total[rx'[id]] \in Nat, Total[background'[id]] \in Nat,
           body'[id].len \in Nat, Total[window_rx'[id]] \in Nat,
           Total[rx'[id]] <= Total[rx[id]], Total[window_rx'[id]] <= Total[window_rx[id]],
           Total[background'[id]] + body'[id].len <= Total[background[id]] + body[id].len
    PROVE  Outstanding' \in Int /\ Outstanding' <= Outstanding
<1>1. PICK r \in Nat, b \in Nat, l \in Nat, w \in Nat :
          /\ r = Total[rx[id]] /\ b = Total[background[id]] /\ l = body[id].len
          /\ w = Total[window_rx[id]]
  BY Types, Totals DEF States
<1>2. PICK r2 \in Nat, b2 \in Nat, l2 \in Nat, w2 \in Nat :
          /\ r2 = Total[rx'[id]] /\ b2 = Total[background'[id]] /\ l2 = body'[id].len
          /\ w2 = Total[window_rx'[id]]
  OBVIOUS
<1>3. Stock(id) = r + b + l + w /\ Stock(id)' = r2 + b2 + l2 + w2
  BY <1>1, <1>2 DEF Stock, Buffered
<1>4. PICK d \in Int : d = (r2 + b2 + l2 + w2) - (r + b + l + w)
  OBVIOUS
<1>5. d <= 0 /\ Stock(id)' = Stock(id) + d
  BY <1>1, <1>2, <1>3, <1>4
<1>6. \A j \in StreamIds : j # id => Stock(j)' = Stock(j)
  BY StockSame
<1>7. Outstanding' = Outstanding + d
  BY <1>5, <1>6, OutstandingChange
<1> QED
  BY <1>5, <1>7, OutstandingType

\* The window of data that is read once the task has gone is lost.
LEMMA StockReadLate ==
    ASSUME TypeOK, Emptied, NEW id \in StreamIds, Exited(id), Handler(id) \/ Drain(id)
    PROVE  Outstanding' \in Int /\ Outstanding' <= Outstanding
<1>0. /\ body \in [StreamIds -> States] /\ background \in [StreamIds -> Seq(Nat)]
      /\ body[id].len \in Nat /\ body[id].unread \in Nat /\ body[id].read \in Nat
      /\ Total[background[id]] \in Nat /\ Total[window_rx[id]] \in Nat /\ Total[rx[id]] \in Nat
  BY Types, Totals DEF States
<1>1. UNCHANGED rx
  BY DEF Handler, Consume, ReturnBody, Read, DropBody, Drain
<1>2. ASSUME NEW n, UpdateWindow(id, n) PROVE window_rx' = window_rx
  BY <1>2, Types DEF UpdateWindow
<1>3. ASSUME NEW len \in Nat, NEW unread, NEW want, HandOut(id, len, unread, want)
      PROVE  /\ window_rx' = window_rx /\ body'[id].len \in {0, len}
             /\ \A j \in StreamIds : j # id => body'[j].len = body[j].len
  <2> DEFINE amount == IF unread < Remaining(id, want) THEN unread ELSE Remaining(id, want)
  <2>1. body' = [body EXCEPT ![id].read = IF body[id].size = NoSize THEN 0 ELSE @ + amount,
                             ![id].len = IF amount = unread THEN 0 ELSE len,
                             ![id].unread = unread - amount]
    BY <1>3 DEF HandOut
  <2>2. window_rx' = window_rx
    BY <1>2, <1>3 DEF HandOut
  <2> HIDE DEF amount
  <2> QED
    BY <1>0, <2>1, <2>2 DEF States
<1>4. ASSUME background[id] # << >>, background' = [background EXCEPT ![id] = Tail(@)]
      PROVE  /\ \A j \in StreamIds : j # id => background'[j] = background[j]
             /\ Head(background[id]) \in Nat /\ Total[background'[id]] \in Nat
             /\ Total[background[id]] = Head(background[id]) + Total[background'[id]]
  BY <1>0, <1>4, Totals
<1>5. CASE \E want \in 1..MaxRead : Read(id, want)
  <2>1. PICK want : Read(id, want)
    BY <1>5
  <2>2. CASE body[id].unread > 0
    <3>1. HandOut(id, body[id].len, body[id].unread, want) /\ background' = background
      BY <2>1, <2>2 DEF Read
    <3>2. window_rx' = window_rx /\ body'[id].len \in {0, body[id].len}
      BY <1>0, <1>3, <3>1
    <3>3. \A j \in StreamIds : j # id => body'[j].len = body[j].len
      BY <1>0, <1>3, <3>1
    <3>4. /\ body'[id].len \in Nat
          /\ Total[background'[id]] + body'[id].len <= Total[background[id]] + body[id].len
      BY <1>0, <3>1, <3>2
    <3> QED
      BY <1>0, <1>1, <3>1, <3>2, <3>3, <3>4, StockLost
  <2>3. CASE ~(body[id].unread > 0)
    <3>1. /\ background[id] # << >> /\ background' = [background EXCEPT ![id] = Tail(@)]
          /\ \/ HandOut(id, Head(background[id]), Head(background[id]), want)
             \/ UNCHANGED <<body, window_rx>>
      BY <2>1, <2>3 DEF Read
    <3>2. PICK n \in Nat, b \in Nat : /\ n = Head(background[id]) /\ b = Total[background'[id]]
                                     /\ Total[background[id]] = n + b
      BY <1>4, <3>1
    <3>3. body[id].len = 0
      BY <1>0, <2>3 DEF Emptied
    <3>4. /\ window_rx' = window_rx /\ body'[id].len \in {0, n}
          /\ \A j \in StreamIds : j # id => body'[j].len = body[j].len
      <4>1. CASE HandOut(id, n, n, want)
        BY <1>3, <4>1
      <4>2. CASE UNCHANGED <<body, window_rx>>
        BY <3>3, <4>2
      <4> QED
        BY <3>1, <3>2, <4>1, <4>2
    <3>5. /\ body'[id].len \in Nat
          /\ Total[background'[id]] + body'[id].len <= Total[background[id]] + body[id].len
      BY <3>2, <3>3, <3>4
    <3>6. \A j \in StreamIds : j # id => background'[j] = background[j]
      BY <1>4, <3>1
    <3>7. /\ Total[rx'[id]] \in Nat /\ Total[rx'[id]] <= Total[rx[id]]
          /\ Total[window_rx'[id]] \in Nat /\ Total[window_rx'[id]] <= Total[window_rx[id]]
          /\ Total[background'[id]] \in Nat
      BY <1>0, <1>1, <3>2, <3>4
    <3>8. \A j \in StreamIds : j # id =>
              /\ rx'[j] = rx[j] /\ window_rx'[j] = window_rx[j]
              /\ background'[j] = background[j] /\ body'[j].len = body[j].len
      BY <1>1, <3>4, <3>6
    <3> QED
      BY <3>5, <3>7, <3>8, StockLost
  <2> QED
    BY <2>2, <2>3
<1>6. CASE DropBody(id)
  <2>1. /\ body'[id].len = 0 /\ background' = background
        /\ \A j \in StreamIds : j # id => body'[j].len = body[j].len
    BY <1>0, <1>6 DEF DropBody, States
  <2>2. window_rx' = window_rx
    BY <1>2, <1>6 DEF DropBody
  <2>3. /\ Total[rx'[id]] \in Nat /\ Total[rx'[id]] <= Total[rx[id]]
        /\ Total[window_rx'[id]] \in Nat /\ Total[window_rx'[id]] <= Total[window_rx[id]]
        /\ Total[background'[id]] \in Nat /\ body'[id].len \in Nat
        /\ Total[background'[id]] + body'[id].len <= Total[background[id]] + body[id].len
    BY <1>0, <1>1, <2>1, <2>2
  <2>4. \A j \in StreamIds : j # id =>
            /\ rx'[j] = rx[j] /\ window_rx'[j] = window_rx[j]
            /\ background'[j] = background[j] /\ body'[j].len = body[j].len
    BY <1>1, <2>1, <2>2
  <2> QED
    BY <2>3, <2>4, StockLost
<1>7. CASE ReturnBody(id)
  BY <1>7 DEF ReturnBody, Serving, Exited
<1>8. CASE Drain(id)
  <2>1. /\ background[id] # << >> /\ background' = [background EXCEPT ![id] = Tail(@)]
        /\ body' = body
    BY <1>8 DEF Drain
  <2>2. window_rx' = window_rx
    BY <1>2, <1>8 DEF Drain
  <2>3. PICK n \in Nat, b \in Nat : /\ b = Total[background'[id]] /\ Total[background[id]] = n + b
                                   /\ \A j \in StreamIds : j # id => background'[j] = background[j]
    BY <1>4, <2>1
  <2>4. Total[background'[id]] + body'[id].len <= Total[background[id]] + body[id].len
    BY <1>0, <2>1, <2>3
  <2>5. /\ Total[rx'[id]] \in Nat /\ Total[rx'[id]] <= Total[rx[id]]
        /\ Total[window_rx'[id]] \in Nat /\ Total[window_rx'[id]] <= Total[window_rx[id]]
        /\ Total[background'[id]] \in Nat /\ body'[id].len \in Nat
    <3>1. rx' = rx /\ window_rx' = window_rx /\ body' = body /\ Total[background'[id]] \in Nat
      BY <1>1, <2>1, <2>2, <2>3
    <3> QED
      BY <1>0, <3>1, SMTT(30)
  <2>6. \A j \in StreamIds : j # id =>
            /\ rx'[j] = rx[j] /\ window_rx'[j] = window_rx[j]
            /\ background'[j] = background[j] /\ body'[j].len = body[j].len
    BY <1>1, <2>1, <2>2, <2>3
  <2> QED
    BY <2>4, <2>5, <2>6, StockLost
<1> QED
  BY <1>5, <1>6, <1>7, <1>8 DEF Handler, Consume

\* A frame that is refused, and what a task that ends leaves behind.
LEMMA StockFailed ==
    ASSUME TypeOK, NEW id \in StreamIds, HandleRequestBody(id), NEW e, Fails(id, e)
    PROVE  Outstanding' \in Int /\ Outstanding' <= Outstanding
<1>1. rx \in [StreamIds -> Seq(Nat)]
  BY Types
<1>2. /\ rx[id] # << >> /\ rx'[id] = Tail(rx[id])
      /\ \A j \in StreamIds : j # id => rx'[j] = rx[j]
      /\ UNCHANGED <<window_rx, background, body>>
  BY <1>1 DEF HandleRequestBody, Fails
<1>3. PICK n \in Nat, t \in Nat : t = Total[rx'[id]] /\ Total[rx[id]] = n + t
  BY <1>1, <1>2, Totals
<1>4. /\ Total[background[id]] \in Nat /\ Total[window_rx[id]] \in Nat /\ body[id].len \in Nat
  BY Types, Totals DEF States
<1> QED
  BY <1>2, <1>3, <1>4, StockLost

LEMMA StockExited ==
    ASSUME TypeOK, NEW id \in StreamIds, Exit(id)
    PROVE  Outstanding' \in Int /\ Outstanding' <= Outstanding
<1>1. rx \in [StreamIds -> Seq(Nat)] /\ window_rx \in [StreamIds -> Seq(Nat)]
  BY Types
<1>2. /\ rx'[id] = << >> /\ window_rx'[id] = << >>
      /\ \A j \in StreamIds : j # id => rx'[j] = rx[j] /\ window_rx'[j] = window_rx[j]
      /\ UNCHANGED <<background, body>>
  BY <1>1 DEF Exit, bodyVars
<1>3. Total[rx'[id]] = 0 /\ Total[window_rx'[id]] = 0
  BY <1>2, TotalDefined
<1>4. /\ Total[rx[id]] \in Nat /\ Total[window_rx[id]] \in Nat
      /\ Total[background[id]] \in Nat /\ body[id].len \in Nat
  BY Types, Totals DEF States
<1> QED
  BY <1>2, <1>3, <1>4, StockLost

-----------------------------------------------------------------------------
(* The window of the connection. *)

\* It was so before, if it is so after a step.
LEMMA RunningBefore ==
    ASSUME [Next]_vars, Running'
    PROVE  Running
BY DEF Next, vars, connVars, Running, OpenStream, RecvData, Stream, HandleRequestBody, ForwardWindow, Finish,
       Exit, Handler, Consume, ReturnBody, Read, DropBody, Drain, Connection, UpdatePeerWindow,
       StreamFailed, StreamClosed

\* What a step does to a task.
LEMMA TaskSteps ==
    ASSUME TypeOK, [Next]_vars, NEW id \in StreamIds
    PROVE  /\ task[id].at = "unused" => \/ task'[id] = task[id]
                                        \/ OpenStream(id) /\ task'[id].at = "serving"
           /\ task[id].at = "ending" => task'[id].at \in {"ending", "exited"}
           /\ task[id].at = "exited" => task'[id].at = "exited"
           /\ task[id].at # "unused" => task'[id].at # "unused"
<1>0. task \in [StreamIds -> Tasks]
  BY Types
<1>1. CASE task' = task
  BY <1>0, <1>1 DEF Tasks
<1>2. ASSUME NEW j \in StreamIds, OpenStream(j)
      PROVE  /\ task[j].at = "unused" /\ task'[j].at = "serving"
             /\ \A i \in StreamIds : i # j => task'[i] = task[i]
  BY <1>0, <1>2 DEF OpenStream, Tasks
<1>3. ASSUME NEW j \in StreamIds, HandleRequestBody(j) \/ ForwardWindow(j) \/ Finish(j)
      PROVE  /\ task[j].at = "serving" /\ task'[j].at \in {"serving", "ending"}
             /\ \A i \in StreamIds : i # j => task'[i] = task[i]
  <2>1. CASE HandleRequestBody(j)
    BY <1>0, <2>1 DEF HandleRequestBody, Fails, PassOn, Serving, Tasks
  <2>2. CASE ForwardWindow(j) \/ Finish(j)
    BY <1>0, <2>2 DEF ForwardWindow, Finish, Serving, Tasks
  <2> QED
    BY <1>3, <2>1, <2>2
<1>4. ASSUME NEW j \in StreamIds, Exit(j)
      PROVE  /\ task[j].at = "ending" /\ task'[j].at = "exited"
             /\ \A i \in StreamIds : i # j => task'[i] = task[i]
  BY <1>0, <1>4 DEF Exit, Tasks
<1>5. \/ task' = task
      \/ \E j \in StreamIds : \/ OpenStream(j) \/ HandleRequestBody(j) \/ ForwardWindow(j) \/ Finish(j)
                              \/ Exit(j)
  BY DEF Next, vars, RecvData, Stream, Handler, Consume, ReturnBody, Read, DropBody, Drain, Connection,
         UpdatePeerWindow, StreamFailed, StreamClosed
<1>6. task[id].at \in {"unused", "serving", "ending", "exited"}
  BY <1>0 DEF Tasks
<1> QED
  BY <1>1, <1>2, <1>3, <1>4, <1>5, <1>6

LEMMA NoneEndedBefore ==
    ASSUME TypeOK, [Next]_vars, NoneEnded'
    PROVE  NoneEnded
<1>1. \A id \in StreamIds : task[id].at \in {"unused", "serving", "ending", "exited"}
  BY Types DEF Tasks
<1> QED
  BY <1>1, TaskSteps DEF NoneEnded

\* The window the server has an account of: all of it, or what streams that ended have
\* left of it.
Balance ==
    Running =>
        /\ peer_window + Outstanding + Returning(StreamIds) <= GlobalPeerWindow
        /\ NoneEnded => peer_window + Outstanding + Returning(StreamIds) = GlobalPeerWindow

LEMMA NextBalance ==
    ASSUME TypeOK, NoWindow, Emptied, Balance, [Next]_vars
    PROVE  Balance'
<1> DEFINE Back == Returning(StreamIds)
           Kept == /\ peer_window' + Outstanding' + Back' <= GlobalPeerWindow
                   /\ NoneEnded' => peer_window' + Outstanding' + Back' = GlobalPeerWindow
<1> SUFFICES ASSUME Running' PROVE Kept
  BY DEF Balance
<1>0. /\ peer_window \in Nat /\ Outstanding \in Nat /\ Back \in Nat /\ GlobalPeerWindow \in Nat
  BY Types, OutstandingType, ReturningGiven, Constants
<1>1. Running /\ (NoneEnded' => NoneEnded)
  BY RunningBefore, NoneEndedBefore
<1>2. /\ peer_window + Outstanding + Back <= GlobalPeerWindow
      /\ NoneEnded' => peer_window + Outstanding + Back = GlobalPeerWindow
  BY <1>1 DEF Balance
<1>3. ASSUME peer_window' + Outstanding' + Back' = peer_window + Outstanding + Back
      PROVE  Kept
  BY <1>2, <1>3
<1>30. ASSUME ~NoneEnded', peer_window' = peer_window, Back' = Back,
              Outstanding' \in Int, Outstanding' <= Outstanding
       PROVE  Kept
  BY <1>0, <1>2, <1>30
<1> HIDE DEF Back, Kept
<1>4. CASE UNCHANGED vars
  <2>1. peer_window' = peer_window /\ Outstanding' = Outstanding /\ Back' = Back
    BY <1>4 DEF vars, connVars, bodyVars, Outstanding, Buffered, Back, Returning
  <2> QED
    BY <1>3, <2>1
<1>5. ASSUME NEW id \in StreamIds, OpenStream(id) PROVE Kept
  <2>1. \A j \in StreamIds : body'[j].len = body[j].len
    <3>1. body \in [StreamIds -> States]
      BY Types
    <3> QED
      BY <1>5, <3>1 DEF OpenStream, States
  <2>2. \A j \in StreamIds : Stock(j)' = Stock(j)
    BY <1>5, <2>1 DEF OpenStream, Stock, Buffered
  <2>3. Outstanding' = Outstanding + 0
    <3>1. Stock(id) \in Nat
      BY Types, StockType
    <3>2. Stock(id)' = Stock(id) + 0 /\ 0 \in Int
      BY <2>2, <3>1
    <3> QED
      BY <2>2, <3>2, OutstandingChange
  <2>4. peer_window' = peer_window /\ Back' = Back
    BY <1>5, ReturningSame DEF OpenStream, Back
  <2> QED
    BY <1>0, <1>3, <2>3, <2>4
<1>6. ASSUME NEW id \in StreamIds, NEW n \in Nat, NEW pad \in Nat, RecvData(id, n, pad) PROVE Kept
  <2>1. Receive(id, n) /\ ~(n > peer_window)
    BY <1>1, <1>6 DEF RecvData, Refuse, Running
  <2>2. Outstanding' = Outstanding + n
    BY <1>6, <2>1, StockReceived DEF RecvData
  <2>3. peer_window' = peer_window - n /\ Back' = Back
    BY <1>6, <2>1, ReturningSame DEF RecvData, Receive, Back
  <2>4. peer_window - n \in Nat
    BY <1>0, <2>1
  <2> QED
    BY <1>0, <1>3, <2>2, <2>3, <2>4
<1>7. CASE Connection
  <2>1. PICK a \in Nat : a = Head(conn_rx).amount
    BY <1>7, ReturningTaken
  <2>2. Head(conn_rx).id \in StreamIds
    BY <1>7, ReturningTaken
  <2>3. Back' = Back - a
    BY <1>7, <2>1, <2>2, ReturningTaken DEF Back
  <2>4. UNCHANGED <<rx, window_rx, bodyVars>>
    BY <1>7 DEF Connection, UpdatePeerWindow, StreamFailed, StreamClosed
  <2>5. Outstanding' = Outstanding
    BY <2>4 DEF Outstanding, Buffered, bodyVars
  <2>6. peer_window' = peer_window + a
    <3>1. CASE UpdatePeerWindow
      BY <1>1, <2>1, <3>1 DEF UpdatePeerWindow, Running
    <3>2. CASE ~UpdatePeerWindow
      <4>1. a = 0
        BY <1>7, <2>1, <3>2, ReturningTaken
      <4>2. peer_window' = peer_window
        BY <1>7, <3>2 DEF Connection, StreamFailed, StreamClosed
      <4> QED
        BY <1>0, <4>1, <4>2
    <3> QED
      BY <3>1, <3>2
  <2> QED
    BY <1>0, <1>3, <2>3, <2>5, <2>6
<1>8. ASSUME NEW id \in StreamIds, Stream(id) PROVE Kept
  <2>0. task \in [StreamIds -> Tasks]
    BY Types
  <2>1. peer_window' = peer_window
    BY <1>8 DEF Stream, HandleRequestBody, ForwardWindow, Finish, Exit, connVars
  <2>2. CASE HandleRequestBody(id)
    <3>1. Back' = Back
      BY <2>2, ReturningSame DEF HandleRequestBody, Back
    <3>2. CASE PassOn(id, Head(rx[id]))
      <4>1. Outstanding' = Outstanding
        BY <2>2, <3>2, StockPassed
      <4> QED
        BY <1>3, <2>1, <3>1, <4>1
    <3>3. ASSUME NEW e, Fails(id, e) PROVE Kept
      <4>1. Outstanding' \in Int /\ Outstanding' <= Outstanding
        BY <2>2, <3>3, StockFailed
      <4>2. task'[id].at = "ending"
        BY <2>0, <3>3 DEF Fails, Tasks
      <4>3. ~NoneEnded'
        BY <4>2 DEF NoneEnded
      <4> QED
        BY <1>30, <2>1, <3>1, <4>1, <4>3
    <3> QED
      BY <2>2, <3>2, <3>3 DEF HandleRequestBody
  <2>3. CASE ForwardWindow(id)
    <3>1. PICK n \in Nat : n = Head(window_rx[id])
      BY <2>3, StockForwarded
    <3>2. Outstanding' = Outstanding - n
      BY <2>3, <3>1, StockForwarded
    <3>3. Back' = Back + n
      BY <2>3, <3>1, ReturningForwarded DEF Back
    <3> QED
      BY <1>0, <1>3, <2>1, <3>2, <3>3
  <2>4. CASE Finish(id)
    <3>1. Back' = Back /\ Outstanding' = Outstanding
      BY <2>4, ReturningSame DEF Finish, Back, Outstanding, Buffered, bodyVars
    <3> QED
      BY <1>3, <2>1, <3>1
  <2>5. CASE Exit(id)
    <3>1. task'[id].at = "exited"
      BY <2>0, <2>5 DEF Exit, Tasks
    <3>2. ~NoneEnded'
      BY <3>1 DEF NoneEnded
    <3>3. Outstanding' \in Int /\ Outstanding' <= Outstanding
      BY <2>5, StockExited
    <3>4. Back' = Back
      BY <2>5, ReturningExited DEF Back
    <3> QED
      BY <1>30, <2>1, <3>2, <3>3, <3>4
  <2> QED
    BY <1>8, <2>2, <2>3, <2>4, <2>5 DEF Stream
<1>9. ASSUME NEW id \in StreamIds, Handler(id) \/ Drain(id) PROVE Kept
  <2>1. peer_window' = peer_window /\ conn_rx' = conn_rx /\ task' = task
    BY <1>9 DEF Handler, Consume, ReturnBody, Read, DropBody, Drain, connVars
  <2>2. Back' = Back
    BY <2>1, ReturningSame DEF Back
  <2>3. CASE ~Exited(id)
    <3>1. Outstanding' = Outstanding
      BY <1>9, <2>3, StockRead
    <3> QED
      BY <1>3, <2>1, <2>2, <3>1
  <2>4. CASE Exited(id)
    <3>1. ~NoneEnded'
      BY <2>1, <2>4 DEF NoneEnded, Exited
    <3>2. Outstanding' \in Int /\ Outstanding' <= Outstanding
      BY <1>9, <2>4, StockReadLate
    <3> QED
      BY <1>30, <2>1, <2>2, <3>1, <3>2
  <2> QED
    BY <2>3, <2>4
<1>10. \A f \in Frames : f[1] \in Nat /\ f[2] \in Nat
  BY Constants
<1> QED
  BY <1>4, <1>5, <1>6, <1>7, <1>8, <1>9, <1>10 DEF Next

-----------------------------------------------------------------------------
(* The window of a stream. *)

\* The account of a stream that has not been opened is still empty.
NotYet(id) ==
    /\ rx[id] = << >> /\ stream_credit[id] = PeerWindow /\ padding[id] = 0
    /\ Returning({id}) = 0

Fresh == \A id \in StreamIds : task[id].at = "unused" => NotYet(id)

LEMMA ReturningNatural ==
    ASSUME TypeOK, Connection, NEW ids
    PROVE  Returning(ids)' \in Nat
<1>1. conn_rx' \in Seq(Amounts)
  BY Types, Taken DEF Connection, UpdatePeerWindow, StreamFailed, StreamClosed
<1>2. Returning(ids)' = Total[Given(conn_rx', ids)]
  BY DEF Returning, Given
<1> QED
  BY <1>1, <1>2, GivenType, TotalNatural

\* What the connection task does to the account of a stream.
LEMMA ConnectionAccount ==
    ASSUME TypeOK, NoWindow, Connection, NEW id \in StreamIds
    PROVE  \E a \in Nat : /\ Returning({id})' = Returning({id}) - a
                          /\ Running' => stream_credit'[id] = stream_credit[id] + a
                          /\ stream_credit'[id] \in {stream_credit[id], stream_credit[id] + a}
<1>0. stream_credit \in [StreamIds -> Int] /\ Returning({id}) \in Nat
  BY Types, ReturningGiven
<1>1. PICK n \in Nat, j \in StreamIds : n = Head(conn_rx).amount /\ j = Head(conn_rx).id
  BY ReturningTaken
<1>2. Returning({id})' = Returning({id}) - IF j \in {id} THEN n ELSE 0
  BY <1>1, ReturningTaken
<1>3. CASE UpdatePeerWindow
  <2>1. CASE peer_window + n > MaxInt
    <3>1. stream_credit' = stream_credit /\ ~Running'
      BY <1>1, <1>3, <2>1 DEF UpdatePeerWindow, Running
    <3>2. (IF j \in {id} THEN n ELSE 0) \in Nat
      OBVIOUS
    <3> QED
      BY <1>2, <3>1, <3>2
  <2>2. CASE ~(peer_window + n > MaxInt)
    <3>1. stream_credit' = [stream_credit EXCEPT ![j] = @ + n]
      BY <1>1, <1>3, <2>2 DEF UpdatePeerWindow
    <3>2. CASE j = id
      BY <1>0, <1>2, <3>1, <3>2
    <3>3. CASE j # id
      BY <1>0, <1>2, <3>1, <3>3
    <3> QED
      BY <3>2, <3>3
  <2> QED
    BY <2>1, <2>2
<1>4. CASE ~UpdatePeerWindow
  <2>1. n = 0 /\ stream_credit' = stream_credit
    BY <1>1, <1>4, ReturningTaken DEF Connection, StreamFailed, StreamClosed, peerVars
  <2> QED
    BY <1>0, <1>2, <2>1
<1> QED
  BY <1>3, <1>4

LEMMA NextFresh ==
    ASSUME TypeOK, NoWindow, Fresh, [Next]_vars
    PROVE  Fresh'
<1> SUFFICES ASSUME NEW id \in StreamIds, task'[id].at = "unused"
             PROVE  NotYet(id)'
  BY DEF Fresh
<1>0. /\ rx \in [StreamIds -> Seq(Nat)] /\ stream_credit \in [StreamIds -> Int]
      /\ padding \in [StreamIds -> Nat]
  BY Types
<1>1. task[id].at = "unused"
  BY TaskSteps
<1>2. NotYet(id)
  BY <1>1 DEF Fresh
<1>3. CASE UNCHANGED vars
  BY <1>2, <1>3, ReturningSame DEF vars, peerVars, NotYet
<1>4. ASSUME NEW j \in StreamIds, OpenStream(j) \/ Handler(j) \/ Drain(j)
      PROVE  NotYet(id)'
  BY <1>2, <1>4, ReturningSame
  DEF OpenStream, Handler, Consume, ReturnBody, Read, DropBody, Drain, peerVars, NotYet
<1>5. ASSUME NEW j \in StreamIds, NEW n \in Nat, NEW pad \in Nat, RecvData(j, n, pad)
      PROVE  NotYet(id)'
  <2>1. j # id /\ conn_rx' = conn_rx
    BY <1>1, <1>5 DEF RecvData
  <2>2. rx' = rx \/ rx' = [rx EXCEPT ![j] = Append(@, n)]
    BY <1>5 DEF RecvData, Receive, Refuse
  <2>3. /\ stream_credit' = [stream_credit EXCEPT ![j] = @ - (n + pad)]
        /\ padding' = [padding EXCEPT ![j] = @ + pad]
    BY <1>5 DEF RecvData, Pay
  <2>4. /\ rx'[id] = rx[id] /\ stream_credit'[id] = stream_credit[id]
        /\ padding'[id] = padding[id]
    BY <1>0, <2>1, <2>2, <2>3
  <2> QED
    BY <1>2, <2>1, <2>4, ReturningSame DEF NotYet
<1>6. CASE Connection
  <2>1. rx' = rx /\ padding' = padding
    BY <1>6 DEF Connection, UpdatePeerWindow, StreamFailed, StreamClosed, peerVars
  <2>2. PICK a \in Nat : /\ Returning({id})' = Returning({id}) - a
                         /\ stream_credit'[id] \in {stream_credit[id], stream_credit[id] + a}
    BY <1>6, ConnectionAccount
  <2>3. Returning({id})' \in Nat
    BY <1>6, ReturningNatural
  <2>4. a = 0
    BY <1>2, <2>2, <2>3 DEF NotYet
  <2> QED
    BY <1>0, <1>2, <2>1, <2>2, <2>4 DEF NotYet
<1>7. ASSUME NEW j \in StreamIds, Stream(j)
      PROVE  NotYet(id)'
  <2>1. j # id /\ stream_credit' = stream_credit /\ padding' = padding
    BY <1>1, <1>7 DEF Stream, HandleRequestBody, ForwardWindow, Finish, Exit, Serving, peerVars
  <2>2. rx'[id] = rx[id]
    BY <1>0, <1>7, <2>1 DEF Stream, HandleRequestBody, ForwardWindow, Finish, Exit
  <2>3. Returning({id})' = Returning({id})
    <3>1. CASE ForwardWindow(j)
      <4>1. Returning({id})' = Returning({id}) + 0
        BY <2>1, <3>1, ReturningForwarded
      <4> QED
        BY <1>2, <4>1 DEF NotYet
    <3>2. CASE Exit(j)
      BY <3>2, ReturningExited
    <3>3. CASE HandleRequestBody(j) \/ Finish(j)
      BY <3>3, ReturningSame DEF HandleRequestBody, Finish
    <3> QED
      BY <1>7, <3>1, <3>2, <3>3 DEF Stream
  <2> QED
    BY <1>2, <2>1, <2>2, <2>3 DEF NotYet
<1>8. \A f \in Frames : f[1] \in Nat /\ f[2] \in Nat
  BY Constants
<1> QED
  BY <1>3, <1>4, <1>5, <1>6, <1>7, <1>8 DEF Next

Agrees(id) ==
    stream_credit[id] + padding[id] = task[id].peer_window - Total[rx[id]] - Returning({id})

LEMMA NextAgrees ==
    ASSUME TypeOK, NoWindow, Fresh, StreamWindowAgrees, [Next]_vars
    PROVE  StreamWindowAgrees'
<1> SUFFICES ASSUME NEW id \in StreamIds, Running', task'[id].at = "serving"
             PROVE  Agrees(id)'
  BY DEF StreamWindowAgrees, Serving, Agrees
<1>0. /\ rx \in [StreamIds -> Seq(Nat)] /\ stream_credit \in [StreamIds -> Int]
      /\ window_rx \in [StreamIds -> Seq(Nat)] /\ padding \in [StreamIds -> Nat]
      /\ task \in [StreamIds -> Tasks] /\ task[id].peer_window \in Nat
      /\ Total[rx[id]] \in Nat /\ Returning({id}) \in Nat
      /\ task[id].at \in {"unused", "serving", "ending", "exited"}
  BY Types, Totals, ReturningGiven DEF Tasks
<1>1. Running
  BY RunningBefore
<1>2. task[id].at \in {"unused", "serving"}
  BY <1>0, TaskSteps
<1>3. task[id].at = "serving" => Agrees(id)
  BY <1>1 DEF StreamWindowAgrees, Serving, Agrees
<1>4. CASE task[id].at = "unused"
  <2>1. OpenStream(id)
    BY <1>4, TaskSteps
  <2>2. /\ rx[id] = << >> /\ stream_credit[id] = PeerWindow /\ padding[id] = 0
        /\ Returning({id}) = 0
    BY <1>4 DEF Fresh, NotYet
  <2>3. /\ rx' = rx /\ stream_credit' = stream_credit /\ padding' = padding /\ conn_rx' = conn_rx
        /\ task'[id].peer_window = PeerWindow
    BY <1>0, <2>1 DEF OpenStream, peerVars, Tasks
  <2>4. Returning({id})' = 0 /\ Total[rx'[id]] = 0
    BY <2>2, <2>3, ReturningSame, TotalDefined
  <2> QED
    BY <2>2, <2>3, <2>4, Constants DEF Agrees
<1> SUFFICES ASSUME task[id].at = "serving"
             PROVE  Agrees(id)'
  BY <1>2, <1>4
<1>5. CASE UNCHANGED vars
  BY <1>3, <1>5, ReturningSame DEF vars, peerVars, Agrees
<1>6. ASSUME NEW j \in StreamIds, OpenStream(j) \/ Handler(j) \/ Drain(j)
      PROVE  Agrees(id)'
  <2>1. task'[id] = task[id]
    BY <1>0, <1>6 DEF OpenStream, Handler, Consume, ReturnBody, Read, DropBody, Drain
  <2>2. UNCHANGED <<rx, stream_credit, padding, conn_rx>>
    BY <1>6 DEF OpenStream, Handler, Consume, ReturnBody, Read, DropBody, Drain, peerVars
  <2> QED
    BY <1>3, <2>1, <2>2, ReturningSame DEF Agrees
<1>7. ASSUME NEW j \in StreamIds, NEW n \in Nat, NEW pad \in Nat, RecvData(j, n, pad)
      PROVE  Agrees(id)'
  <2>1. task' = task /\ conn_rx' = conn_rx
    BY <1>7 DEF RecvData
  <2>2. rx' = [rx EXCEPT ![j] = Append(@, n)]
    BY <1>1, <1>7 DEF RecvData, Receive, Refuse, Running
  <2>3. /\ stream_credit' = [stream_credit EXCEPT ![j] = @ - (n + pad)]
        /\ padding' = [padding EXCEPT ![j] = @ + pad]
    BY <1>7 DEF RecvData, Pay
  <2>4. Returning({id})' = Returning({id})
    BY <2>1, ReturningSame
  <2>5. CASE j = id
    <3>1. /\ rx'[id] = Append(rx[id], n) /\ stream_credit'[id] = stream_credit[id] - (n + pad)
          /\ padding'[id] = padding[id] + pad
      BY <1>0, <2>2, <2>3, <2>5
    <3>2. Total[Append(rx[id], n)] = Total[rx[id]] + n
      BY <1>0, Totals
    <3>3. PICK c \in Int, p \in Nat, w \in Nat, t \in Nat, r \in Nat :
              /\ c = stream_credit[id] /\ p = padding[id] /\ w = task[id].peer_window
              /\ t = Total[rx[id]] /\ r = Returning({id})
      BY <1>0
    <3>4. c + p = w - t - r
      BY <1>3, <3>3 DEF Agrees
    <3>5. (c - (n + pad)) + (p + pad) = w - (t + n) - r
      BY <3>4
    <3>6. stream_credit'[id] + padding'[id] = task[id].peer_window - Total[rx'[id]] - Returning({id})
      BY <3>1, <3>2, <3>3, <3>5
    <3> QED
      BY <2>1, <2>4, <3>6 DEF Agrees
  <2>6. CASE j # id
    <3>1. /\ rx'[id] = rx[id] /\ stream_credit'[id] = stream_credit[id]
          /\ padding'[id] = padding[id]
      BY <1>0, <2>2, <2>3, <2>6
    <3> QED
      BY <1>3, <2>1, <2>4, <3>1 DEF Agrees
  <2> QED
    BY <2>5, <2>6
<1>8. CASE Connection
  <2>1. rx' = rx /\ task' = task /\ padding' = padding
    BY <1>8 DEF Connection, UpdatePeerWindow, StreamFailed, StreamClosed, peerVars
  <2>2. PICK a \in Nat : /\ Returning({id})' = Returning({id}) - a
                         /\ stream_credit'[id] = stream_credit[id] + a
    BY <1>8, ConnectionAccount
  <2>3. PICK c \in Int, p \in Nat, w \in Nat, t \in Nat, r \in Nat :
            /\ c = stream_credit[id] /\ p = padding[id] /\ w = task[id].peer_window
            /\ t = Total[rx[id]] /\ r = Returning({id})
    BY <1>0
  <2>4. c + p = w - t - r
    BY <1>3, <2>3 DEF Agrees
  <2>5. (c + a) + p = w - t - (r - a)
    BY <2>4
  <2> QED
    BY <2>1, <2>2, <2>3, <2>5 DEF Agrees
<1>9. ASSUME NEW j \in StreamIds, j # id, Stream(j)
      PROVE  Agrees(id)'
  <2>1. stream_credit' = stream_credit /\ padding' = padding
    BY <1>9 DEF Stream, HandleRequestBody, ForwardWindow, Finish, Exit, peerVars
  <2>2. rx'[id] = rx[id]
    BY <1>0, <1>9 DEF Stream, HandleRequestBody, ForwardWindow, Finish, Exit
  <2>3. task'[id] = task[id]
    BY <1>0, <1>9 DEF Stream, HandleRequestBody, Fails, PassOn, ForwardWindow, Finish, Exit
  <2>4. Returning({id})' = Returning({id})
    <3>1. CASE ForwardWindow(j)
      <4>1. Returning({id})' = Returning({id}) + 0
        BY <1>9, <3>1, ReturningForwarded
      <4> QED
        BY <1>0, <4>1
    <3>2. CASE Exit(j)
      BY <3>2, ReturningExited
    <3>3. CASE HandleRequestBody(j) \/ Finish(j)
      BY <3>3, ReturningSame DEF HandleRequestBody, Finish
    <3> QED
      BY <1>9, <3>1, <3>2, <3>3 DEF Stream
  <2> QED
    BY <1>3, <2>1, <2>2, <2>3, <2>4 DEF Agrees
<1>10. CASE HandleRequestBody(id)
  <2>1. PICK n \in Nat : n = Head(rx[id])
    BY <1>0, <1>10, Get DEF HandleRequestBody
  <2>2. PassOn(id, n)
    <3>1. ASSUME NEW e, Fails(id, e) PROVE task'[id].at = "ending"
      BY <1>0, <3>1 DEF Fails, Tasks
    <3> QED
      BY <1>10, <2>1, <3>1 DEF HandleRequestBody
  <2>3. /\ rx[id] # << >> /\ rx'[id] = Tail(rx[id])
        /\ UNCHANGED <<stream_credit, padding, conn_rx>>
    BY <1>0, <1>10 DEF HandleRequestBody, peerVars
  <2>4. task'[id].peer_window = task[id].peer_window - n
    BY <1>0, <2>2 DEF PassOn, Tasks
  <2>5. Total[rx[id]] = n + Total[rx'[id]] /\ Total[rx'[id]] \in Nat
    <3>1. /\ Total[rx[id]] = Head(rx[id]) + Total[Tail(rx[id])]
          /\ Total[Tail(rx[id])] \in Nat
      BY <1>0, <2>3, Totals
    <3> QED
      BY <2>1, <2>3, <3>1
  <2>6. Returning({id})' = Returning({id})
    BY <2>3, ReturningSame
  <2>7. PICK w \in Nat, t \in Nat, u \in Nat, r \in Nat :
            /\ w = task[id].peer_window /\ t = Total[rx[id]] /\ u = Total[rx'[id]] /\ r = Returning({id})
    BY <1>0, <2>5
  <2>8. stream_credit[id] + padding[id] = w - t - r /\ t = n + u
    BY <1>3, <2>5, <2>7 DEF Agrees
  <2>9. stream_credit[id] + padding[id] = (w - n) - u - r
    BY <2>8
  <2> QED
    BY <2>3, <2>4, <2>6, <2>7, <2>9 DEF Agrees
<1>11. CASE ForwardWindow(id)
  <2>1. PICK n \in Nat : n = Head(window_rx[id])
    BY <1>0, <1>11, Get DEF ForwardWindow
  <2>2. Returning({id})' = Returning({id}) + n
    BY <1>11, <2>1, ReturningForwarded
  <2>3. task'[id].peer_window = task[id].peer_window + n
    BY <1>0, <1>11, <2>1 DEF ForwardWindow, Tasks
  <2>4. rx' = rx /\ stream_credit' = stream_credit /\ padding' = padding
    BY <1>11 DEF ForwardWindow, peerVars
  <2> QED
    BY <1>0, <1>3, <2>2, <2>3, <2>4 DEF Agrees
<1>12. ~Finish(id) /\ ~Exit(id)
  BY <1>0 DEF Finish, Exit, Tasks
<1>13. \A f \in Frames : f[1] \in Nat /\ f[2] \in Nat
  BY Constants
<1> QED
  BY <1>5, <1>6, <1>7, <1>8, <1>9, <1>10, <1>11, <1>12, <1>13 DEF Next, Stream

-----------------------------------------------------------------------------
(* The accusation. *)

\* The peer's view of the connection's window, which is the server's but for padding, and
\* what it has left of the streams' as long as it keeps to them.
Granted ==
    /\ Running => credit + Spoilt = peer_window
    /\ overdrawn \/ \A id \in StreamIds : stream_credit[id] >= 0

LEMMA SpoiltType ==
    ASSUME TypeOK
    PROVE  Spoilt \in Nat
BY Types, OverNatural, Constants DEF Spoilt

LEMMA SpoiltChange ==
    ASSUME TypeOK, NEW id \in StreamIds, NEW pad \in Nat,
           padding' = [padding EXCEPT ![id] = @ + pad]
    PROVE  Spoilt' = Spoilt + pad
<1> DEFINE g == [padding EXCEPT ![id] = @ + pad]
<1>1. /\ padding \in [StreamIds -> Int] /\ g \in [StreamIds -> Int] /\ pad \in Int
      /\ g[id] = padding[id] + pad /\ \A j \in StreamIds : j # id => g[j] = padding[j]
  BY Types
<1>2. padding' = g
  OBVIOUS
<1> HIDE DEF g
<1>3. Over(StreamIds, g) = Over(StreamIds, padding) + pad
  BY <1>1, OverChange, Constants
<1> QED
  BY <1>2, <1>3 DEF Spoilt

LEMMA NextGranted ==
    ASSUME TypeOK, NoWindow, Granted, [Next]_vars
    PROVE  Granted'
<1>0. stream_credit \in [StreamIds -> Int] /\ credit \in Int /\ peer_window \in Nat
  BY Types
<1>1. Running' => Running
  BY RunningBefore
<1>2. CASE UNCHANGED <<exit, peer_window, peerVars>>
  BY <1>2 DEF Granted, Running, peerVars, Spoilt
<1>3. ASSUME NEW id \in StreamIds, NEW n \in Nat, NEW pad \in Nat, RecvData(id, n, pad) PROVE Granted'
  <2>1. Running' => credit' + Spoilt' = peer_window'
    <3>1. Running' => peer_window' = peer_window - n
      BY <1>3 DEF RecvData, Receive, Refuse, Running
    <3>2. credit' = credit - (n + pad)
      BY <1>3 DEF RecvData, Pay
    <3>3. Spoilt' = Spoilt + pad /\ Spoilt \in Nat
      BY <1>3, SpoiltChange, SpoiltType DEF RecvData, Pay
    <3> QED
      BY <1>0, <1>1, <3>1, <3>2, <3>3 DEF Granted
  <2>2. overdrawn' \/ \A j \in StreamIds : stream_credit'[j] >= 0
    <3>1. CASE overdrawn \/ n + pad > stream_credit[id]
      BY <1>3, <3>1 DEF RecvData, Pay
    <3>2. CASE ~(overdrawn \/ n + pad > stream_credit[id])
      <4>1. stream_credit' = [stream_credit EXCEPT ![id] = @ - (n + pad)]
        BY <1>3 DEF RecvData, Pay
      <4>2. \A j \in StreamIds : stream_credit[j] >= 0
        BY <3>2 DEF Granted
      <4>3. stream_credit'[id] >= 0
        BY <1>0, <3>2, <4>1
      <4>4. \A j \in StreamIds : j # id => stream_credit'[j] = stream_credit[j]
        BY <1>0, <4>1
      <4> QED
        BY <4>2, <4>3, <4>4
    <3> QED
      BY <3>1, <3>2
  <2> QED
    BY <2>1, <2>2 DEF Granted
<1>4. CASE Connection
  <2>1. Running' => credit' + Spoilt' = peer_window'
    <3>1. Spoilt' = Spoilt /\ Spoilt \in Nat
      BY <1>4, SpoiltType
      DEF Connection, UpdatePeerWindow, StreamFailed, StreamClosed, peerVars, Spoilt
    <3>2. PICK a \in Nat : Running' => credit' = credit + a /\ peer_window' = peer_window + a
      <4>1. CASE UpdatePeerWindow
        BY <1>4, <4>1, ReturningTaken DEF UpdatePeerWindow, Running
      <4>2. CASE ~UpdatePeerWindow
        BY <1>0, <1>4, <4>2 DEF Connection, StreamFailed, StreamClosed, peerVars
      <4> QED
        BY <4>1, <4>2
    <3> QED
      BY <1>0, <1>1, <3>1, <3>2 DEF Granted
  <2>2. \A j \in StreamIds : stream_credit'[j] >= stream_credit[j]
    <3> TAKE j \in StreamIds
    <3>1. PICK a \in Nat : stream_credit'[j] \in {stream_credit[j], stream_credit[j] + a}
      BY <1>4, ConnectionAccount
    <3> QED
      BY <1>0, <3>1
  <2>3. overdrawn' = overdrawn
    BY <1>4 DEF Connection, UpdatePeerWindow, StreamFailed, StreamClosed, peerVars
  <2>4. \A j \in StreamIds : stream_credit[j] \in Int /\ stream_credit'[j] \in Int
    <3> TAKE j \in StreamIds
    <3>1. PICK a \in Nat : stream_credit'[j] \in {stream_credit[j], stream_credit[j] + a}
      BY <1>4, ConnectionAccount
    <3> QED
      BY <1>0, <3>1
  <2>5. \A j \in StreamIds : stream_credit[j] >= 0 => stream_credit'[j] >= 0
    BY <2>2, <2>4
  <2> QED
    BY <2>1, <2>3, <2>5 DEF Granted
<1>5. Connection \/ UNCHANGED <<exit, peer_window, peerVars>>
      \/ \E id \in StreamIds : \E f \in Frames : RecvData(id, f[1], f[2])
  BY DEF Next, vars, connVars, OpenStream, Stream, HandleRequestBody, ForwardWindow, Finish,
         Exit, Handler, Consume, ReturnBody, Read, DropBody, Drain
<1>6. \A f \in Frames : f[1] \in Nat /\ f[2] \in Nat
  BY Constants
<1> QED
  BY <1>2, <1>3, <1>4, <1>5, <1>6

LEMMA NextNoAccusation ==
    ASSUME TypeOK, StreamWindowAgrees, Granted, NoFalseAccusation, [Next]_vars
    PROVE  NoFalseAccusation'
<1>0. /\ stream_credit \in [StreamIds -> Int] /\ credit \in Int /\ peer_window \in Nat
      /\ task \in [StreamIds -> Tasks]
      /\ rx \in [StreamIds -> Seq(Nat)]
  BY Types
<1>1. overdrawn => overdrawn'
  <2>1. ASSUME NEW id \in StreamIds, NEW n, NEW pad, RecvData(id, n, pad), overdrawn
        PROVE  overdrawn'
    BY <2>1 DEF RecvData, Pay
  <2>2. ASSUME Connection PROVE overdrawn' = overdrawn
    BY <2>2 DEF Connection, UpdatePeerWindow, StreamFailed, StreamClosed, peerVars
  <2>3. \/ Connection \/ UNCHANGED overdrawn
        \/ \E id \in StreamIds : \E f \in Frames : RecvData(id, f[1], f[2])
    BY DEF Next, vars, peerVars, OpenStream, Stream, HandleRequestBody, ForwardWindow, Finish, Exit, Handler,
           Consume, ReturnBody, Read, DropBody, Drain
  <2> QED
    BY <2>1, <2>2, <2>3
<1> SUFFICES ASSUME ~overdrawn, ~overdrawn'
             PROVE  exit' # "flow control" /\ \A id \in StreamIds : task'[id].error # "flow control"
  BY <1>1 DEF NoFalseAccusation
<1>2. exit # "flow control" /\ \A id \in StreamIds : task[id].error # "flow control"
  BY DEF NoFalseAccusation
<1>3. \A id \in StreamIds : stream_credit[id] >= 0
  BY DEF Granted
<1>4. ASSUME NEW id \in StreamIds, NEW n \in Nat, NEW pad \in Nat, RecvData(id, n, pad)
      PROVE  exit' # "flow control" /\ task' = task
  <2>1. ~(n + pad > credit)
    BY <1>4 DEF RecvData, Pay
  <2>2. credit + Spoilt = peer_window /\ Spoilt \in Nat
    BY <1>4, SpoiltType DEF RecvData, Granted
  <2>3. ~(n > peer_window)
    BY <1>0, <2>1, <2>2
  <2> QED
    BY <1>2, <1>4, <2>3 DEF RecvData, Refuse, Receive
<1>5. CASE Connection
  <2>1. task' = task /\ Head(conn_rx).id \in StreamIds
    <3>1. conn_rx # << >>
      BY <1>5 DEF Connection, UpdatePeerWindow, StreamFailed, StreamClosed
    <3>2. Head(conn_rx) = conn_rx[1] /\ 1 \in DOMAIN conn_rx
      BY <3>1, Types
    <3> QED
      BY <1>5, <3>2, Queued DEF Connection, UpdatePeerWindow, StreamFailed, StreamClosed
  <2>2. exit' \in {exit, "overflow", task[Head(conn_rx).id].error}
    BY <1>5 DEF Connection, UpdatePeerWindow, StreamFailed, StreamClosed
  <2> QED
    BY <1>2, <2>1, <2>2
\* A frame that a stream has been sent was in the peer's credit, and so it is in the
\* stream's window: what it has granted meanwhile only adds to that.
<1>6. ASSUME NEW id \in StreamIds, HandleRequestBody(id)
      PROVE  exit' = exit /\ \A j \in StreamIds : task'[j].error # "flow control"
  <2>1. PICK n \in Nat : n = Head(rx[id])
    BY <1>0, <1>6, Get DEF HandleRequestBody
  <2>2. /\ task[id].peer_window \in Nat /\ Returning({id}) \in Nat
        /\ Total[Tail(rx[id])] \in Nat /\ Total[rx[id]] = n + Total[Tail(rx[id])]
    <3>1. task[id].peer_window \in Nat /\ Returning({id}) \in Nat
      BY <1>0, Types, ReturningGiven DEF Tasks
    <3>2. rx[id] # << >>
      BY <1>6 DEF HandleRequestBody
    <3>3. Total[Tail(rx[id])] \in Nat /\ Total[rx[id]] = Head(rx[id]) + Total[Tail(rx[id])]
      BY <1>0, <3>2, Totals
    <3> QED
      BY <2>1, <3>1, <3>3
  <2>3. stream_credit[id] + padding[id] = task[id].peer_window - Total[rx[id]] - Returning({id})
    BY <1>6 DEF HandleRequestBody, StreamWindowAgrees
  <2>4. ~(n > task[id].peer_window)
    <3>1. PICK w \in Nat, r \in Nat, u \in Nat :
              w = task[id].peer_window /\ r = Returning({id}) /\ u = Total[Tail(rx[id])]
      BY <2>2
    <3>2. stream_credit[id] + padding[id] = w - (n + u) - r
      BY <2>2, <2>3, <3>1
    <3>3. stream_credit[id] \in Int /\ stream_credit[id] >= 0 /\ padding[id] \in Nat
      BY <1>0, <1>3, Types
    <3>4. ~(n > w)
      BY <3>2, <3>3
    <3> QED
      BY <3>1, <3>4
  <2>5. \/ task' = [task EXCEPT ![id].at = "ending", ![id].error = "no body"]
        \/ task' = [task EXCEPT ![id].peer_window = @ - n]
    BY <1>6, <2>1, <2>4 DEF HandleRequestBody, Fails, PassOn
  <2>6. exit' = exit
    BY <1>6 DEF HandleRequestBody, connVars
  <2> QED
    BY <1>0, <1>2, <2>5, <2>6 DEF Tasks
<1>7. ASSUME NEW id \in StreamIds, OpenStream(id) \/ ForwardWindow(id) \/ Finish(id) \/ Exit(id)
      PROVE  exit' = exit /\ \A j \in StreamIds : task'[j].error # "flow control"
  BY <1>0, <1>2, <1>7, ZenonT(30) DEF OpenStream, ForwardWindow, Finish, Exit, connVars, Tasks
<1>8. ASSUME NEW id \in StreamIds, Handler(id) \/ Drain(id) PROVE exit' = exit /\ task' = task
  BY <1>8 DEF Handler, Consume, ReturnBody, Read, DropBody, Drain, connVars
<1>9. CASE UNCHANGED vars
  BY <1>2, <1>9 DEF vars, connVars
<1>10. \A f \in Frames : f[1] \in Nat /\ f[2] \in Nat
  BY Constants
<1> QED
  BY <1>2, <1>4, <1>5, <1>6, <1>7, <1>8, <1>9, <1>10 DEF Next, Stream

-----------------------------------------------------------------------------

\* The strengthening: what is queued carries window only where window comes back, a body
\* has no frame it has read to the end, streams start with an empty account, and the
\* peer's own count of the connection's window is the server's but for padding.
Inv ==
    /\ TypeInv
    /\ NoWindow /\ Emptied /\ Fresh /\ Granted
    /\ Balance /\ StreamWindowAgrees /\ NoFalseAccusation

LEMMA InitInv == Init => Inv
<1> SUFFICES ASSUME Init PROVE Inv
  OBVIOUS
<1>1. TypeInv
  BY InitTypeInv
<1>2. TypeOK
  BY <1>1 DEF TypeInv
<1>3. \A ids : Returning(ids) = 0
  <2> TAKE ids
  <2>1. conn_rx = << >>
    BY DEF Init
  <2>2. Given(conn_rx, ids) = << >>
    BY <2>1 DEF Given
  <2> QED
    BY <1>2, <2>2, Types, ReturningGiven, TotalDefined
<1>4. Outstanding = 0
  <2>1. \A id \in StreamIds : Stock(id) = 0
    <3> TAKE id \in StreamIds
    <3>1. rx[id] = << >> /\ window_rx[id] = << >> /\ background[id] = << >> /\ body[id].len = 0
      BY DEF Init, NoBody
    <3> QED
      BY <3>1, TotalDefined DEF Stock, Buffered
  <2> DEFINE f == [id \in StreamIds |-> Stock(id)]
  <2>2. f \in [StreamIds -> Int] /\ \A id \in StreamIds : f[id] = 0
    BY <2>1
  <2>3. Outstanding = Over(StreamIds, f)
    BY DEF Outstanding, Stock
  <2> HIDE DEF f
  <2> QED
    BY <2>2, <2>3, OverNothing, Constants
<1>5. NoWindow /\ Emptied /\ NoFalseAccusation
  <2>1. conn_rx = << >> /\ exit = "running"
        /\ \A id \in StreamIds : body[id].len = 0 /\ task[id].error = "none"
    BY DEF Init, NoBody
  <2>2. NoWindow
    BY <2>1 DEF NoWindow
  <2>3. Emptied
    BY <2>1 DEF Emptied
  <2>4. NoFalseAccusation
    BY <2>1 DEF NoFalseAccusation, Tasks
  <2> QED
    BY <2>2, <2>3, <2>4
<1>6. Fresh
  BY <1>3 DEF Init, Fresh, NotYet
<1>7. Granted
  <2>1. padding \in [StreamIds -> Int] /\ \A id \in StreamIds : padding[id] = 0
    BY DEF Init
  <2>2. Spoilt = 0
    BY <2>1, OverNothing, Constants DEF Spoilt
  <2>3. credit = GlobalPeerWindow /\ peer_window = GlobalPeerWindow
    BY DEF Init
  <2>4. \A id \in StreamIds : stream_credit[id] >= 0
    BY Constants DEF Init
  <2> QED
    BY <2>2, <2>3, <2>4, Constants DEF Granted
<1>8. Balance
  BY <1>3, <1>4, Constants DEF Init, Balance
<1>9. StreamWindowAgrees
  BY DEF Init, StreamWindowAgrees, Serving
<1> QED
  BY <1>1, <1>5, <1>6, <1>7, <1>8, <1>9 DEF Inv

LEMMA NextInv == Inv /\ [Next]_vars => Inv'
BY NextTypeInv, NextNoWindow, NextEmptied, NextFresh, NextGranted, NextBalance, NextAgrees,
   NextNoAccusation DEF Inv, TypeInv

LEMMA Invariance == Spec => []Inv
BY InitInv, NextInv, PTL DEF Spec

\* The peer's count of the connection's receive window is the server's less what it has
\* paid for padding, and that window, the data the server holds and the window on its way
\* back never add up to more than was granted: none comes back twice.  While every
\* stream serves they add up to all of it: none is lost (mod.rs, main_loop's data
\* arm and UpdatePeerWindow; BackgroundRead).
THEOREM ConnectionWindow == Spec => []ReceiveWindowConserved
<1>1. Granted /\ Balance => ReceiveWindowConserved
  BY DEF Granted, Balance, ReceiveWindowConserved
<1> QED
  BY <1>1, Invariance, PTL DEF Inv

\* While a stream serves, the window its task checks its data against is what the peer has
\* left of it, but for what the peer has paid for padding, the data and the window
\* messages between the two tasks.
THEOREM StreamWindow == Spec => []StreamWindowAgrees
BY Invariance, PTL DEF Inv

\* A peer that keeps to its windows, however its frames and the windows that come back
\* cross, is never told that it has not.
THEOREM NeverAccused == Spec => []NoFalseAccusation
BY Invariance, PTL DEF Inv
=============================================================================
