---------------------------- MODULE Server_proofs ----------------------------
(***************************************************************************)
(* Proofs about Server, for any listeners and connections: the counters of *)
(* the CounterTask lag behind by the events in its channels only, and what *)
(* follows from it for the moment the shutdown is reported complete.       *)
(***************************************************************************)
EXTENDS Server, TLAPS, FiniteSetTheorems

\* No event is twice in the queue, and an Open is in front of the Close.
InOrder(queue) ==
    \A i, j \in DOMAIN queue :
        queue[i].from = queue[j].from =>
            /\ queue[i].kind = queue[j].kind => i = j
            /\ queue[i].kind = "Open" /\ queue[j].kind = "Close" => i < j

\* What the channel holds of its senders, and what the count of them is: as long as the
\* Open of one that has closed is in the channel, its Close is there as well.
ListenersExact ==
    /\ InOrder(listener_events)
    /\ \A l \in Listeners :
           /\ Queued(listener_events, "Open", l) => listener[l] # "waiting"
           /\ Queued(listener_events, "Close", l) => listener[l] = "closed"
           /\ listener[l] = "closed" /\ Queued(listener_events, "Open", l)
                  => Queued(listener_events, "Close", l)
    /\ listener_counter = Cardinality(CountedListeners)

\* The same for connections, of which a refused one sends a Close only.
ConnectionsExact ==
    /\ InOrder(connection_events)
    /\ \A c \in Connections :
           /\ Queued(connection_events, "Open", c) => conn[c] \in {"open", "stuck", "closed"}
           /\ Queued(connection_events, "Close", c) => conn[c] \in {"closed", "refused"}
           /\ conn[c] = "closed" /\ Queued(connection_events, "Open", c)
                  => Queued(connection_events, "Close", c)
    /\ connection_counter <= Cardinality(CountedConnections)
    /\ Cardinality(CountedConnections) <= connection_counter + Cardinality(CountedRefusals)

\* The channels only keep what is sent as long as the CounterTask runs.
Inv == TypeOK /\ (counter = "running" => ListenersExact /\ ConnectionsExact)

-----------------------------------------------------------------------------
(* Queues of events. *)

\* A new event of the queue.
LEMMA QueueAppend ==
    ASSUME NEW S, NEW q \in Seq(Event(S)), NEW kind \in {"Open", "Close"}, NEW from \in S,
           InOrder(q), ~Queued(q, kind, from),
           kind = "Open" => ~Queued(q, "Close", from)
    PROVE  LET r == Append(q, [kind |-> kind, from |-> from]) IN
           /\ r \in Seq(Event(S)) /\ InOrder(r)
           /\ \A k, f : Queued(r, k, f) <=> Queued(q, k, f) \/ (k = kind /\ f = from)
<1> DEFINE e == [kind |-> kind, from |-> from]
           r == Append(q, e)
<1>1. r \in Seq(Event(S)) /\ e \in Event(S)
  BY DEF Event
<1>2. /\ DOMAIN r = 1..Len(q) + 1 /\ DOMAIN q = 1..Len(q) /\ Len(q) \in Nat
      /\ \A i \in DOMAIN q : r[i] = q[i]
      /\ r[Len(q) + 1] = e
  BY <1>1
<1>3. e.kind = kind /\ e.from = from
  OBVIOUS
<1> HIDE DEF e, r
<1>4. InOrder(r)
  <2> SUFFICES ASSUME NEW i \in DOMAIN r, NEW j \in DOMAIN r, r[i].from = r[j].from
               PROVE  /\ r[i].kind = r[j].kind => i = j
                      /\ r[i].kind = "Open" /\ r[j].kind = "Close" => i < j
    BY DEF InOrder
  <2>1. CASE i \in DOMAIN q /\ j \in DOMAIN q
    BY <2>1, <1>2 DEF InOrder
  <2>2. CASE i = Len(q) + 1 /\ j = Len(q) + 1
    BY <2>2, <1>2, <1>3
  <2>3. CASE i \in DOMAIN q /\ j = Len(q) + 1
    BY <2>3, <1>2, <1>3 DEF Queued
  <2>4. CASE i = Len(q) + 1 /\ j \in DOMAIN q
    BY <2>4, <1>2, <1>3 DEF Queued
  <2> QED
    BY <2>1, <2>2, <2>3, <2>4, <1>2
<1>5. ASSUME NEW k, NEW f
      PROVE  Queued(r, k, f) <=> Queued(q, k, f) \/ (k = kind /\ f = from)
  BY <1>2, <1>3 DEF Queued
<1> QED
  BY <1>1, <1>4, <1>5 DEF r, e

\* The first event is taken from the queue.
LEMMA QueueTail ==
    ASSUME NEW S, NEW q \in Seq(Event(S)), q # << >>, InOrder(q)
    PROVE  /\ Head(q) \in Event(S) /\ Queued(q, Head(q).kind, Head(q).from)
           /\ Tail(q) \in Seq(Event(S)) /\ InOrder(Tail(q))
           /\ Head(q).kind = "Close" => ~Queued(q, "Open", Head(q).from)
           /\ \A k, f : Queued(Tail(q), k, f) <=>
                  Queued(q, k, f) /\ ~(Head(q).kind = k /\ Head(q).from = f)
<1> DEFINE t == Tail(q)
<1>1. /\ t \in Seq(Event(S)) /\ Len(q) \in Nat \ {0} /\ DOMAIN q = 1..Len(q)
      /\ DOMAIN t = 1..Len(q) - 1
      /\ \A i \in DOMAIN t : t[i] = q[i + 1]
      /\ Head(q) = q[1] /\ q[1] \in Event(S)
  OBVIOUS
<1> HIDE DEF t
<1>2. Queued(q, Head(q).kind, Head(q).from)
  BY <1>1 DEF Queued
<1>3. InOrder(t)
  <2> SUFFICES ASSUME NEW i \in DOMAIN t, NEW j \in DOMAIN t, t[i].from = t[j].from
               PROVE  /\ t[i].kind = t[j].kind => i = j
                      /\ t[i].kind = "Open" /\ t[j].kind = "Close" => i < j
    BY DEF InOrder
  <2>1. i + 1 \in DOMAIN q /\ j + 1 \in DOMAIN q /\ t[i] = q[i + 1] /\ t[j] = q[j + 1]
    BY <1>1
  <2> QED
    BY <2>1, <1>1 DEF InOrder
<1>4. Head(q).kind = "Close" => ~Queued(q, "Open", Head(q).from)
  BY <1>1 DEF InOrder, Queued
<1>5. ASSUME NEW k, NEW f
      PROVE  Queued(t, k, f) <=> Queued(q, k, f) /\ ~(Head(q).kind = k /\ Head(q).from = f)
  <2>1. ASSUME Queued(t, k, f)
        PROVE  Queued(q, k, f) /\ ~(Head(q).kind = k /\ Head(q).from = f)
    <3>1. PICK i \in DOMAIN t : t[i].kind = k /\ t[i].from = f
      BY <2>1 DEF Queued
    <3>2. i + 1 \in DOMAIN q /\ i + 1 # 1 /\ 1 \in DOMAIN q /\ q[i + 1].kind = k /\ q[i + 1].from = f
      BY <3>1, <1>1
    <3> QED
      BY <3>2, <1>1 DEF InOrder, Queued
  <2>2. ASSUME Queued(q, k, f), ~(Head(q).kind = k /\ Head(q).from = f)
        PROVE  Queued(t, k, f)
    <3>1. PICK i \in DOMAIN q : q[i].kind = k /\ q[i].from = f
      BY <2>2 DEF Queued
    <3>2. i # 1 /\ i - 1 \in DOMAIN t /\ t[i - 1] = q[i]
      BY <3>1, <2>2, <1>1
    <3> QED
      BY <3>1, <3>2 DEF Queued
  <2> QED
    BY <2>1, <2>2
<1> QED
  BY <1>1, <1>2, <1>3, <1>4, <1>5 DEF t

-----------------------------------------------------------------------------
(* Types. *)

\* The initial state has its types.
LEMMA InitType == ASSUME Init PROVE TypeOK
<1>1. << >> \in Seq(Event(Listeners)) /\ << >> \in Seq(Event(Connections))
  OBVIOUS
<1>2. /\ run = "serving" /\ announced = FALSE /\ shutdown = FALSE /\ counter = "running"
      /\ listener_events = << >> /\ connection_events = << >>
      /\ listener_counter = 0 /\ connection_counter = 0
  BY DEF Init
<1>3. /\ listener \in [Listeners -> {"waiting", "accepting", "sleeping", "closed"}]
      /\ count \in [Listeners -> Nat]
      /\ conn \in [Connections -> {"none", "negotiating", "failed", "refused",
                                   "spawned", "open", "stuck", "closed"}]
  BY DEF Init
<1> QED
  BY <1>1, <1>2, <1>3 DEF TypeOK

\* The tasks of listeners and connections, and run, keep the types.
LEMMA ActorsType ==
    ASSUME TypeOK,
           \/ \E l \in Listeners : Listening(l)
           \/ \E c \in Connections : Connecting(c)
           \/ Interrupt \/ Abort \/ Complete
    PROVE  TypeOK'
<1> USE DEF TypeOK
<1>1. ASSUME NEW S, NEW q \in Seq(Event(S)), NEW kind \in {"Open", "Close"}, NEW from \in S
      PROVE  Emit(q, kind, from) \in Seq(Event(S))
  <2>1. [kind |-> kind, from |-> from] \in Event(S)
    BY DEF Event
  <2> QED
    BY <2>1 DEF Emit
<1>2. ASSUME NEW l \in Listeners, StartListener(l) PROVE TypeOK'
  BY <1>1, <1>2 DEF StartListener, counterVars
<1>3. ASSUME NEW l \in Listeners, WakeListener(l) PROVE TypeOK'
  BY <1>3 DEF WakeListener, counterVars, eventVars
<1>4. ASSUME NEW l \in Listeners, CloseListener(l) PROVE TypeOK'
  BY <1>1, <1>4 DEF CloseListener, counterVars
<1>5. ASSUME NEW l \in Listeners, NEW c \in Connections, Accept(l, c) PROVE TypeOK'
  <2>1. count' \in [Listeners -> Nat]
    BY <1>5 DEF Accept
  <2>2. conn' \in [Connections -> {"none", "negotiating", "failed", "refused",
                                   "spawned", "open", "stuck", "closed"}]
    BY <1>5 DEF Accept
  <2>3. listener' \in [Listeners -> {"waiting", "accepting", "sleeping", "closed"}]
    BY <1>5 DEF Accept
  <2> QED
    BY <1>5, <2>1, <2>2, <2>3 DEF Accept, counterVars, eventVars
<1>6. ASSUME NEW c \in Connections, Connecting(c) PROVE TypeOK'
  <2>1. CASE Negotiate(c)
    BY <2>1 DEF Negotiate, listenerVars, eventVars, counterVars
  <2>2. CASE Refuse(c)
    BY <2>2, <1>1 DEF Refuse, listenerVars, counterVars
  <2>3. CASE OpenConnection(c)
    BY <2>3, <1>1 DEF OpenConnection, listenerVars, counterVars
  <2>4. CASE CloseConnection(c)
    BY <2>4, <1>1 DEF CloseConnection, listenerVars, counterVars
  <2>5. CASE Stall(c)
    BY <2>5 DEF Stall, listenerVars, eventVars, counterVars
  <2> QED
    BY <1>6, <2>1, <2>2, <2>3, <2>4, <2>5 DEF Connecting
<1>7. ASSUME Interrupt \/ Abort \/ Complete PROVE TypeOK'
  BY <1>7 DEF Interrupt, Abort, Complete, listenerVars, eventVars, counterVars
<1> QED
  BY <1>2, <1>3, <1>4, <1>5, <1>6, <1>7 DEF Listening, NoticeShutdown, AcceptFails

\* The CounterTask keeps the types.
LEMMA CountingType == ASSUME TypeOK, Counting PROVE TypeOK'
<1> USE DEF TypeOK
<1>1. ASSUME NEW event, NEW n \in Nat PROVE Counted(event, n) \in Nat
  BY DEF Counted
<1>2. CheckComplete => counter' \in {"running", "complete", "panicked"}
  BY DEF CheckComplete
<1>3. CASE CountListener
  BY <1>1, <1>2, <1>3 DEF CountListener, listenerVars
<1>4. CASE CountConnection
  BY <1>1, <1>2, <1>4 DEF CountConnection, listenerVars
<1>5. CASE SeeShutdown
  BY <1>2, <1>5 DEF SeeShutdown, listenerVars, eventVars
<1> QED
  BY <1>3, <1>4, <1>5 DEF Counting

-----------------------------------------------------------------------------
(* Sending: whoever opens or closes is counted as before. *)

\* The initial counts are exact.
LEMMA InitExact == ASSUME Init PROVE ListenersExact /\ ConnectionsExact
<1>1. ASSUME NEW k, NEW f
      PROVE  ~Queued(listener_events, k, f) /\ ~Queued(connection_events, k, f)
  BY DEF Init, Queued
<1>2. CountedListeners = {} /\ CountedConnections = {}
  BY DEF Init, CountedListeners, CountedConnections
<1>3. InOrder(listener_events) /\ InOrder(connection_events)
  BY DEF Init, InOrder
<1>4. Cardinality({}) = 0
  BY FS_EmptySet
<1>5. CountedRefusals = {}
  BY DEF Init, CountedRefusals
<1> QED
  BY <1>1, <1>2, <1>3, <1>4, <1>5 DEF Init, ListenersExact, ConnectionsExact

\* A listener opens or closes; or nothing of it changes but its sleep.
LEMMA ListenerSends ==
    ASSUME TypeOK, counter = "running", ListenersExact,
           NEW l \in Listeners, StartListener(l) \/ CloseListener(l)
    PROVE  ListenersExact'
<1> USE DEF TypeOK
<1>1. PICK kind \in {"Open", "Close"} :
          /\ listener_events' = Append(listener_events, [kind |-> kind, from |-> l])
          /\ \A other \in Listeners : other # l => listener'[other] = listener[other]
          /\ kind = "Open" => listener[l] = "waiting" /\ listener'[l] = "accepting"
          /\ kind = "Close" => listener[l] = "accepting" /\ listener'[l] = "closed"
          /\ listener_counter' = listener_counter
  BY DEF StartListener, CloseListener, Emit, counterVars
<1>2. /\ InOrder(listener_events')
      /\ \A k, f : Queued(listener_events', k, f) <=>
                      Queued(listener_events, k, f) \/ (k = kind /\ f = l)
  <2>1. ~Queued(listener_events, kind, l)
    BY <1>1 DEF ListenersExact
  <2>2. kind = "Open" => ~Queued(listener_events, "Close", l)
    BY <1>1 DEF ListenersExact
  <2>3. InOrder(listener_events) /\ listener_events \in Seq(Event(Listeners))
    BY DEF ListenersExact
  <2> DEFINE r == Append(listener_events, [kind |-> kind, from |-> l])
  <2>4. /\ InOrder(r)
        /\ \A k, f : Queued(r, k, f) <=>
               Queued(listener_events, k, f) \/ (k = kind /\ f = l)
    <3> HIDE DEF TypeOK
    <3> QED
      BY <2>1, <2>2, <2>3, QueueAppend
  <2> QED
    BY <1>1, <2>4
<1>3. CountedListeners' = CountedListeners
  <2>1. ASSUME NEW other \in Listeners
        PROVE  other \in CountedListeners' <=> other \in CountedListeners
    BY <1>1, <1>2 DEF CountedListeners, ListenersExact
  <2> QED
    BY <2>1 DEF CountedListeners
<1>4. ASSUME NEW other \in Listeners
      PROVE  /\ Queued(listener_events', "Open", other) => listener'[other] # "waiting"
             /\ Queued(listener_events', "Close", other) => listener'[other] = "closed"
             /\ listener'[other] = "closed" /\ Queued(listener_events', "Open", other)
                    => Queued(listener_events', "Close", other)
  BY <1>1, <1>2 DEF ListenersExact
<1> QED
  BY <1>1, <1>2, <1>3, <1>4 DEF ListenersExact

\* A connection is refused, opens or closes.
LEMMA ConnectionSends ==
    ASSUME TypeOK, counter = "running", ConnectionsExact,
           NEW c \in Connections, Refuse(c) \/ OpenConnection(c) \/ CloseConnection(c)
    PROVE  ConnectionsExact'
<1> USE DEF TypeOK
<1>1. PICK kind \in {"Open", "Close"} :
          /\ connection_events' = Append(connection_events, [kind |-> kind, from |-> c])
          /\ \A other \in Connections : other # c => conn'[other] = conn[other]
          /\ kind = "Open" => conn[c] = "spawned" /\ conn'[c] = "open"
          /\ kind = "Close" => \/ conn[c] \in {"open", "stuck"} /\ conn'[c] = "closed"
                               \/ conn[c] = "negotiating" /\ conn'[c] = "refused"
          /\ connection_counter' = connection_counter
  BY DEF Refuse, OpenConnection, CloseConnection, Emit, counterVars
<1>2. /\ InOrder(connection_events')
      /\ \A k, f : Queued(connection_events', k, f) <=>
                      Queued(connection_events, k, f) \/ (k = kind /\ f = c)
  <2>1. ~Queued(connection_events, kind, c)
    BY <1>1 DEF ConnectionsExact
  <2>2. kind = "Open" => ~Queued(connection_events, "Close", c)
    BY <1>1 DEF ConnectionsExact
  <2>3. InOrder(connection_events) /\ connection_events \in Seq(Event(Connections))
    BY DEF ConnectionsExact
  <2> DEFINE r == Append(connection_events, [kind |-> kind, from |-> c])
  <2>4. /\ InOrder(r)
        /\ \A k, f : Queued(r, k, f) <=>
               Queued(connection_events, k, f) \/ (k = kind /\ f = c)
    <3> HIDE DEF TypeOK
    <3> QED
      BY <2>1, <2>2, <2>3, QueueAppend
  <2> QED
    BY <1>1, <2>4
<1>3. CountedConnections' = CountedConnections
  <2>1. ASSUME NEW other \in Connections
        PROVE  other \in CountedConnections' <=> other \in CountedConnections
    BY <1>1, <1>2 DEF CountedConnections, ConnectionsExact
  <2> QED
    BY <2>1 DEF CountedConnections
<1>4. ASSUME NEW other \in Connections
      PROVE  /\ Queued(connection_events', "Open", other) => conn'[other] \in {"open", "stuck", "closed"}
             /\ Queued(connection_events', "Close", other)
                    => conn'[other] \in {"closed", "refused"}
             /\ conn'[other] = "closed" /\ Queued(connection_events', "Open", other)
                    => Queued(connection_events', "Close", other)
  BY <1>1, <1>2 DEF ConnectionsExact
<1>5. CountedRefusals' = CountedRefusals
  <2>1. ASSUME NEW other \in Connections
        PROVE  other \in CountedRefusals' <=> other \in CountedRefusals
    BY <1>1, <1>2 DEF CountedRefusals, ConnectionsExact
  <2> QED
    BY <2>1 DEF CountedRefusals
<1> QED
  BY <1>1, <1>2, <1>3, <1>4, <1>5 DEF ConnectionsExact

-----------------------------------------------------------------------------
(* Counting: what is taken from a channel is what the counter moves by. *)

\* One listener more is counted, or one less.
LEMMA ListenerCounted ==
    ASSUME TypeOK, ListenersExact, CountListener
    PROVE  ListenersExact'
<1> USE DEF TypeOK
<1> DEFINE e == Head(listener_events)
           l == e.from
<1>1. /\ listener_events # << >> /\ listener_events' = Tail(listener_events)
      /\ listener_counter' = Counted(e, listener_counter) /\ listener' = listener
  BY DEF CountListener, listenerVars
<1>2. /\ e \in Event(Listeners) /\ Queued(listener_events, e.kind, l)
      /\ InOrder(listener_events')
      /\ e.kind = "Close" => ~Queued(listener_events, "Open", l)
      /\ \A k, f : Queued(listener_events', k, f) <=>
             Queued(listener_events, k, f) /\ ~(e.kind = k /\ l = f)
  BY <1>1, QueueTail DEF ListenersExact
<1>3. l \in Listeners /\ e.kind \in {"Open", "Close"}
  BY <1>2 DEF Event
<1> HIDE DEF e, l
<1>4. IsFiniteSet(CountedListeners)
  BY FS_Subset, ServerAssumption DEF ServerAssumption, CountedListeners
<1>5. listener_counter' = Cardinality(CountedListeners')
  <2>1. CASE e.kind = "Open"
    <3>1. l \notin CountedListeners
      BY <2>1, <1>2 DEF CountedListeners
    <3>2. ASSUME NEW other \in Listeners
          PROVE  other \in CountedListeners' <=> other \in CountedListeners \cup {l}
      BY <2>1, <1>1, <1>2, <1>3 DEF CountedListeners, ListenersExact
    <3>3. CountedListeners' = CountedListeners \cup {l}
      BY <3>2, <1>3 DEF CountedListeners
    <3>4. Cardinality(CountedListeners') = Cardinality(CountedListeners) + 1
      BY <3>1, <3>3, <1>4, FS_AddElement
    <3> QED
      BY <3>4, <2>1, <1>1 DEF ListenersExact, Counted
  <2>2. CASE e.kind = "Close"
    <3>1. l \in CountedListeners
      BY <2>2, <1>2, <1>3 DEF CountedListeners, ListenersExact
    <3>2. ASSUME NEW other \in Listeners
          PROVE  other \in CountedListeners' <=> other \in CountedListeners \ {l}
      BY <2>2, <1>1, <1>2, <1>3 DEF CountedListeners, ListenersExact
    <3>3. CountedListeners' = CountedListeners \ {l}
      BY <3>2, <1>3 DEF CountedListeners
    <3>4. /\ Cardinality(CountedListeners') = Cardinality(CountedListeners) - 1
          /\ Cardinality(CountedListeners) # 0
      BY <3>1, <3>3, <1>4, FS_RemoveElement, FS_EmptySet
    <3> QED
      BY <3>4, <2>2, <1>1 DEF ListenersExact, Counted
  <2> QED
    BY <2>1, <2>2, <1>3
<1>6. ASSUME NEW other \in Listeners
      PROVE  /\ Queued(listener_events', "Open", other) => listener'[other] # "waiting"
             /\ Queued(listener_events', "Close", other) => listener'[other] = "closed"
             /\ listener'[other] = "closed" /\ Queued(listener_events', "Open", other)
                    => Queued(listener_events', "Close", other)
  BY <1>1, <1>2 DEF ListenersExact
<1> QED
  BY <1>2, <1>5, <1>6 DEF ListenersExact

\* One connection more is counted, or one less; but a Close without an Open is counted
\* for another connection, unless the count is zero.
LEMMA ConnectionCounted ==
    ASSUME TypeOK, ConnectionsExact, CountConnection
    PROVE  ConnectionsExact'
<1> USE DEF TypeOK
<1> DEFINE e == Head(connection_events)
           c == e.from
<1>1. /\ connection_events # << >> /\ connection_events' = Tail(connection_events)
      /\ connection_counter' = Counted(e, connection_counter) /\ conn' = conn
  BY DEF CountConnection
<1>2. /\ e \in Event(Connections) /\ Queued(connection_events, e.kind, c)
      /\ InOrder(connection_events')
      /\ e.kind = "Close" => ~Queued(connection_events, "Open", c)
      /\ \A k, f : Queued(connection_events', k, f) <=>
             Queued(connection_events, k, f) /\ ~(e.kind = k /\ c = f)
  BY <1>1, QueueTail DEF ConnectionsExact
<1>3. c \in Connections /\ e.kind \in {"Open", "Close"}
  BY <1>2 DEF Event
<1> HIDE DEF e, c
<1>4. IsFiniteSet(CountedConnections) /\ Cardinality(CountedConnections) \in Nat
  <2>1. IsFiniteSet(CountedConnections)
    BY FS_Subset, ServerAssumption DEF ServerAssumption, CountedConnections
  <2> QED
    BY <2>1, FS_CardinalityType
<1>5. IsFiniteSet(CountedRefusals) /\ Cardinality(CountedRefusals) \in Nat
  <2>1. IsFiniteSet(CountedRefusals)
    BY FS_Subset, ServerAssumption DEF ServerAssumption, CountedRefusals
  <2> QED
    BY <2>1, FS_CardinalityType
<1>6. /\ connection_counter' <= Cardinality(CountedConnections')
      /\ Cardinality(CountedConnections') <= connection_counter' + Cardinality(CountedRefusals')
  <2>1. CASE e.kind = "Open"
    <3>1. c \notin CountedConnections
      BY <2>1, <1>2 DEF CountedConnections
    <3>2. ASSUME NEW other \in Connections
          PROVE  other \in CountedConnections' <=> other \in CountedConnections \cup {c}
      BY <2>1, <1>1, <1>2, <1>3 DEF CountedConnections, ConnectionsExact
    <3>3. CountedConnections' = CountedConnections \cup {c}
      BY <3>2, <1>3 DEF CountedConnections
    <3>4. Cardinality(CountedConnections') = Cardinality(CountedConnections) + 1
      BY <3>1, <3>3, <1>4, FS_AddElement
    <3>5. connection_counter' = connection_counter + 1
      BY <2>1, <1>1 DEF Counted
    <3>6. CountedRefusals' = CountedRefusals
      <4>1. ASSUME NEW other \in Connections
            PROVE  other \in CountedRefusals' <=> other \in CountedRefusals
        BY <2>1, <1>1, <1>2, <1>3 DEF CountedRefusals, ConnectionsExact
      <4> QED
        BY <4>1 DEF CountedRefusals
    <3> QED
      BY <3>4, <3>5, <3>6, <1>4, <1>5 DEF ConnectionsExact
  <2>2. CASE e.kind = "Close" /\ conn[c] = "closed"
    <3>1. c \in CountedConnections
      BY <2>2, <1>2, <1>3 DEF CountedConnections
    <3>2. ASSUME NEW other \in Connections
          PROVE  other \in CountedConnections' <=> other \in CountedConnections \ {c}
      BY <2>2, <1>1, <1>2, <1>3 DEF CountedConnections, ConnectionsExact
    <3>3. CountedConnections' = CountedConnections \ {c}
      BY <3>2, <1>3 DEF CountedConnections
    <3>4. /\ Cardinality(CountedConnections') = Cardinality(CountedConnections) - 1
          /\ Cardinality(CountedConnections) # 0
      BY <3>1, <3>3, <1>4, FS_RemoveElement, FS_EmptySet
    <3>5. connection_counter' = IF connection_counter = 0 THEN 0 ELSE connection_counter - 1
      BY <2>2, <1>1 DEF Counted
    <3>6. CountedRefusals' = CountedRefusals
      <4>1. ASSUME NEW other \in Connections
            PROVE  other \in CountedRefusals' <=> other \in CountedRefusals
        BY <2>2, <1>1, <1>2, <1>3 DEF CountedRefusals, ConnectionsExact
      <4> QED
        BY <4>1 DEF CountedRefusals
    <3> QED
      BY <3>4, <3>5, <3>6, <1>4, <1>5 DEF ConnectionsExact
  <2>3. CASE e.kind = "Close" /\ conn[c] = "refused"
    <3>1. ASSUME NEW other \in Connections
          PROVE  other \in CountedConnections' <=> other \in CountedConnections
      BY <2>3, <1>1, <1>2, <1>3 DEF CountedConnections, ConnectionsExact
    <3>2. CountedConnections' = CountedConnections
      BY <3>1 DEF CountedConnections
    <3>3. c \notin CountedRefusals
      BY <2>3, <1>2 DEF CountedRefusals
    <3>4. ASSUME NEW other \in Connections
          PROVE  other \in CountedRefusals' <=> other \in CountedRefusals \cup {c}
      BY <2>3, <1>1, <1>2, <1>3 DEF CountedRefusals, ConnectionsExact
    <3>5. CountedRefusals' = CountedRefusals \cup {c}
      BY <3>4, <1>3 DEF CountedRefusals
    <3>6. Cardinality(CountedRefusals') = Cardinality(CountedRefusals) + 1
      BY <3>3, <3>5, <1>5, FS_AddElement
    <3>7. connection_counter' = IF connection_counter = 0 THEN 0 ELSE connection_counter - 1
      BY <2>3, <1>1 DEF Counted
    <3> QED
      BY <3>2, <3>6, <3>7, <1>4, <1>5 DEF ConnectionsExact
  <2> QED
    BY <2>1, <2>2, <2>3, <1>2, <1>3 DEF ConnectionsExact
<1>7. ASSUME NEW other \in Connections
      PROVE  /\ Queued(connection_events', "Open", other) => conn'[other] \in {"open", "stuck", "closed"}
             /\ Queued(connection_events', "Close", other)
                    => conn'[other] \in {"closed", "refused"}
             /\ conn'[other] = "closed" /\ Queued(connection_events', "Open", other)
                    => Queued(connection_events', "Close", other)
  BY <1>1, <1>2 DEF ConnectionsExact
<1> QED
  BY <1>2, <1>6, <1>7 DEF ConnectionsExact

\* Whatever the CounterTask takes, the counts stay exact, also in the step in which it
\* finds the shutdown complete.
LEMMA CountingExact ==
    ASSUME TypeOK, ListenersExact, ConnectionsExact, Counting
    PROVE  ListenersExact' /\ ConnectionsExact'
<1>1. CASE CountListener
  <2>1. UNCHANGED <<conn, connection_events, connection_counter>>
    BY <1>1 DEF CountListener
  <2>2. ConnectionsExact'
    BY <2>1 DEF ConnectionsExact, CountedConnections, CountedRefusals, InOrder, Queued
  <2> QED
    BY <1>1, <2>2, ListenerCounted
<1>2. CASE CountConnection
  <2>1. UNCHANGED <<listener, listener_events, listener_counter>>
    BY <1>2 DEF CountConnection, listenerVars
  <2>2. ListenersExact'
    BY <2>1 DEF ListenersExact, CountedListeners, InOrder, Queued
  <2> QED
    BY <1>2, <2>2, ConnectionCounted
<1>3. CASE SeeShutdown
  <2>1. UNCHANGED <<listener, listener_events, listener_counter,
                    conn, connection_events, connection_counter>>
    BY <1>3 DEF SeeShutdown, listenerVars, eventVars
  <2> QED
    BY <2>1 DEF ListenersExact, CountedListeners, ConnectionsExact, CountedConnections,
                CountedRefusals, InOrder, Queued
<1> QED
  BY <1>1, <1>2, <1>3 DEF Counting

\* What a listener does to itself is no event, unless it opens or closes.
LEMMA ListeningExact ==
    ASSUME TypeOK, counter = "running", ListenersExact, ConnectionsExact,
           NEW l \in Listeners, Listening(l)
    PROVE  ListenersExact' /\ ConnectionsExact'
<1>1. CASE StartListener(l) \/ CloseListener(l)
  <2>1. UNCHANGED <<conn, connection_events, connection_counter>>
    BY <1>1 DEF StartListener, CloseListener, counterVars
  <2>2. ConnectionsExact'
    BY <2>1 DEF ConnectionsExact, CountedConnections, CountedRefusals, InOrder, Queued
  <2> QED
    BY <1>1, <2>2, ListenerSends
<1>2. CASE WakeListener(l) \/ \E c \in Connections : Accept(l, c)
  <2>1. /\ UNCHANGED <<listener_events, listener_counter, connection_events, connection_counter>>
        /\ \A other \in Listeners :
               /\ listener[other] = "waiting" <=> listener'[other] = "waiting"
               /\ listener[other] = "closed" <=> listener'[other] = "closed"
    BY <1>2 DEF WakeListener, Accept, eventVars, counterVars, TypeOK
  <2>2. \A c \in Connections :
            \/ conn'[c] = conn[c]
            \/ conn[c] = "none" /\ conn'[c] \in {"negotiating", "spawned"}
    BY <1>2 DEF WakeListener, Accept, TypeOK
  <2>3. CountedListeners' = CountedListeners
    BY <2>1 DEF CountedListeners, Queued
  <2>4. CountedConnections' = CountedConnections
    BY <2>1, <2>2 DEF CountedConnections, Queued
  <2>5. CountedRefusals' = CountedRefusals
    BY <2>1, <2>2 DEF CountedRefusals, Queued
  <2>6. ListenersExact'
    BY <2>1, <2>3 DEF ListenersExact, InOrder, Queued
  <2>7. ConnectionsExact'
    BY <2>1, <2>2, <2>4, <2>5 DEF ConnectionsExact, InOrder, Queued
  <2> QED
    BY <2>6, <2>7
<1> QED
  BY <1>1, <1>2 DEF Listening, NoticeShutdown, AcceptFails

\* The same for connections.
LEMMA ConnectingExact ==
    ASSUME TypeOK, counter = "running", ListenersExact, ConnectionsExact,
           NEW c \in Connections, Connecting(c)
    PROVE  ListenersExact' /\ ConnectionsExact'
<1>1. UNCHANGED <<listener, listener_events, listener_counter>>
  BY DEF Connecting, Negotiate, Refuse, Stall, OpenConnection, CloseConnection, listenerVars,
         eventVars, counterVars
<1>2. ListenersExact'
  BY <1>1 DEF ListenersExact, CountedListeners, InOrder, Queued
<1>3. CASE Refuse(c) \/ OpenConnection(c) \/ CloseConnection(c)
  BY <1>2, <1>3, ConnectionSends
<1>4. CASE Negotiate(c)
  <2>1. /\ UNCHANGED <<connection_events, connection_counter>>
        /\ \A other \in Connections :
               \/ conn'[other] = conn[other]
               \/ conn[other] = "negotiating" /\ conn'[other] \in {"spawned", "failed"}
    BY <1>4 DEF Negotiate, eventVars, counterVars, TypeOK
  <2>2. CountedConnections' = CountedConnections
    BY <2>1 DEF CountedConnections, Queued
  <2>3. CountedRefusals' = CountedRefusals
    BY <2>1 DEF CountedRefusals, Queued
  <2> QED
    BY <1>2, <2>1, <2>2, <2>3 DEF ConnectionsExact, InOrder, Queued
<1>5. CASE Stall(c)
  <2>1. /\ UNCHANGED <<connection_events, connection_counter>>
        /\ \A other \in Connections :
               \/ conn'[other] = conn[other]
               \/ conn[other] = "open" /\ conn'[other] = "stuck"
    BY <1>5 DEF Stall, eventVars, counterVars, TypeOK
  <2>2. CountedConnections' = CountedConnections
    BY <2>1 DEF CountedConnections, Queued
  <2>3. CountedRefusals' = CountedRefusals
    BY <2>1 DEF CountedRefusals, Queued
  <2> QED
    BY <1>2, <2>1, <2>2, <2>3 DEF ConnectionsExact, InOrder, Queued
<1> QED
  BY <1>3, <1>4, <1>5 DEF Connecting

\* Every step keeps the invariant.
LEMMA InvStep == ASSUME Inv, [Next]_vars PROVE Inv'
<1> SUFFICES ASSUME Next PROVE Inv'
  <2>1. CASE UNCHANGED vars
    BY <2>1 DEF Inv, TypeOK, ListenersExact, ConnectionsExact, CountedListeners,
                CountedConnections, CountedRefusals, InOrder, Queued, vars, listenerVars,
                counterVars, eventVars
  <2> QED
    BY <2>1
<1>1. TypeOK'
  BY ActorsType, CountingType DEF Inv, Next
<1>2. ASSUME counter' = "running" PROVE counter = "running"
  <2>1. \/ Counting \/ UNCHANGED counter
    BY DEF Next, Listening, StartListener, WakeListener, NoticeShutdown, AcceptFails,
           CloseListener, Accept, Connecting, Negotiate, Refuse, OpenConnection,
           Stall, CloseConnection, Interrupt, Abort, Complete, counterVars
  <2> QED
    BY <1>2, <2>1 DEF Counting, CountListener, CountConnection, SeeShutdown
<1>3. ASSUME counter = "running" PROVE ListenersExact' /\ ConnectionsExact'
  <2>1. ListenersExact /\ ConnectionsExact /\ TypeOK
    BY <1>3 DEF Inv
  <2>2. ASSUME NEW l \in Listeners, Listening(l) PROVE ListenersExact' /\ ConnectionsExact'
    BY <1>3, <2>1, <2>2, ListeningExact
  <2>3. ASSUME NEW c \in Connections, Connecting(c) PROVE ListenersExact' /\ ConnectionsExact'
    BY <1>3, <2>1, <2>3, ConnectingExact
  <2>4. CASE Counting
    BY <2>1, <2>4, CountingExact
  <2>5. CASE Interrupt \/ Abort \/ Complete
    <3>1. UNCHANGED <<listener, listener_events, listener_counter,
                      conn, connection_events, connection_counter>>
      BY <2>5 DEF Interrupt, Abort, Complete, listenerVars, eventVars, counterVars
    <3> QED
      BY <2>1, <3>1 DEF ListenersExact, ConnectionsExact, CountedListeners,
             CountedConnections, CountedRefusals, InOrder, Queued
  <2> QED
    BY <2>2, <2>3, <2>4, <2>5 DEF Next
<1> QED
  BY <1>1, <1>2, <1>3 DEF Inv

-----------------------------------------------------------------------------

\* Every variable of the server has its type in every reachable state.
THEOREM TypeCorrect == Spec => []TypeOK
<1>1. Init => Inv
  BY InitType, InitExact DEF Inv
<1>2. Inv /\ [Next]_vars => Inv'
  BY InvStep
<1>3. Inv => TypeOK
  BY DEF Inv
<1> QED
  BY <1>1, <1>2, <1>3, PTL DEF Spec

\* With any number of listeners and connections, the counters of the CounterTask lag
\* behind by the events in its channels, and each Close without an Open makes the second
\* of them too small by one at most.
THEOREM CountersCorrect == Spec => []CountersExact
<1>1. Init => Inv
  BY InitType, InitExact DEF Inv
<1>2. Inv /\ [Next]_vars => Inv'
  BY InvStep
<1>3. Inv => CountersExact
  BY DEF Inv, CountersExact, ListenersExact, ConnectionsExact
<1> QED
  BY <1>1, <1>2, <1>3, PTL DEF Spec

\* The shutdown is reported complete early only over a listener or connection whose
\* Open is still on its way, and over one connection more for each Close without an Open.
THEOREM CompletesEarlyCorrect == Spec => CompletesEarlyOnlyUncounted
<1> DEFINE Hidden == {c \in Connections :
               conn[c] \in {"open", "stuck"} /\ ~Queued(connection_events', "Open", c)}
           A == counter = "running" /\ counter' = "complete" =>
          /\ \A l \in Listeners :
                 listener[l] \in {"accepting", "sleeping"} => Queued(listener_events', "Open", l)
          /\ Cardinality(Hidden) <= Cardinality(CountedRefusals')
<1>1. Init => Inv
  BY InitType, InitExact DEF Inv
<1>2. Inv /\ [Next]_vars => Inv'
  BY InvStep
<1>3. Inv /\ [Next]_vars => [A]_vars
  <2> SUFFICES ASSUME Inv, Next, counter = "running", counter' = "complete"
               PROVE  A
    OBVIOUS
  <2>1. Counting
    BY DEF Next, Listening, StartListener, WakeListener, NoticeShutdown, AcceptFails,
           CloseListener, Accept, Connecting, Negotiate, Refuse, OpenConnection,
           Stall, CloseConnection, Interrupt, Abort, Complete, counterVars
  <2>2. ListenersExact' /\ ConnectionsExact'
    BY <2>1, CountingExact DEF Inv
  <2>3. /\ listener_counter' = 0 /\ connection_counter' = 0
        /\ listener' = listener /\ conn' = conn
    BY <2>1 DEF Counting, CountListener, CountConnection, SeeShutdown, CheckComplete,
                listenerVars
  <2>4. IsFiniteSet(CountedListeners') /\ IsFiniteSet(CountedConnections')
        /\ IsFiniteSet(CountedRefusals')
    BY FS_Subset, ServerAssumption
    DEF ServerAssumption, CountedListeners, CountedConnections, CountedRefusals
  <2>5. CountedListeners' = {}
    BY <2>2, <2>3, <2>4, FS_EmptySet DEF ListenersExact
  <2>6. ASSUME NEW l \in Listeners, listener[l] \in {"accepting", "sleeping"}
        PROVE  Queued(listener_events', "Open", l)
    BY <2>3, <2>5, <2>6 DEF CountedListeners
  <2>7. Cardinality(CountedConnections') <= Cardinality(CountedRefusals')
    BY <2>2, <2>3, <2>4, FS_CardinalityType DEF ConnectionsExact
  <2>8. Hidden \subseteq CountedConnections'
    BY <2>3 DEF CountedConnections
  <2>9. Cardinality(Hidden) <= Cardinality(CountedConnections')
    BY <2>4, <2>8, FS_Subset
  <2>10. Cardinality(Hidden) \in Nat /\ Cardinality(CountedConnections') \in Nat
         /\ Cardinality(CountedRefusals') \in Nat
    BY <2>4, <2>8, FS_Subset, FS_CardinalityType
  <2>11. Cardinality(Hidden) <= Cardinality(CountedRefusals')
    <3> HIDE DEF Hidden
    <3> QED
      BY <2>7, <2>9, <2>10
  <2> QED
    BY <2>6, <2>11
<1> QED
  BY <1>1, <1>2, <1>3, PTL DEF Spec, CompletesEarlyOnlyUncounted, A, Hidden
=============================================================================
