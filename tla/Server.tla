------------------------------- MODULE Server -------------------------------
(***************************************************************************)
(* The life of a server: Server::run waits for signals, one ListenerTask   *)
(* per listener accepts connections, a NegotiatorTask per connection of a  *)
(* listener with a negotiator agrees on the protocol, connection tasks     *)
(* serve, and the CounterTask counts who is still there, so that a graceful*)
(* shutdown knows when it is complete.                                     *)
(*                                                                         *)
(*   listeners   --ListenerEvent-->   CounterTask --shutdown_complete--> run *)
(*   connections --ConnectionEvent--> CounterTask                          *)
(*   run --shutdown (watch)--> listeners, connections, CounterTask         *)
(*                                                                         *)
(* The two kinds of events travel on two channels.  What a connection does *)
(* between its Open and its Close is H2Connection's subject (or HTTP/1's); *)
(* here it may come to a standstill at any time.                           *)
(* The model begins where run has sent every listener its handler.         *)
(***************************************************************************)
EXTENDS Integers, Sequences, FiniteSets

CONSTANTS
    Listeners,            \* listeners added to the server
    Negotiating,          \* those of them that have a negotiator
    Connections,          \* connections that can be accepted
    ConnectionsPerSecond  \* connections_per_second, 0 for no limit

ASSUME ServerAssumption ==
    /\ IsFiniteSet(Listeners) /\ Negotiating \subseteq Listeners
    /\ IsFiniteSet(Connections)
    /\ ConnectionsPerSecond \in Nat

VARIABLES
    run,                  \* Server::run: "serving", "stopping", or how it ended
    announced,            \* shutdown_tx.send(true) has happened
    listener,             \* the ListenerTasks
    count,                \* their connections since the last pause
    conn,                 \* the connections, from accept to the end
    listener_events, connection_events,    \* the channels
    \* CounterTask.
    counter,              \* "running", "complete", or "panicked"
    listener_counter, connection_counter,
    shutdown              \* its local flag

listenerVars == <<listener, count>>
counterVars == <<counter, listener_counter, connection_counter, shutdown>>
eventVars == <<listener_events, connection_events>>
vars == <<run, announced, listenerVars, conn, eventVars, counterVars>>

Ended == run \notin {"serving", "stopping"}

\* shutdown.changed() is ready: a value was sent or the sender was dropped.
Changed == announced \/ Ended

\* The channels lose what is sent after the CounterTask has gone.
Emit(queue, kind, from) ==
    IF counter = "running" THEN Append(queue, [kind |-> kind, from |-> from]) ELSE queue

Init ==
    /\ run = "serving" /\ announced = FALSE
    /\ listener = [l \in Listeners |-> "waiting"]
    /\ count = [l \in Listeners |-> 0]
    /\ conn = [c \in Connections |-> "none"]
    /\ listener_events = << >> /\ connection_events = << >>
    /\ counter = "running" /\ listener_counter = 0 /\ connection_counter = 0
    /\ shutdown = FALSE

-----------------------------------------------------------------------------
(* ListenerTask. *)

\* start_rx yields the handler.
StartListener(l) ==
    /\ listener[l] = "waiting"
    /\ listener' = [listener EXCEPT ![l] = "accepting"]
    /\ listener_events' = Emit(listener_events, "Open", l)
    /\ UNCHANGED <<run, announced, count, conn, connection_events, counterVars>>

\* The limit is reached: sleep for the rest of the second, if any is left.
Accept(l, c) ==
    /\ listener[l] = "accepting" /\ conn[c] = "none"
    /\ conn' = [conn EXCEPT ![c] = IF l \in Negotiating THEN "negotiating" ELSE "spawned"]
    /\ LET full == ConnectionsPerSecond > 0 /\ count[l] + 1 >= ConnectionsPerSecond IN
       /\ count' = IF ConnectionsPerSecond = 0 \/ full THEN [count EXCEPT ![l] = 0]
                   ELSE [count EXCEPT ![l] = @ + 1]
       /\ \E next \in {"accepting"} \cup IF full THEN {"sleeping"} ELSE {} :
              listener' = [listener EXCEPT ![l] = next]
    /\ UNCHANGED <<run, announced, eventVars, counterVars>>

WakeListener(l) ==
    /\ listener[l] = "sleeping"
    /\ listener' = [listener EXCEPT ![l] = "accepting"]
    /\ UNCHANGED <<run, announced, count, conn, eventVars, counterVars>>

\* Mutant: the Close is only sent on the way through a shutdown.
CloseListener_OnShutdown(l) ==
    /\ listener[l] = "accepting"
    /\ listener' = [listener EXCEPT ![l] = "closed"]
    /\ listener_events' = IF Changed THEN Emit(listener_events, "Close", l)
                          ELSE listener_events
    /\ UNCHANGED <<run, announced, count, conn, connection_events, counterVars>>

CloseListener(l) ==
    /\ listener[l] = "accepting"
    /\ listener' = [listener EXCEPT ![l] = "closed"]
    /\ listener_events' = Emit(listener_events, "Close", l)
    /\ UNCHANGED <<run, announced, count, conn, connection_events, counterVars>>

NoticeShutdown(l) == Changed /\ CloseListener(l)

AcceptFails(l) == CloseListener(l)

-----------------------------------------------------------------------------
(* NegotiatorTask and the connections. *)

\* The negotiation agrees on h2, or it fails or times out.
Negotiate(c) ==
    /\ conn[c] = "negotiating"
    /\ \E next \in {"spawned", "failed"} : conn' = [conn EXCEPT ![c] = next]
    /\ UNCHANGED <<run, announced, listenerVars, eventVars, counterVars>>

\* It agrees on anything else: Close, although there was no Open.
Refuse(c) ==
    /\ conn[c] = "negotiating"
    /\ conn' = [conn EXCEPT ![c] = "refused"]
    /\ connection_events' = Emit(connection_events, "Close", c)
    /\ UNCHANGED <<run, announced, listenerVars, listener_events, counterVars>>

\* The task of the connection runs for the first time.
OpenConnection(c) ==
    /\ conn[c] = "spawned"
    /\ conn' = [conn EXCEPT ![c] = "open"]
    /\ connection_events' = Emit(connection_events, "Open", c)
    /\ UNCHANGED <<run, announced, listenerVars, listener_events, counterVars>>

\* It will not end by itself: its HTTP/2 peer has reset a stream that waits for
\* window or never sends any, its HTTP/1 response spins on a body that is too short
\* (write_body), or its task has panicked, which sends no Close.
Stall(c) ==
    /\ conn[c] = "open"
    /\ conn' = [conn EXCEPT ![c] = "stuck"]
    /\ UNCHANGED <<run, announced, listenerVars, eventVars, counterVars>>

\* Mutant: a connection that ends by itself does not tell.
CloseConnection_OnShutdown(c) ==
    /\ conn[c] \in {"open", "stuck"}
    /\ conn' = [conn EXCEPT ![c] = "closed"]
    /\ connection_events' = IF Changed THEN Emit(connection_events, "Close", c)
                            ELSE connection_events
    /\ UNCHANGED <<run, announced, listenerVars, listener_events, counterVars>>

\* Its peer has left, it has failed, or it has noticed the shutdown.
CloseConnection(c) ==
    /\ conn[c] \in {"open", "stuck"}
    /\ conn' = [conn EXCEPT ![c] = "closed"]
    /\ connection_events' = Emit(connection_events, "Close", c)
    /\ UNCHANGED <<run, announced, listenerVars, listener_events, counterVars>>

-----------------------------------------------------------------------------
(* CounterTask: one of the three branches of its select!, then the check. *)

\* Mutant: the count is not saturating.
Counted_Wrapping(event, n) == IF event.kind = "Open" THEN n + 1 ELSE n - 1

Counted(event, n) ==
    IF event.kind = "Open" THEN n + 1 ELSE IF n = 0 THEN 0 ELSE n - 1

\* Mutant: either counter will do.
CheckComplete_Either ==
    counter' = IF shutdown' /\ (listener_counter' = 0 \/ connection_counter' = 0)
               THEN IF Ended THEN "panicked" ELSE "complete"
               ELSE counter

\* shutdown_complete.send(()).unwrap(): the receiver lives as long as run.
CheckComplete ==
    counter' = IF shutdown' /\ listener_counter' = 0 /\ connection_counter' = 0
               THEN IF Ended THEN "panicked" ELSE "complete"
               ELSE counter

CountListener ==
    /\ counter = "running" /\ listener_events # << >>
    /\ listener_events' = Tail(listener_events)
    /\ listener_counter' = Counted(Head(listener_events), listener_counter)
    /\ UNCHANGED <<connection_counter, shutdown>> /\ CheckComplete
    /\ UNCHANGED <<run, announced, listenerVars, conn, connection_events>>

\* Mutant: only the shutdown itself makes the task look.
CountConnection_NoCheck ==
    /\ counter = "running" /\ connection_events # << >>
    /\ connection_events' = Tail(connection_events)
    /\ connection_counter' = Counted(Head(connection_events), connection_counter)
    /\ UNCHANGED <<listener_counter, shutdown, counter>>
    /\ UNCHANGED <<run, announced, listenerVars, conn, listener_events>>

CountConnection ==
    /\ counter = "running" /\ connection_events # << >>
    /\ connection_events' = Tail(connection_events)
    /\ connection_counter' = Counted(Head(connection_events), connection_counter)
    /\ UNCHANGED <<listener_counter, shutdown>> /\ CheckComplete
    /\ UNCHANGED <<run, announced, listenerVars, conn, listener_events>>

\* changed() is ready once for the value; for ever once the sender is dropped
\* (the loop then spins, a step that changes nothing).
SeeShutdown ==
    /\ counter = "running" /\ Changed
    /\ ~shutdown
    /\ shutdown' = TRUE
    /\ UNCHANGED <<listener_counter, connection_counter>> /\ CheckComplete
    /\ UNCHANGED <<run, announced, listenerVars, conn, eventVars>>

-----------------------------------------------------------------------------
(* Server::run. *)

Interrupt ==
    /\ run = "serving"
    /\ run' = "stopping" /\ announced' = TRUE
    /\ UNCHANGED <<listenerVars, conn, eventVars, counterVars>>

\* SIGTERM, the second SIGINT, or gracefull_shutdown_timeout.
Abort ==
    /\ ~Ended
    /\ run' = "aborted"
    /\ UNCHANGED <<announced, listenerVars, conn, eventVars, counterVars>>

Complete ==
    /\ run = "stopping" /\ counter = "complete"
    /\ run' = "completed"
    /\ UNCHANGED <<announced, listenerVars, conn, eventVars, counterVars>>

-----------------------------------------------------------------------------

Listening(l) ==
    \/ StartListener(l) \/ WakeListener(l) \/ NoticeShutdown(l) \/ AcceptFails(l)
    \/ \E c \in Connections : Accept(l, c)

Connecting(c) ==
    \/ Negotiate(c) \/ Refuse(c)
    \/ OpenConnection(c) \/ Stall(c) \/ CloseConnection(c)

Counting == CountListener \/ CountConnection \/ SeeShutdown

Next ==
    \/ \E l \in Listeners : Listening(l)
    \/ \E c \in Connections : Connecting(c)
    \/ Counting
    \/ Interrupt \/ Abort \/ Complete

Spec == Init /\ [][Next]_vars

\* The runtime runs every task that is ready and select! starves no branch.  A
\* negotiation ends by its timeout; a connection that has been told of the
\* shutdown ends (H2Connection's ShutdownTerminates, H1Connection's RequestEnds)
\* unless it is stuck.  Nothing is assumed of one that is, nor of the timeout of the
\* shutdown, which is there because of it, nor of further signals.
Fairness ==
    /\ \A l \in Listeners :
           WF_vars(StartListener(l)) /\ WF_vars(WakeListener(l)) /\ WF_vars(NoticeShutdown(l))
    /\ \A c \in Connections :
           /\ WF_vars(Negotiate(c) \/ Refuse(c)) /\ WF_vars(OpenConnection(c))
           /\ WF_vars(Changed /\ conn[c] = "open" /\ CloseConnection(c))
    /\ WF_vars(CountListener) /\ WF_vars(CountConnection) /\ WF_vars(SeeShutdown)
    /\ WF_vars(Complete)

FairSpec == Spec /\ Fairness

-----------------------------------------------------------------------------
(* Properties. *)

Event(senders) == [kind : {"Open", "Close"}, from : senders]

\* The type of every variable.
TypeOK ==
    /\ run \in {"serving", "stopping", "aborted", "completed"}
    /\ announced \in BOOLEAN
    /\ listener \in [Listeners -> {"waiting", "accepting", "sleeping", "closed"}]
    /\ count \in [Listeners -> Nat]
    /\ conn \in [Connections -> {"none", "negotiating", "failed", "refused",
                                 "spawned", "open", "stuck", "closed"}]
    /\ listener_events \in Seq(Event(Listeners))
    /\ connection_events \in Seq(Event(Connections))
    /\ counter \in {"running", "complete", "panicked"}
    /\ listener_counter \in Nat /\ connection_counter \in Nat
    /\ shutdown \in BOOLEAN

Queued(queue, kind, from) ==
    \E i \in DOMAIN queue : queue[i].kind = kind /\ queue[i].from = from

\* Whose Open the CounterTask has handled and whose Close it has not.
CountedListeners ==
    {l \in Listeners :
        /\ listener[l] # "waiting" /\ ~Queued(listener_events, "Open", l)
        /\ listener[l] = "closed" => Queued(listener_events, "Close", l)}

CountedConnections ==
    {c \in Connections :
        /\ conn[c] \in {"open", "stuck", "closed"} /\ ~Queued(connection_events, "Open", c)
        /\ conn[c] = "closed" => Queued(connection_events, "Close", c)}

\* Whose Close, without an Open, the CounterTask has handled.
CountedRefusals ==
    {c \in Connections : conn[c] = "refused" /\ ~Queued(connection_events, "Close", c)}

\* The counters lag behind by the events in the channels and by nothing else.
\* A Close without an Open (NegotiatorTask, another protocol than h2) can make the
\* connection counter too small by one, never too large: no shutdown waits for a
\* connection that has gone.
CountersExact ==
    counter = "running" =>
        /\ listener_counter = Cardinality(CountedListeners)
        /\ connection_counter <= Cardinality(CountedConnections)
        /\ Cardinality(CountedConnections)
               <= connection_counter + Cardinality(CountedRefusals)

\* The shutdown is reported complete while a listener or a connection is still
\* at work only if that one's Open has not been counted yet (it starts late, is
\* being negotiated, or its event overtook another); but each Close without an
\* Open that has been counted can hide one connection that is at work.
CompletesEarlyOnlyUncounted ==
    [][counter = "running" /\ counter' = "complete" =>
          /\ \A l \in Listeners :
                 listener[l] \in {"accepting", "sleeping"} => Queued(listener_events', "Open", l)
          /\ Cardinality({c \in Connections :
                 conn[c] \in {"open", "stuck"} /\ ~Queued(connection_events', "Open", c)})
             <= Cardinality(CountedRefusals')]_vars

\* A graceful shutdown is over without the help of its timeout, provided that no
\* connection stays stuck for ever.
ShutdownCompletes ==
    <>[](\A c \in Connections : conn[c] # "stuck") => (run = "stopping" ~> Ended)
=============================================================================
