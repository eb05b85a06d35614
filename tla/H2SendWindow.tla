---------------------------- MODULE H2SendWindow ----------------------------
(***************************************************************************)
(* The account of the send windows of H2Connection: where each byte of     *)
(* window the peer has granted is, and who waits for it.                   *)
(***************************************************************************)
EXTENDS H2Connection, Sums

\* The window carried by the messages of one kind in a channel.
Carried(queue, kind) ==
    Total[[i \in DOMAIN queue |-> IF queue[i].kind = kind THEN queue[i].amount ELSE 0]]

CarriedFor(t, kind) ==
    Total[[i \in DOMAIN conn_rx |-> IF conn_rx[i].kind = kind /\ conn_rx[i].from = t
                                    THEN conn_rx[i].amount ELSE 0]]

Pending(id) ==
    Total[[i \in DOMAIN pending_window_req |->
               IF pending_window_req[i].id = id THEN pending_window_req[i].amount ELSE 0]]

Held(t) == task[t].available_window + Carried(rx[t], "AvailableWindow")

Accounted(ts) ==
    global_window + Over(Tasks, [t \in Tasks |-> IF t \in ts THEN Held(t) ELSE 0])
        + Carried(conn_rx, "PutWindow") + Carried(conn_rx, "Frame")

\* The window the peer believes the connection has is in the pool, with a task,
\* on its way between them, or in DATA frames about to be written.  It is never
\* counted twice, whatever the messages in flight.
WindowConserved == Running => credit = Accounted(Tasks)

\* run_inner gives back the window that is left: no window stays with a task
\* that has ended without an error.  (One that is reset, or whose channel
\* overflows, takes the window granted to it in the meantime along.)
CleanExitsLoseNoWindow ==
    Running => credit = Accounted({t \in Tasks : Alive(t) \/ task[t].error # "none"})

\* A task asks for exactly the window its chunk needs: what it still has to ask
\* for, has asked for, was given and holds adds up to what is left to send.
AsksForItsChunk ==
    \A t \in Tasks : Running /\ task[t].at = "sending" =>
        task[t].left = task[t].window_needed + CarriedFor(t, "GetWindow")
                           + Pending(task[t].id) + Held(t)

\* No wake-up is lost: when nothing is in flight, a task that waits either has
\* no stream window or its request is queued and the connection has no window.
NoLostWakeUp ==
    Selecting /\ conn_rx = << >> =>
        \A t \in Tasks : WaitsForWindow(t) /\ rx[t] = << >> =>
            \/ task[t].window_needed > 0 /\ task[t].window <= 0
            \/ Pending(task[t].id) > 0 /\ global_window <= 0

=============================================================================
