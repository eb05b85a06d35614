------------------------------ MODULE MCH2Reader ------------------------------
EXTENDS H2Reader

Frame(type, stream, length, flags) ==
    [type |-> type, stream |-> stream, length |-> length, extra |-> 0, fits |-> TRUE,
     content |-> "good", flags |-> flags]

Headers == Frame("HEADERS", 1, 1, {"END_HEADERS"})

Unknown == Frame("UNKNOWN", 0, 0, {})

Both == {"END_HEADERS", "PADDED", "PRIORITY"}

\* Frames the reader has to tell apart: without a payload, with one, with the longest
\* there is room for, and with one that is too long; a fragment there is no room for,
\* one that is cut, and one too short for that; and what each handler distinguishes.
MCFrames ==
    {Headers,
     [Frame("HEADERS", 3, 2, {"END_HEADERS"}) EXCEPT !.extra = 1],
     Frame("HEADERS", 1, 2, {"END_HEADERS"}),
     Frame("HEADERS", 1, 0, {}),
     Frame("HEADERS", 1, 1, Both),
     Frame("HEADERS", 1, 0, Both),
     Frame("CONTINUATION", 0, 0, {"END_HEADERS"}),
     Frame("DATA", 1, 0, {}),
     Frame("DATA", 1, 3, {}),
     Unknown,
     Frame("SETTINGS", 0, 0, {}),
     [Frame("SETTINGS", 0, 0, {}) EXCEPT !.content = "unusual"],
     Frame("SETTINGS", 0, 0, {"ACK"}),
     Frame("PING", 0, 0, {"ACK"}),
     [Frame("WINDOW_UPDATE", 0, 0, {}) EXCEPT !.content = "bad"],
     Frame("WINDOW_UPDATE", 1, 0, {}),
     Frame("RST_STREAM", 1, 0, {}),
     Frame("GOAWAY", 0, 0, {})}

MCJunk == {Unknown}

\* A peer that plays by the rules.
GoodFrames == {Headers, Frame("SETTINGS", 0, 0, {"ACK"})}
===============================================================================
