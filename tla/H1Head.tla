------------------------------- MODULE H1Head -------------------------------
(***************************************************************************)
(* The head of an HTTP/1 request, read character by character as it comes  *)
(* in: read_request_inner fills a bounded buffer from the socket, tries    *)
(* whether it holds a start line or a header line to its end, and parses   *)
(* and drops that.  The end of a line is found twice, by find_header_end   *)
(* and by parse_request_header_new, which has its own idea of it.          *)
(*                                                                         *)
(* A character stands for its class: "a" for those of a token, "sp" and    *)
(* "tab" for the two of LWS, "ctl" for those that are neither text nor     *)
(* LWS, and ":", "cr", "nl" for themselves.                                *)
(***************************************************************************)
EXTENDS Integers, SequencesExt

CONSTANTS
    Inputs,          \* what peers send
    BufSize,         \* request_header_buf_size
    LineMax,         \* request_header_line_max
    MinVersion       \* the shortest HTTP version: 6 characters

Chars == {"a", ":", "sp", "tab", "cr", "nl", "ctl"}

ASSUME HeadAssumption ==
    /\ Inputs \subseteq Seq(Chars)
    /\ BufSize \in Nat \ {0} /\ LineMax \in Nat /\ MinVersion \in Nat

VARIABLES
    input,
    received, consumed,    \* characters read from the socket, and progressed by
    at,                    \* "start", "headers", "done" or "failed"
    why,                   \* what it failed for
    fields                 \* the header fields, in order

vars == <<input, received, consumed, at, why, fields>>

Buffered == received - consumed
Buffer == SubSeq(input, consumed + 1, received)

Field == [name : Seq({"a"}), values : Seq(Seq(Chars))]

-----------------------------------------------------------------------------
(* The parsers.  What they find is a number of characters, or one of: *)

None == -1        \* more has to be read
Invalid == -2

Lws == {"sp", "tab"}
Text == {"a", ":", "sp"}
Token == {"a"}

From(buf, i) == SubSeq(buf, i, Len(buf))

\* The characters in front of the first that is not of the class, if there is one.
EndOf(class, buf) ==
    LET others == {i \in 1..Len(buf) : buf[i] \notin class} IN
    IF others = {} THEN None ELSE Min(others) - 1

FindStartLineEnd(buf) ==
    LET crs == {i \in 1..Len(buf) - 1 : buf[i] = "cr"} IN
    IF crs = {} THEN None
    ELSE IF buf[Min(crs) + 1] = "nl" THEN Min(crs) + 1 ELSE Invalid

\* Mutant: lines cannot be folded.
Folded_Never(buf, i) == FALSE

\* LWS that begins with a CRNL.
Folded(buf, i) == buf[i + 1] = "nl" /\ buf[i + 2] \in Lws

\* Mutant: a CR is looked at as soon as the NL is there.
FindHeaderEnd_Early(buf) ==
    LET crs == {i \in 2..Len(buf) - 1 :
                    buf[i] = "cr" /\ ~(i < Len(buf) - 1 /\ Folded(buf, i))} IN
    IF crs = {} THEN None
    ELSE IF buf[Min(crs) + 1] = "nl" THEN Min(crs) + 1 ELSE Invalid

\* A CR is looked at when the two characters behind it are there.
FindHeaderEnd(buf) ==
    LET crs == {i \in 2..Len(buf) - 2 : buf[i] = "cr" /\ ~Folded(buf, i)} IN
    IF crs = {} THEN None
    ELSE IF buf[Min(crs) + 1] = "nl" THEN Min(crs) + 1 ELSE Invalid

FindLwsEnd(buf) ==
    IF buf = << >> THEN None
    ELSE IF buf[1] # "cr" THEN EndOf(Lws, buf)
    ELSE IF Len(buf) < 3 THEN None
    ELSE IF buf[2] # "nl" THEN Invalid
    ELSE IF buf[3] \notin Lws THEN 0
    ELSE LET end == EndOf(Lws, From(buf, 4)) IN IF end = None THEN None ELSE end + 3

\* Any number of LWS, from "i" on.
FindMultiLwsEnd(buf) ==
    LET end[i \in 1..Len(buf) + 1] ==
            LET next == FindLwsEnd(From(buf, i)) IN
            IF next <= 0 THEN IF next = 0 THEN i - 1 ELSE next ELSE end[i + next]
    IN end[1]

\* Method, URI and version, separated by SP.  (An unknown version is taken for 1.1.)
ParseStartLine(line) ==
    LET sps == {i \in DOMAIN line : line[i] = "sp"}
        Second == sps \ {Min(sps)}
        Between(i, j) == j > i + 1 /\ \A k \in i + 1..j - 1 : line[k] \in Token
    IN /\ Cardinality(sps) >= 2
       /\ Between(0, Min(sps)) /\ Between(Min(sps), Min(Second))
       /\ Len(line) - Min(Second) - 2 >= MinVersion

\* The values of a header line from "i" on: each run of text is one, up to what is
\* LWS for is_lws_full and not for find_lws_end.  An error is no list of values.
Values(buf, start) ==
    LET values[i \in 1..Len(buf) + 1] ==
            IF i > Len(buf) THEN {}
            ELSE IF buf[i] \in Text
            THEN LET end == EndOf(Text, From(buf, i)) IN
                 IF end = None THEN {}
                 ELSE {<<SubSeq(buf, i, i + end - 1)>> \o rest : rest \in values[i + end]}
            ELSE IF buf[i] = "ctl" THEN {}
            ELSE LET end == FindMultiLwsEnd(From(buf, i)) IN
                 IF end < 0 THEN {} ELSE IF end = 0 THEN {<< >>} ELSE values[i + end]
    IN values[start]

\* The whole buffer is passed, and the end of the line determined again.
ParseRequestHeader(buf) ==
    LET name == EndOf(Token, buf)
        lws == FindMultiLwsEnd(From(buf, name + 2))
    IN IF name <= 0 \/ name + 1 >= Len(buf) THEN {}
       ELSE IF buf[name + 1] # ":" \/ lws < 0 THEN {}
       ELSE {[name |-> SubSeq(buf, 1, name), values |-> v] : v \in Values(buf, name + lws + 2)}

-----------------------------------------------------------------------------
(* read_request_inner. *)

Init ==
    /\ input \in Inputs
    /\ received = 0 /\ consumed = 0
    /\ at = "start" /\ why = "" /\ fields = << >>

Fail(reason) ==
    /\ at' = "failed" /\ why' = reason
    /\ UNCHANGED <<input, received, consumed, fields>>

EndsHead == Buffer # << >> /\ Buffer[1] = "cr"

\* Nothing can be made of what there is.
NeedsMore ==
    \/ at = "start" /\ FindStartLineEnd(Buffer) = None
    \/ /\ at = "headers"
       /\ IF EndsHead THEN Buffered = 1 ELSE FindHeaderEnd(Buffer) = None

\* read_into_buffer.
ReadIntoBuffer ==
    /\ at \in {"start", "headers"} /\ NeedsMore
    /\ \E n \in 1..BufSize - Buffered :
           received + n <= Len(input) /\ received' = received + n
    /\ UNCHANGED <<input, consumed, at, why, fields>>

\* It returns zero: the buffer is full, or the peer has closed its side.
ReadNothing ==
    /\ at \in {"start", "headers"} /\ NeedsMore
    /\ Buffered = BufSize \/ received = Len(input)
    /\ Fail(IF Buffered = BufSize THEN "full" ELSE "eof")

\* request_header_timeout.
TimeOut == at \in {"start", "headers"} /\ NeedsMore /\ Fail("timeout")

ReadStartLine ==
    /\ at = "start" /\ ~NeedsMore
    /\ LET end == FindStartLineEnd(Buffer) IN
       IF end = Invalid THEN Fail("invalid")
       ELSE IF ~ParseStartLine(SubSeq(Buffer, 1, end)) THEN Fail("invalid")
       ELSE /\ consumed' = consumed + end /\ at' = "headers"
            /\ UNCHANGED <<input, received, why, fields>>

\* Mutant: the line is dropped up to where its values end.
Progress_ToLineEnd(end) == consumed' = consumed + end - 2

Progress(end) == consumed' = consumed + end

ReadHeader ==
    /\ at = "headers" /\ ~NeedsMore /\ ~EndsHead
    /\ LET end == FindHeaderEnd(Buffer) IN
       \/ end = Invalid /\ Fail("invalid")
       \/ end > LineMax /\ Fail("too long")
       \/ end \in 1..LineMax /\ ParseRequestHeader(Buffer) = {} /\ Fail("invalid")
       \/ /\ end \in 1..LineMax
          /\ \E field \in ParseRequestHeader(Buffer) : fields' = Append(fields, field)
          /\ Progress(end)
          /\ UNCHANGED <<input, received, at, why>>

\* The CRNL behind the last line.
ReadEnd ==
    /\ at = "headers" /\ ~NeedsMore /\ EndsHead
    /\ IF Buffer[2] # "nl" THEN Fail("invalid")
       ELSE /\ consumed' = consumed + 2 /\ at' = "done"
            /\ UNCHANGED <<input, received, why, fields>>

Next == ReadIntoBuffer \/ ReadNothing \/ TimeOut \/ ReadStartLine \/ ReadHeader \/ ReadEnd

Spec == Init /\ [][Next]_vars

-----------------------------------------------------------------------------
(* What the head is, of the input as a whole: it ends with the first empty *)
(* line, and a line of it ends with a CRNL that no blank follows.          *)

At(i, string) == SubSeq(input, i - Len(string) + 1, i) = string

LineEnds == {i \in 2..Len(input) - 1 : At(i, <<"cr", "nl">>) /\ input[i + 1] \notin Lws}
EmptyLines == {i \in 4..Len(input) : At(i, <<"cr", "nl", "cr", "nl">>)}

\* A NL that is not part of a CRNL.
BareNl(i) == input[i] = "nl" /\ (i = 1 \/ input[i - 1] # "cr")

\* The line from "first" to "last".  Nobody looks at what is between a bare NL and
\* the end of its line.
GoodLine(first, last) ==
    /\ last - first + 1 <= LineMax
    /\ \E colon \in first + 1..last - 2 :
           /\ input[colon] = ":"
           /\ \A i \in first..colon - 1 : input[i] \in Token
           /\ \A i \in colon + 1..last : input[i] = "ctl" => \E j \in colon + 1..i : BareNl(j)

Acceptable ==
    /\ EmptyLines # {}
    /\ LET ends == {i \in LineEnds : i < Min(EmptyLines)}
           lineEndsBefore(last) == {i \in ends : i < last}
       IN /\ \A i \in 1..Min(EmptyLines) : input[i] = "cr" => At(i + 1, <<"cr", "nl">>)
          /\ \A i \in 1..Min(ends) - 2 : input[i] # "cr"
          /\ ParseStartLine(SubSeq(input, 1, Min(ends)))
          /\ \A last \in ends \ {Min(ends)} : GoodLine(Max(lineEndsBefore(last)) + 1, last)

\* The body of a request, or the next request, begins right behind the first empty
\* line, also when a line is folded, when the reads end anywhere in a line, or when
\* what follows begins with a blank.
StopsAtEmptyLine ==
    /\ at = "done" => EmptyLines # {} /\ consumed = Min(EmptyLines)
    /\ EmptyLines # {} => consumed <= Min(EmptyLines)

Blanks == {"sp", "tab", "cr", "nl"}

\* A string without its blanks.
NoBlank(string) ==
    LET upTo[n \in 0..Len(string)] ==
            IF n = 0 THEN << >>
            ELSE IF string[n] \in Blanks THEN upTo[n - 1] ELSE Append(upTo[n - 1], string[n])
    IN upTo[Len(string)]

Whole(field) == field.name \o <<":">> \o NoBlank(FlattenSeq(field.values))

\* The header fields hold everything but blanks of the lines they are taken from: the
\* line parse_request_header_new finds is the one find_header_end has found.  (A bare
\* NL excepted: there the parser stops, and what follows in the line is lost.)
FieldsWhole ==
    LET ends == {i \in LineEnds \ EmptyLines : i <= consumed}
        lines == FlattenSeq([i \in DOMAIN fields |-> Whole(fields[i])])
    IN fields # << >> /\ (\A i \in 1..consumed : ~BareNl(i)) =>
           /\ lines = NoBlank(SubSeq(input, Min(ends) + 1, consumed))
           /\ Len(fields) = Cardinality(ends) - 1

\* Whether a head is accepted is a matter of what it is, not of the reads it comes in:
\* a head is refused for what is in it, or for one line that does not fit into the
\* buffer with the character behind it, whatever the length of all lines is.
RefusedForItself ==
    /\ at = "done" => Acceptable
    /\ why \in {"invalid", "too long", "eof"} => ~Acceptable
    /\ why = "full" => \A i \in LineEnds :
           i > consumed => i - consumed + (IF consumed = 0 THEN 0 ELSE 1) > BufSize
=============================================================================
