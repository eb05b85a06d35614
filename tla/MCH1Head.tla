------------------------------ MODULE MCH1Head ------------------------------
EXTENDS H1Head

a == <<"a">>
CrNl == <<"cr", "nl">>

StartLine == <<"a", "sp", "a", "sp", "a", "cr", "nl">>

\* Pieces a value is made of: a fold is one, so that values of several lines occur.
Pieces == {<<c>> : c \in Chars} \cup {CrNl \o <<"sp">>, CrNl \o <<"tab">>}

Upto(n) == UNION {{FlattenSeq(p) : p \in [1..k -> Pieces]} : k \in 0..n}

\* One header, whatever its value, and what may follow the head: nothing, a blank or
\* the next request.
OneHeader ==
    {StartLine \o <<"a", ":">> \o value \o CrNl \o CrNl \o rest :
        value \in Upto(3), rest \in {<< >>, <<"sp">>, a}}

\* Two headers, the first of up to one piece.
TwoHeaders ==
    {StartLine \o <<"a", ":">> \o first \o CrNl \o <<"a", ":">> \o second \o CrNl \o CrNl :
        first \in Upto(1), second \in Upto(1)}

\* Anything at all behind the start line, and start lines that are none.
Others ==
    {StartLine \o tail : tail \in Upto(3)} \cup {head \o CrNl \o CrNl : head \in Upto(3)}
    \cup {SubSeq(StartLine, 1, 5) \o CrNl \o <<"sp", "a">> \o CrNl \o CrNl}

MCInputs == OneHeader \cup TwoHeaders \cup Others
=============================================================================
