------------------------------- MODULE BytePipe -------------------------------
(***************************************************************************)
(* What a framed body promises to the one who reads it: the bytes of the   *)
(* source, in order, each once, and an end that is only seen after the     *)
(* last of them; or an error instead of what is missing, for good, but     *)
(* only when the pipe was cut.                                             *)
(***************************************************************************)
EXTENDS Naturals, Sequences

CONSTANT Source

VARIABLES delivered, result, cut

Init == delivered = << >> /\ result = "open" /\ ~cut

Deliver ==
    /\ result = "open"
    /\ \E n \in Len(delivered) + 1..Len(Source) : delivered' = SubSeq(Source, 1, n)
    /\ UNCHANGED <<result, cut>>

End ==
    /\ result = "open" /\ delivered = Source
    /\ result' = "end" /\ UNCHANGED <<delivered, cut>>

Fail ==
    /\ result = "open" /\ cut
    /\ result' = "error" /\ UNCHANGED <<delivered, cut>>

Cut == cut' = TRUE /\ UNCHANGED <<delivered, result>>

Spec == Init /\ [][Deliver \/ End \/ Fail \/ Cut]_<<delivered, result, cut>>
===============================================================================
