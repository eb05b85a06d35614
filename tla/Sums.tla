-------------------------------- MODULE Sums --------------------------------
(***************************************************************************)
(* Sums over sequences and over finite sets, written with recursive        *)
(* functions: the folds of the community modules take an operator, about   *)
(* which a theorem cannot be instantiated.                                 *)
(***************************************************************************)
EXTENDS Integers, Sequences, FiniteSets

\* The sum of a sequence of integers.
Total[s \in Seq(Int)] == IF s = << >> THEN 0 ELSE Head(s) + Total[Tail(s)]

\* The elements of a finite set, each once, in some order.
Order(S) == CHOOSE e \in [1..Cardinality(S) -> S] :
                \A i, j \in 1..Cardinality(S) : e[i] = e[j] => i = j

\* The sum of a function over a finite set.
Over(S, f) == Total[[i \in 1..Cardinality(S) |-> f[Order(S)[i]]]]
=============================================================================
