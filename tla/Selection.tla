----------------------------- MODULE Selection -----------------------------
(***************************************************************************)
(* What the loops of this library do that walk over a sequence and push    *)
(* back a value at some of its positions.  It is SelectSeq, and a map, but *)
(* with a set and a function for parameters, not operators.                *)
(***************************************************************************)
EXTENDS Integers, Sequences

\* The values v[i] of the positions i in 1..n that are in K, in order.
Selection(n, K, v) ==
    LET pushed[i \in 0..n] ==
            IF i = 0 THEN <<>>
            ELSE IF i \in K THEN Append(pushed[i - 1], v[i])
            ELSE pushed[i - 1]
    IN  pushed[n]
============================================================================
