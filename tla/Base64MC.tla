------------------------------ MODULE Base64MC ------------------------------
(* A small instance of Base64Messages. *)
EXTENDS Base64Messages

\* No bit, all, the lowest, the highest, alternate ones, and some in between.
MCSample == {0, -1, 1, -128, 85, -86, 15, -64}
============================================================================
