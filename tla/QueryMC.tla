------------------------------ MODULE QueryMC ------------------------------
(* A small instance of Query for TLC. *)
EXTENDS Query

TwoChunks == {1, 2}
NoPoison == {}
OneRequest == {"r"}

(* Both chunks near and matching, in opposite orders; one near, the other   *)
(* only matching.                                                           *)
Questions == {
    [dist |-> <<1, 2>>, keyword |-> <<2, 1>>, fallback |-> FALSE],
    [dist |-> <<9, 2>>, keyword |-> <<1, 0>>, fallback |-> TRUE]}

(* 1/61 and 1/62 in whole numbers. *)
ExactScale == 61 * 62
=============================================================================
