----------------------------- MODULE ExplorerMC -----------------------------
(* A small instance of Explorer for TLC: two browser windows, and results  *)
(* with nothing, with something too far away, and with something near.     *)
EXTENDS Explorer

CONSTANTS w1, w2

TwoWindows == {w1, w2}
Far == "far"
Near == "near"
Distances == [c \in {Far, Near} |-> IF c = Near THEN 1 ELSE 9]
Results == [dense : {<<>>, <<Far>>, <<Near, Far>>}, sparse : {<<>>, <<Far>>}]
Settings == [demo : BOOLEAN, fallback : BOOLEAN]
=============================================================================
