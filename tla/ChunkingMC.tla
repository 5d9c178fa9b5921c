----------------------------- MODULE ChunkingMC -----------------------------
(* Small instances of Chunking for TLC. *)
EXTENDS Chunking

CONSTANTS f1, f2, long, short, blank, bad

OneFile == {f1}
TwoFiles == {f1, f2}
TwoContents == {long, short}
EveryContent == {long, short, blank, bad}
Splits == [h \in Hash |-> IF h = long THEN {0, 1} ELSE IF h = short THEN {0} ELSE {}]
NoContent == {}
BlankContent == {blank}
BadContent == {bad}
=============================================================================
