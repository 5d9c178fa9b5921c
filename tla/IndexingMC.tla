----------------------------- MODULE IndexingMC -----------------------------
(* Small instances of Indexing for TLC. *)
EXTENDS Indexing

ThreeChunks == 1..3
SecondIsPoison == {2}
=============================================================================
