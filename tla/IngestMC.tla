------------------------------ MODULE IngestMC ------------------------------
(* Small instances of Ingest for TLC. *)
EXTENDS Ingest

CONSTANTS a, b, fatal

TwoFiles == {1, 2}
First == {1}
None == {}
TwoContents == {a, b}
WithFatal == {a, b, fatal}
FatalContent == {fatal}
=============================================================================
