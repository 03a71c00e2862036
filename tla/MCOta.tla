------------------------------- MODULE MCOta -------------------------------
(* Small instances of Ota for TLC. *)
EXTENDS Ota

CONSTANTS a, b

\* b takes two chunks, so a chunk of b overruns a session of a.
MCPieces == [i \in {a, b} |-> IF i = a THEN 1 ELSE 2]
=============================================================================
