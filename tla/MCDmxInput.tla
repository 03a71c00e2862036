----------------------------- MODULE MCDmxInput -----------------------------
(* Small instances of DmxInput for TLC. *)
EXTENDS DmxInput

\* The Art-Net console and one sACN console at the default priority, a
\* backup sACN console below them.
MCPriorityOf == [i \in Ids |-> IF i = "backup" THEN 50 ELSE 100]
=============================================================================
