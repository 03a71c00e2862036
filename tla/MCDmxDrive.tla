----------------------------- MODULE MCDmxDrive -----------------------------
(* Small instances of DmxDrive for TLC: the commands posted are exactly    *)
(* those the power path and the DMX task build.                            *)
EXTENDS DmxDrive

MCRequests == PmCommands \cup DmxCommands
=============================================================================
