--------------------------- MODULE MCPowerManager ---------------------------
(* Small instances of PowerManager for TLC: every command a caller posts is *)
(* one of the handlers', so Requests is exactly what they build.            *)
EXTENDS PowerManager
=============================================================================
