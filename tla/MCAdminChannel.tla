--------------------------- MODULE MCAdminChannel ---------------------------
(* Small instances of AdminChannel for TLC. *)
EXTENDS AdminChannel, TLC

Symmetry == Permutations(Ips) \cup Permutations(Secrets)
=============================================================================
