------------------------------ MODULE MCHv9910 ------------------------------
(* Small instances of Hv9910 for TLC. *)
EXTENDS Hv9910, TLC

\* Every command type.  Level 1 renders dark under the coarser dimming
\* configuration and lights under the default one.
MCRequests ==
    {SetDim(1), SetScale(51), ApplyDimming(150), SetPending(FALSE, 0), Disable,
     Identify, EmergencyOff}

Symmetry == Permutations(Callers)
=============================================================================
