---------------------------- MODULE NoncePermit ----------------------------
(***************************************************************************)
(* What the nonces of the admin channel promise: a nonce permits one act,  *)
(* between its issue and its withdrawal.  When it is withdrawn (expired,   *)
(* pushed out by newer ones, lost in a restart) is left open.              *)
(***************************************************************************)
EXTENDS Naturals

CONSTANT Nonces

VARIABLES
    live,     \* nonces that permit an act
    gone,     \* nonces that were used or withdrawn
    acts      \* how many requests each nonce has let through

permitVars == <<live, gone, acts>>

Init ==
    /\ live = {} /\ gone = {}
    /\ acts = [n \in Nonces |-> 0]

Withdraw(S) ==
    /\ S \subseteq live
    /\ live' = live \ S
    /\ gone' = gone \cup S
    /\ UNCHANGED acts

\* A new nonce, perhaps in the place of older ones.
Issue(n, S) ==
    /\ n \notin live \cup gone /\ S \subseteq live
    /\ live' = (live \ S) \cup {n}
    /\ gone' = gone \cup S
    /\ UNCHANGED acts

\* A request acts; nonces found expired on the way are withdrawn with it.
Act(n, S) ==
    /\ n \in live /\ n \in S /\ S \subseteq live
    /\ live' = live \ S
    /\ gone' = gone \cup S
    /\ acts' = [acts EXCEPT ![n] = @ + 1]

Next ==
    \E S \in SUBSET live :
      \/ Withdraw(S)
      \/ \E n \in Nonces : Issue(n, S) \/ Act(n, S)

Spec == Init /\ [][Next]_permitVars
=============================================================================
