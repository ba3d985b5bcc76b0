---------------------------- MODULE MCUserLimits ----------------------------
(* An instance of UserLimits for TLC: a user with a limit of one.          *)
EXTENDS UserLimits, TLC

CONSTANT alice

OneForAlice == alice :> 1
Unlimited == << >>

\* Sessions and addresses are interchangeable: nothing orders them.
Symmetry == Permutations(Sessions) \cup Permutations(Ips)
=============================================================================
