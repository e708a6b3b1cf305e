---------------------------- MODULE MCOwnerTokens ------------------------------
(***************************************************************************)
(* Two devices of one user, and one of another.                            *)
(***************************************************************************)
EXTENDS OwnerTokens

CONSTANTS l1, l2, l3, u1, u2

MCUserOf == [l \in {l1, l2, l3} |-> IF l = l3 THEN u2 ELSE u1]
===============================================================================
