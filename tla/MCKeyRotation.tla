--------------------------- MODULE MCKeyRotation ---------------------------
(* Small instances of KeyRotation. *)
EXTENDS KeyRotation, TLC

\* An overlap of 2 covers access tokens and an instance's life of 1, and does
\* not cover refresh tokens.
Lives == [access |-> 1, refresh |-> 2]
BothTypes == {"access", "refresh"}

RotationSymmetry == Permutations(Instances) \union Permutations(Keys \ {FirstKey})
=============================================================================
