---------------------------- MODULE MCDirectory ----------------------------
(* A small instance of Directory. *)
EXTENDS Directory, TLC

\* The two people's items as the registry spells them.
MCSpellings == {" A", "b", "Moderator", "User"}
MCLower(n) == CASE n = " A" -> "a" [] n = "Moderator" -> "moderator" [] n = "User" -> "user"
                [] OTHER -> n

PersonA == [address |-> " A", active |-> TRUE, verified |-> FALSE, isAdmin |-> FALSE,
            roles |-> {"Moderator"}]
PersonB == [address |-> "b", active |-> TRUE, verified |-> FALSE, isAdmin |-> TRUE,
            roles |-> {"User"}]
MCRegistry == 2 :> PersonA @@ 3 :> PersonB
MCAddressOf == [r \in Requests |-> "a"]

RequestSymmetry == Permutations(Requests)
=============================================================================
