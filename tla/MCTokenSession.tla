--------------------------- MODULE MCTokenSession ---------------------------
(* Small instances of TokenSession. *)
EXTENDS TokenSession, TLC

\* In the order of the real ones: 30 minutes, 7 days, an hour, an hour.
Lives == [access |-> 1, refresh |-> 2, password_reset |-> 1, service |-> 1]

AllSingles == {"password_reset", "service"}
ResetTokens == {"password_reset"}
StoreFaults == {"store"}
CallFaults == {"store", "crash"}
LateAnswers == {"stale", "sweep", "crash"}

\* Requests are interchangeable.
RequestSymmetry == Permutations(Requests)
=============================================================================
