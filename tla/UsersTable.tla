----------------------------- MODULE UsersTable -----------------------------
(***************************************************************************)
(* The users table as far as registration, migration and listing see it:   *)
(* one item per user id, put there once and updated, never deleted (no     *)
(* service calls delete).  An id is the place of its item in the order of  *)
(* a scan, which is the order of a hash: a fresh uuid may come to lie      *)
(* anywhere.                                                               *)
(***************************************************************************)
EXTENDS Naturals, FiniteSets

CONSTANTS Ids,       \* user ids, numbered in scan order
          People,    \* those that the old registry uses
          Addresses, \* e-mail addresses
          NoAccount, \* no item
          Changes,   \* the statuses that the service's updates leave accounts in
          Faults     \* subset of {"store", "crash", "stale", "overlap", "roles"}

VARIABLE users

Statuses == {"pending", "active", "inactive"}
Rights == {"member", "admin", "super_admin"}

\* touched: the service has changed the account since it was put there.
Account == [address : Addresses, status : Statuses, roles : SUBSET Rights, touched : BOOLEAN]

ASSUME UsersAssumption ==
  /\ Ids \subseteq Nat \ {0} /\ IsFiniteSet(Ids)
  /\ People \subseteq Ids
  /\ NoAccount \notin Account
  /\ Changes \subseteq Statuses

Present == {u \in Ids : users[u] # NoAccount}

\* What an eventually consistent read may see: everything, or any part of it.
Visible == IF "stale" \in Faults THEN SUBSET Present ELSE {Present}

\* Any operation of AuthService or UserService that updates the account; see
\* AccountService.  Once for each account.
Touch(u) ==
  /\ u \in Present
  /\ ~users[u].touched
  /\ \E status \in Changes :
       users' = [users EXCEPT ![u].status = status, ![u].touched = TRUE]

UsersTypeOK == users \in [Ids -> Account \union {NoAccount}]
=============================================================================
