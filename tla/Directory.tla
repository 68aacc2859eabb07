----------------------------- MODULE Directory -----------------------------
(***************************************************************************)
(* The users table with all that adds to it or lists it: registrations,    *)
(* the migration from the old registry and an administrator's walk through *)
(* the list, while the service goes on changing accounts.                  *)
(***************************************************************************)
EXTENDS Registration, Migration, UserListing

vars == <<users, registration, script, walk>>

Init ==
  /\ users = [u \in Ids |-> NoAccount]
  /\ RegistrationInit
  /\ MigrationInit
  /\ ListingInit

Update == \E u \in Ids : Touch(u)

Next ==
  \/ RegistrationNext /\ UNCHANGED <<script, walk>>
  \/ MigrationNext /\ UNCHANGED <<registration, walk>>
  \/ ListingNext /\ UNCHANGED <<registration, script>>
  \/ Update /\ UNCHANGED <<registration, script, walk>>

Spec == Init /\ [][Next]_vars

\* Every variable has its type.
TypeOK == UsersTypeOK /\ RegistrationTypeOK /\ MigrationTypeOK /\ ListingTypeOK

\* The inductive invariant, see DirectoryProofs.
IInv ==
  /\ TypeOK
  /\ FormsFit /\ LookUpHolds /\ OneAccountPerAddress
  /\ ScriptFits /\ CleanRunIsComplete /\ NobodyPromoted
  /\ WalkFits /\ WalkMissesNobody
=============================================================================
