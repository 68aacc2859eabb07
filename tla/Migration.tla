----------------------------- MODULE Migration -----------------------------
(***************************************************************************)
(* scripts/migrate_from_registry.py in a live run (--execute): it scans    *)
(* the registry and, once, the ids in the users table; then it takes one   *)
(* person after another, asks for the roles and puts the account without a *)
(* condition.  An operator runs it again when it ended with errors or died.*)
(* The registry does not change meanwhile, and one run of the script ends  *)
(* or dies before the next is started.  A dry run writes nothing and is    *)
(* left out.                                                               *)
(***************************************************************************)
EXTENDS UsersTable

CONSTANTS Registry,  \* the items of PeopleTableV2 and their active roles
          Spellings, \* e-mail addresses and role names as the registry has them
          Lower(_),  \* str.lower, and for an address strip
          NoAddress  \* what a missing or a blank address comes to

Person == [address : Spellings, active : BOOLEAN, verified : BOOLEAN,
           isAdmin : BOOLEAN, roles : SUBSET Spellings]

ASSUME MigrationAssumption ==
  /\ Registry \in [People -> Person]
  /\ \A p \in People : Lower(Registry[p].address) \in Addresses \union {NoAddress}
  /\ NoAddress \notin Addresses

VARIABLE script  \* its local variables, and how the last run ended

Script == [running : BOOLEAN, people : SUBSET People, existing : SUBSET Ids,
           errors : BOOLEAN, exit : {"none", "clean", "errors"}]

MigrationInit ==
  script = [running |-> FALSE, people |-> {}, existing |-> {}, errors |-> FALSE, exit |-> "none"]

-----------------------------------------------------------------------------
(* map_roles and transform. *)

\* Mutant: a moderator becomes an administrator.
MapRoleUp(r) == IF Lower(r) \in {"admin", "super_admin"} THEN Lower(r)
                ELSE IF Lower(r) = "moderator" THEN "admin" ELSE "member"

\* ROLE_MAP of the name in lower case: every other name, known or not, is a member.
MapRole(r) == IF Lower(r) \in {"admin", "super_admin"} THEN Lower(r) ELSE "member"

MapRoles(roles, isAdmin) ==
  LET mapped == {MapRole(r) : r \in roles}
      raised == IF isAdmin /\ mapped \intersect {"admin", "super_admin"} = {}
                THEN mapped \union {"admin"} ELSE mapped
  IN  IF raised = {} THEN {"member"} ELSE raised

\* Mutant: names that UserStatus does not know.
StatusUnmapped(person) == IF person.active THEN "enabled" ELSE "disabled"

StatusOf(person) ==
  CASE ~person.active -> "inactive"
    [] person.active /\ ~person.verified -> "pending"
    [] OTHER -> "active"

Transform(person, roles) ==
  [address |-> Lower(person.address), status |-> StatusOf(person),
   roles |-> MapRoles(roles, person.isAdmin), touched |-> FALSE]

-----------------------------------------------------------------------------
(* main. *)

\* Mutant: without --skip-existing.
ScanNothing == {{}}

\* scan_all of the users table.
ScanTarget == Visible

Start ==
  /\ ~script.running
  /\ \E existing \in ScanTarget :
       script' = [running |-> TRUE, people |-> People, existing |-> existing,
                  errors |-> FALSE, exit |-> "none"]
  /\ UNCHANGED users

\* The people to be migrated.
Wanted == {p \in People : Lower(Registry[p].address) # NoAddress}

Done(p) == script' = [script EXCEPT !.people = @ \ {p}]

Skip(p) ==
  /\ script.running /\ p \in script.people
  /\ p \notin Wanted \/ p \in script.existing
  /\ Done(p)
  /\ UNCHANGED users

Migrating(p) ==
  /\ script.running /\ p \in script.people
  /\ p \in Wanted /\ p \notin script.existing

\* The roles that the query returns: none when it fails, which is not an error.
RolesFetched(p) == {Registry[p].roles} \union (IF "roles" \in Faults THEN {{}} ELSE {})

Put(p) ==
  \E roles \in RolesFetched(p) : users' = [users EXCEPT ![p] = Transform(Registry[p], roles)]

Migrate(p) ==
  /\ Migrating(p)
  /\ Put(p)
  /\ Done(p)

\* Mutant: an error is reported and not counted.
FailUncounted(p) == Done(p)

\* put_item raised ClientError.
Fail(p) == script' = [script EXCEPT !.people = @ \ {p}, !.errors = TRUE]

\* put_item raises, whether it took effect or not.
MigrateRaises(p) ==
  /\ "store" \in Faults
  /\ Migrating(p)
  /\ Put(p) \/ UNCHANGED users
  /\ Fail(p)

End ==
  /\ script.running /\ script.people = {}
  /\ script' = [script EXCEPT !.running = FALSE, !.existing = {}, !.errors = FALSE,
                              !.exit = IF script.errors THEN "errors" ELSE "clean"]
  /\ UNCHANGED users

\* A scan raises, or the operator's machine gives up.
Die ==
  /\ "crash" \in Faults
  /\ script.running
  /\ script' = [script EXCEPT !.running = FALSE, !.people = {}, !.existing = {}, !.errors = FALSE]
  /\ UNCHANGED users

MigrationNext ==
  \/ Start
  \/ \E p \in People : Skip(p) \/ Migrate(p) \/ MigrateRaises(p)
  \/ End
  \/ Die

-----------------------------------------------------------------------------
(* Properties. *)

MigrationTypeOK == script \in Script

\* What the service has done to an account is not undone, however often the
\* script is started, fails or dies, although it puts whole items blindly: what
\* it scanned at its start is enough, if that was up to date.
ChangesSurvive ==
  []["stale" \notin Faults => \A u \in Ids :
       /\ users[u] # NoAccount => users'[u] # NoAccount
       /\ users[u] # NoAccount /\ users[u].touched => users'[u] = users[u]]_users

\* A run that ends without errors leaves nobody behind, whatever earlier runs
\* did.
CleanRunIsComplete == script.exit = "clean" => Wanted \subseteq Present

\* A role query that fails may cost a person rights, but gives nobody rights
\* that the registry does not, however it spells them.
NobodyPromoted ==
  \A p \in People \intersect Present :
    ~users[p].touched =>
      users[p].roles \ {"member"} \subseteq
        {Lower(r) : r \in Registry[p].roles} \union (IF Registry[p].isAdmin THEN {"admin"} ELSE {})

-----------------------------------------------------------------------------
(* The strengthening that makes the properties above provable. *)

ScriptFits ==
  /\ script.existing \subseteq Present
  /\ script.running /\ ~script.errors => Wanted \ script.people \subseteq Present
  /\ "stale" \notin Faults /\ script.running =>
       \A p \in script.people \ script.existing : users[p] = NoAccount
=============================================================================
