-------------------------- MODULE DirectoryProofs --------------------------
(***************************************************************************)
(* Proofs about Directory, for every set of ids, people and requests:      *)
(* registration keeps the promise of AddressBook where requests do not     *)
(* overlap, one run of the migration after another spares what the service *)
(* has changed, and a walk through the list, without a filter and in pages *)
(* of at most MaxPage accounts, misses nobody.                             *)
(***************************************************************************)
EXTENDS Directory, FiniteSetTheorems, TLAPS

USE UsersAssumption, RegistrationAssumption, MigrationAssumption, ListingAssumption

-----------------------------------------------------------------------------
(* The operators. *)

\* What registration puts is an account.
LEMMA NewAccount ==
  ASSUME NEW r \in Requests
  PROVE  [address |-> AddressOf[r], status |-> "pending", roles |-> {"member"}, touched |-> FALSE]
           \in Account
BY DEF Account, Statuses, Rights

\* Mapping gives nobody but administrators of the registry more than member.
LEMMA MappedRoles ==
  ASSUME NEW roles, NEW isAdmin \in BOOLEAN
  PROVE  /\ MapRoles(roles, isAdmin) \subseteq Rights
         /\ MapRoles(roles, isAdmin) \ {"member"}
              \subseteq {Lower(q) : q \in roles} \union (IF isAdmin THEN {"admin"} ELSE {})
<1> DEFINE mapped == {MapRole(q) : q \in roles}
           names == {Lower(q) : q \in roles}
           raised == IF isAdmin /\ mapped \intersect {"admin", "super_admin"} = {}
                     THEN mapped \union {"admin"} ELSE mapped
<1>1. \A m \in mapped : m = "member" \/ m \in names \intersect {"admin", "super_admin"}
  BY DEF MapRole
<1> HIDE DEF mapped
<1>2. \A m \in raised : \/ m = "member"
                        \/ m \in names \intersect {"admin", "super_admin"}
                        \/ isAdmin /\ m = "admin"
  <2> HIDE DEF names
  <2>1. QED
    BY <1>1
<1>3. MapRoles(roles, isAdmin) = IF raised = {} THEN {"member"} ELSE raised
  BY DEF MapRoles, mapped
<1> HIDE DEF raised, names
<1>4. MapRoles(roles, isAdmin) \subseteq Rights
  BY <1>2, <1>3 DEF Rights
<1>5. MapRoles(roles, isAdmin) \ {"member"} \subseteq names \union (IF isAdmin THEN {"admin"} ELSE {})
  BY <1>2, <1>3
<1>6. QED
  BY <1>4, <1>5 DEF names

\* What the migration puts for somebody is an account with no right that the
\* registry does not give.
LEMMA PutAccount ==
  ASSUME NEW p \in Wanted, NEW roles \in RolesFetched(p)
  PROVE  /\ Transform(Registry[p], roles) \in Account
         /\ ~Transform(Registry[p], roles).touched
         /\ Transform(Registry[p], roles).roles \ {"member"} \subseteq
              {Lower(q) : q \in Registry[p].roles} \union (IF Registry[p].isAdmin THEN {"admin"} ELSE {})
<1>1. /\ Lower(Registry[p].address) \in Addresses /\ Registry[p].isAdmin \in BOOLEAN
      /\ Registry[p].active \in BOOLEAN /\ Registry[p].verified \in BOOLEAN
  BY DEF Wanted, Person
<1>2. {Lower(q) : q \in roles} \subseteq {Lower(q) : q \in Registry[p].roles}
  BY DEF RolesFetched
<1>3. StatusOf(Registry[p]) \in Statuses
  BY <1>1 DEF StatusOf, Statuses
<1>4. /\ MapRoles(roles, Registry[p].isAdmin) \subseteq Rights
      /\ MapRoles(roles, Registry[p].isAdmin) \ {"member"}
           \subseteq {Lower(q) : q \in roles}
                       \union (IF Registry[p].isAdmin THEN {"admin"} ELSE {})
  BY <1>1, MappedRoles
<1>5. /\ Transform(Registry[p], roles).address = Lower(Registry[p].address)
      /\ Transform(Registry[p], roles).roles = MapRoles(roles, Registry[p].isAdmin)
      /\ ~Transform(Registry[p], roles).touched
      /\ Transform(Registry[p], roles) \in Account
  BY <1>1, <1>3, <1>4 DEF Transform, Account
<1>6. QED
  BY <1>2, <1>4, <1>5

\* The number of pages is enough for all items.
LEMMA EnoughPages ==
  ASSUME NEW n \in Nat, NEW size \in Nat \ {0}, NEW page \in Nat, page >= TotalPages(n, size)
  PROVE  page * size >= n
<1> DEFINE d == (n + size - 1) \div size
<1>1. d \in Int /\ d = TotalPages(n, size)
  BY DEF TotalPages
<1>2. n + size - 1 < size * (d + 1)
  OBVIOUS
<1> HIDE DEF d
<1>3. size * (d + 1) <= size * (page + 1)
  BY <1>1
<1>4. size * (page + 1) = page * size + size
  OBVIOUS
<1>5. QED
  BY <1>1, <1>2, <1>3, <1>4

\* The place of an account in a larger list is no earlier.
LEMMA PositionGrows ==
  ASSUME NEW S, NEW T, S \subseteq T, T \subseteq Ids, NEW u \in S
  PROVE  /\ Position(u, S) \in Nat /\ Position(u, T) \in Nat
         /\ Position(u, S) <= Position(u, T)
         /\ Position(u, S) > 0
         /\ Position(u, S) <= Cardinality(S)
         /\ Cardinality(S) \in Nat
<1> DEFINE before(X) == {v \in X : v <= u}
<1>1. before(S) \subseteq before(T) /\ before(T) \subseteq Ids /\ before(S) \subseteq S /\ S \subseteq Ids
  OBVIOUS
<1>2. IsFiniteSet(before(S)) /\ IsFiniteSet(before(T)) /\ IsFiniteSet(S)
  BY <1>1, FS_Subset
<1>3. u \in before(S)
  OBVIOUS
<1>4. Cardinality(before(S)) # 0
  BY <1>2, <1>3, FS_EmptySet
<1>5. /\ Cardinality(before(S)) \in Nat /\ Cardinality(before(T)) \in Nat
      /\ Cardinality(S) \in Nat
  BY <1>2, FS_CardinalityType
<1>6. Cardinality(before(S)) <= Cardinality(before(T)) /\ Cardinality(before(S)) <= Cardinality(S)
  BY <1>1, <1>2, FS_Subset
<1>7. QED
  BY <1>4, <1>5, <1>6 DEF Position

-----------------------------------------------------------------------------
(* The types. *)

LEMMA TypeInit == Init => TypeOK
<1> SUFFICES ASSUME Init
             PROVE  TypeOK
  OBVIOUS
<1>1. UsersTypeOK
  BY DEF Init, UsersTypeOK
<1>2. RegistrationTypeOK
  BY DEF Init, RegistrationInit, RegistrationTypeOK, Places
<1>3. MigrationTypeOK
  BY DEF Init, MigrationInit, MigrationTypeOK, Script
<1>4. ListingTypeOK
  BY DEF Init, ListingInit, ListingTypeOK
<1>5. QED
  BY <1>1, <1>2, <1>3, <1>4 DEF TypeOK

\* Updates by the service, and what they leave alone.
LEMMA TouchMoves ==
  ASSUME UsersTypeOK, NEW u \in Ids, Touch(u)
  PROVE  /\ UsersTypeOK'
         /\ Present' = Present
         /\ \A v \in Present : /\ users'[v].address = users[v].address
                               /\ v # u => users'[v] = users[v]
         /\ users[u] # NoAccount /\ ~users[u].touched /\ users'[u].touched
<1>1. users[u] \in Account
  BY DEF Touch, Present, UsersTypeOK
<1>2. PICK status \in Changes :
        users' = [users EXCEPT ![u].status = status, ![u].touched = TRUE]
  BY DEF Touch
<1>3. /\ users'[u] = [users[u] EXCEPT !.status = status, !.touched = TRUE]
      /\ \A v \in Ids \ {u} : users'[v] = users[v]
      /\ DOMAIN users' = Ids
  BY <1>2 DEF UsersTypeOK
<1>4. users'[u] \in Account /\ users'[u].address = users[u].address /\ users'[u].touched
  BY <1>1, <1>3 DEF Account
<1>5. UsersTypeOK'
  BY <1>2, <1>3, <1>4 DEF UsersTypeOK
<1>6. users'[u] # NoAccount /\ users[u] # NoAccount /\ ~users[u].touched
  BY <1>1, <1>4 DEF Touch
<1>7. \A v \in Ids : users'[v] # NoAccount <=> users[v] # NoAccount
  BY <1>3, <1>6
<1>8. Present' = Present
  BY <1>7 DEF Present
<1>9. \A v \in Ids : users'[v].address = users[v].address /\ (v # u => users'[v] = users[v])
  BY <1>3, <1>4
<1>10. QED
  BY <1>4, <1>5, <1>6, <1>8, <1>9 DEF Present

\* Every step does one of four things to the table.
LEMMA UsersMove ==
  ASSUME UsersTypeOK, [Next]_vars
  PROVE  \/ users' = users
         \/ \E u \in Ids : Touch(u) /\ UNCHANGED <<registration, script, walk>>
         \/ \E r \in Requests : pc[r] = "save" /\ Store(r) /\ UNCHANGED <<script, walk>>
         \/ \E p \in People : Migrating(p) /\ Put(p) /\ UNCHANGED <<registration, walk>>
<1>1. CASE RegistrationNext /\ UNCHANGED <<script, walk>>
  BY <1>1 DEF RegistrationNext, Refuse, LookUp, Save, SaveRaises, Publish, Abandon
<1>2. CASE MigrationNext /\ UNCHANGED <<registration, walk>>
  BY <1>2 DEF MigrationNext, Start, Skip, Migrate, MigrateRaises, End, Die
<1>3. CASE ListingNext /\ UNCHANGED <<registration, script>>
  BY <1>3 DEF ListingNext, StartWalk, Scan, ScanRaises, AnswerPage
<1>4. CASE Update /\ UNCHANGED <<registration, script, walk>>
  BY <1>4 DEF Update
<1>5. CASE UNCHANGED vars
  BY <1>5 DEF vars
<1>6. QED
  BY <1>1, <1>2, <1>3, <1>4, <1>5 DEF Next

\* What storing a registered user does to the table.
LEMMA StoreMoves ==
  ASSUME UsersTypeOK, NEW r \in Requests, form[r] \in Ids, Store(r)
  PROVE  /\ UsersTypeOK'
         /\ users'[form[r]] # NoAccount
         /\ users'[form[r]].address = AddressOf[r]
         /\ \A u \in Ids \ {form[r]} : users'[u] = users[u]
         /\ Present' = Present \union {form[r]}
<1> DEFINE account == [address |-> AddressOf[r], status |-> "pending",
                       roles |-> {"member"}, touched |-> FALSE]
<1>1. account \in Account
  BY NewAccount
<1>2. users' = [users EXCEPT ![form[r]] = account]
  BY DEF Store, PutUser
<1>3. account.address = AddressOf[r]
  OBVIOUS
<1> HIDE DEF account
<1>4. QED
  BY <1>1, <1>2, <1>3 DEF UsersTypeOK, Present

\* What the migration does to the table.
LEMMA PutMoves ==
  ASSUME UsersTypeOK, NEW p \in Wanted, Put(p)
  PROVE  /\ UsersTypeOK'
         /\ \A u \in Ids \ {p} : users'[u] = users[u]
         /\ users'[p] # NoAccount
         /\ users'[p].roles \ {"member"} \subseteq
              {Lower(q) : q \in Registry[p].roles} \union (IF Registry[p].isAdmin THEN {"admin"} ELSE {})
         /\ Present' = Present \union {p}
<1>1. PICK roles \in RolesFetched(p) : users' = [users EXCEPT ![p] = Transform(Registry[p], roles)]
  BY DEF Put
<1> DEFINE account == Transform(Registry[p], roles)
<1>2. /\ account \in Account
      /\ account.roles \ {"member"} \subseteq
           {Lower(q) : q \in Registry[p].roles} \union (IF Registry[p].isAdmin THEN {"admin"} ELSE {})
  BY PutAccount
<1>3. p \in Ids
  BY DEF Wanted
<1>4. users' = [users EXCEPT ![p] = account]
  BY <1>1
<1> HIDE DEF account
<1>5. /\ UsersTypeOK' /\ users'[p] = account /\ users'[p] # NoAccount
      /\ \A u \in Ids \ {p} : users'[u] = users[u]
  BY <1>2, <1>3, <1>4 DEF UsersTypeOK
<1>6. Present' = Present \union {p}
  BY <1>3, <1>5 DEF Present
<1>7. QED
  BY <1>2, <1>5, <1>6

LEMMA UsersTypeStep ==
  ASSUME UsersTypeOK, RegistrationTypeOK, [Next]_vars
  PROVE  UsersTypeOK'
<1>1. CASE users' = users
  BY <1>1 DEF UsersTypeOK
<1>2. ASSUME NEW u \in Ids, Touch(u)
      PROVE  UsersTypeOK'
  BY <1>2, TouchMoves
<1>3. ASSUME NEW r \in Requests, Store(r)
      PROVE  UsersTypeOK'
  <2>1. CASE form[r] \in Ids
    BY <1>3, <2>1, StoreMoves
  <2>2. CASE form[r] \notin Ids
    BY <1>3, <2>2 DEF Store, PutUser, UsersTypeOK
  <2>3. QED
    BY <2>1, <2>2
<1>4. ASSUME NEW p \in People, Migrating(p), Put(p)
      PROVE  UsersTypeOK'
  BY <1>4, PutMoves DEF Migrating
<1>5. QED
  BY <1>1, <1>2, <1>3, <1>4, UsersMove

LEMMA RegistrationTypeStep ==
  ASSUME UsersTypeOK, RegistrationTypeOK, FormsFit, [Next]_vars
  PROVE  RegistrationTypeOK'
<1>1. CASE UNCHANGED registration
  BY <1>1 DEF RegistrationTypeOK, registration
<1>2. ASSUME NEW r \in Requests, Refuse(r) \/ LookUp(r)
      PROVE  RegistrationTypeOK'
  BY <1>2 DEF Refuse, LookUp, Answer, Fresh, RegistrationTypeOK, Places
<1>3. ASSUME NEW r \in Requests, Save(r) \/ SaveRaises(r) \/ Publish(r) \/ Abandon(r)
      PROVE  RegistrationTypeOK'
  <2>1. wired' = wired
    BY <1>3 DEF Save, SaveRaises, Publish, Abandon
  <2>2. pc' \in [Requests -> Places] /\ form' \in [Requests -> Ids \union {0}]
    BY <1>3 DEF Save, SaveRaises, Publish, Abandon, Answer, Goto, RegistrationTypeOK, Places
  <2>3. announced' \subseteq announced \union {form[r]}
    BY <1>3 DEF Save, SaveRaises, Publish, Abandon, Store
  <2>4. announced' \subseteq Ids
    <3>1. pc[r] \in {"save", "publish"} \/ announced' = announced
      BY <1>3 DEF Save, SaveRaises, Publish, Abandon
    <3>2. QED
      BY <2>3, <3>1 DEF RegistrationTypeOK, FormsFit, UnderWay
  <2>5. QED
    BY <2>1, <2>2, <2>4 DEF RegistrationTypeOK
<1>4. QED
  BY <1>1, <1>2, <1>3 DEF Next, RegistrationNext, vars, registration

LEMMA ScriptTypeStep ==
  ASSUME UsersTypeOK, MigrationTypeOK, [Next]_vars
  PROVE  MigrationTypeOK'
<1>1. CASE script' = script
  BY <1>1 DEF MigrationTypeOK
<1>2. CASE Start
  <2>1. \A existing \in ScanTarget : existing \subseteq Ids
    BY DEF ScanTarget, Visible, Present
  <2>2. QED
    BY <1>2, <2>1 DEF Start, MigrationTypeOK, Script
<1>3. ASSUME NEW p \in People, Skip(p) \/ Migrate(p) \/ MigrateRaises(p)
      PROVE  MigrationTypeOK'
  <2>1. CASE Done(p)
    BY <2>1 DEF Done, MigrationTypeOK, Script
  <2>2. CASE Fail(p)
    BY <2>2 DEF Fail, MigrationTypeOK, Script
  <2>3. QED
    BY <1>3, <2>1, <2>2 DEF Skip, Migrate, MigrateRaises
<1>4. CASE End \/ Die
  BY <1>4 DEF End, Die, MigrationTypeOK, Script
<1>5. QED
  BY <1>1, <1>2, <1>3, <1>4 DEF Next, MigrationNext, vars

LEMMA WalkTypeStep ==
  ASSUME UsersTypeOK, ListingTypeOK, [Next]_vars
  PROVE  ListingTypeOK'
<1>1. CASE walk' = walk
  BY <1>1 DEF ListingTypeOK
<1>2. CASE StartWalk
  BY <1>2 DEF StartWalk, ListingTypeOK, Walk, Present
<1>3. walk.phase = "reading" => walk \in Walk
  BY DEF ListingTypeOK, NoWalk
<1>4. ASSUME NEW last \in Stops, Scan(last)
      PROVE  ListingTypeOK'
  <2>1. PICK visible \in Visible :
          walk' = [walk EXCEPT
            !.items = walk.items \union {u \in visible :
                        walk.cursor < u /\ u <= last /\ Matches(u, walk.filter)},
            !.cursor = last]
    BY <1>4 DEF Scan
  <2> DEFINE items == walk.items \union {u \in visible :
                        walk.cursor < u /\ u <= last /\ Matches(u, walk.filter)}
  <2>2. walk \in Walk
    BY <1>3, <1>4 DEF Scan
  <2>3. items \subseteq Ids
    BY <2>2 DEF Visible, Present, Walk
  <2>4. walk' = [walk EXCEPT !.items = items, !.cursor = last]
    BY <2>1
  <2> HIDE DEF items
  <2>5. walk' \in Walk
    BY <2>2, <2>3, <2>4 DEF Walk
  <2>6. QED
    BY <2>5 DEF ListingTypeOK
<1>5. CASE ScanRaises
  BY <1>3, <1>5 DEF ScanRaises, ListingTypeOK, Walk
<1>6. CASE AnswerPage
  <2> DEFINE more == walk.page < TotalPages(Cardinality(walk.items), walk.size)
             seen == walk.seen \union PageOf(walk.items, walk.page, Clamp(walk.size))
             phase == IF more THEN "reading" ELSE "ended"
             page == IF more THEN walk.page + 1 ELSE walk.page
  <2>1. walk \in Walk
    BY <1>3, <1>6 DEF AnswerPage
  <2>2. seen \subseteq Ids /\ phase \in {"reading", "ended"} /\ page \in Nat
    BY <2>1 DEF PageOf, Walk
  <2>3. walk' = [walk EXCEPT !.seen = seen, !.phase = phase, !.page = page,
                             !.items = {}, !.cursor = 0]
    BY <1>6 DEF AnswerPage
  <2> HIDE DEF seen, phase, page
  <2>4. walk' \in Walk
    BY <2>1, <2>2, <2>3 DEF Walk
  <2>5. QED
    BY <2>4 DEF ListingTypeOK
<1>7. QED
  BY <1>1, <1>2, <1>4, <1>5, <1>6 DEF Next, ListingNext, vars

LEMMA TypeStep == TypeOK /\ FormsFit /\ [Next]_vars => TypeOK'
BY UsersTypeStep, RegistrationTypeStep, ScriptTypeStep, WalkTypeStep DEF TypeOK

-----------------------------------------------------------------------------
(* Registration. *)

\* What a request that stores its account finds, and does.
LEMMA SaveMoves ==
  ASSUME TypeOK, FormsFit, NEW r \in Requests, pc[r] = "save", Store(r)
  PROVE  /\ form[r] \in Ids \ People /\ users[form[r]] = NoAccount
         /\ users'[form[r]] # NoAccount
         /\ users'[form[r]].address = AddressOf[r]
         /\ \A u \in Ids \ {form[r]} : users'[u] = users[u]
         /\ Present' = Present \union {form[r]}
<1>1. form[r] \in Ids \ People /\ users[form[r]] = NoAccount
  BY DEF FormsFit, UnderWay
<1>2. QED
  BY <1>1, StoreMoves DEF TypeOK

\* The effect of everybody else on the accounts of registered users.
LEMMA Elsewhere ==
  ASSUME TypeOK, \/ MigrationNext
                 \/ ListingNext
                 \/ Update
                 \/ UNCHANGED users
  PROVE  /\ Present' \ People = Present \ People
         /\ \A u \in Ids \ People : users'[u] # NoAccount <=> users[u] # NoAccount
         /\ \A u \in Present \ People : users'[u].address = users[u].address
<1>1. ASSUME NEW u \in Ids, Touch(u)
      PROVE  /\ Present' = Present
             /\ \A v \in Present : users'[v].address = users[v].address
  BY <1>1, TouchMoves DEF TypeOK
<1>2. ASSUME NEW p \in People, Migrating(p), Put(p)
      PROVE  /\ Present' \ People = Present \ People
             /\ \A u \in Ids \ People : users'[u] = users[u]
  <2>1. p \in Wanted
    BY <1>2 DEF Migrating
  <2>2. /\ Present' = Present \union {p}
        /\ \A u \in Ids \ {p} : users'[u] = users[u]
    BY <1>2, <2>1, PutMoves DEF TypeOK
  <2>3. QED
    BY <2>2
<1>3. \/ users' = users
      \/ \E u \in Ids : Touch(u)
      \/ \E p \in People : Migrating(p) /\ Put(p)
  BY DEF MigrationNext, Start, Skip, Migrate, MigrateRaises, End, Die,
         ListingNext, StartWalk, Scan, ScanRaises, AnswerPage, Update
<1>4. QED
  BY <1>1, <1>2, <1>3 DEF Present

LEMMA FormsStep ==
  ASSUME TypeOK, FormsFit, [Next]_vars
  PROVE  FormsFit'
<1>1. CASE UNCHANGED registration /\ (MigrationNext \/ ListingNext \/ Update \/ UNCHANGED users)
  <2>1. \A u \in Ids \ People : users'[u] # NoAccount <=> users[u] # NoAccount
    BY <1>1, Elsewhere
  <2>2. QED
    BY <1>1, <2>1 DEF FormsFit, UnderWay, registration
<1>2. ASSUME NEW r \in Requests, Answer(r), UNCHANGED <<users, wired>>
      PROVE  FormsFit'
  BY <1>2 DEF Answer, FormsFit, UnderWay, TypeOK, RegistrationTypeOK
<1>3. ASSUME NEW r \in Requests, LookUp(r)
      PROVE  FormsFit'
  <2>1. CASE Answer(r)
    BY <1>2, <1>3, <2>1 DEF LookUp
  <2>2. CASE \E u \in Fresh : /\ form' = [form EXCEPT ![r] = u]
                              /\ pc' = [pc EXCEPT ![r] = "save"]
    <3>1. PICK u \in Fresh : /\ form' = [form EXCEPT ![r] = u]
                             /\ pc' = [pc EXCEPT ![r] = "save"]
      BY <2>2
    <3>2. /\ u \in Ids \ People /\ users[u] = NoAccount
          /\ \A q \in Requests : form[q] # u
      BY DEF Fresh, Present
    <3>3. UNCHANGED <<users, wired>>
      BY <1>3 DEF LookUp
    <3>4. QED
      BY <3>1, <3>2, <3>3 DEF FormsFit, UnderWay, TypeOK, RegistrationTypeOK
  <2>3. QED
    BY <1>3, <2>1, <2>2 DEF LookUp
<1>4. ASSUME NEW r \in Requests, pc[r] = "save", Store(r), wired' = wired,
             Answer(r) \/ (~wired /\ Goto(r, "publish"))
      PROVE  FormsFit'
  <2>1. /\ form[r] \in Ids \ People /\ users'[form[r]] # NoAccount
        /\ \A u \in Ids \ {form[r]} : users'[u] = users[u]
    BY <1>4, SaveMoves
  <2>2. \A q \in Requests \ {r} : UnderWay(q) => form[q] # form[r]
    BY <2>1 DEF FormsFit
  <2>3. /\ \A q \in Requests \ {r} : pc'[q] = pc[q] /\ form'[q] = form[q]
        /\ \/ pc'[r] = "answered" /\ form'[r] = 0
           \/ pc'[r] = "publish" /\ form'[r] = form[r] /\ ~wired
    BY <1>4 DEF Answer, Goto, TypeOK, RegistrationTypeOK
  <2>4. ASSUME NEW q \in Requests, q # r
        PROVE  /\ UnderWay(q)' => form'[q] \in Ids \ People
               /\ ~UnderWay(q)' => form'[q] = 0
               /\ pc'[q] = "save" => users'[form'[q]] = NoAccount
               /\ pc'[q] = "publish" => ~wired' /\ users'[form'[q]] # NoAccount
    <3>1. UnderWay(q) => form[q] \in Ids \ People /\ users'[form[q]] = users[form[q]]
      BY <2>1, <2>2, <2>4 DEF FormsFit
    <3>2. pc'[q] = pc[q] /\ form'[q] = form[q] /\ wired' = wired
      BY <1>4, <2>3, <2>4
    <3>3. QED
      BY <3>1, <3>2 DEF FormsFit, UnderWay
  <2>5. /\ UnderWay(r)' => form'[r] \in Ids \ People
        /\ ~UnderWay(r)' => form'[r] = 0
        /\ pc'[r] # "save"
        /\ pc'[r] = "publish" => ~wired' /\ users'[form'[r]] # NoAccount
    BY <1>4, <2>1, <2>3 DEF UnderWay
  <2>6. \A q, o \in Requests : form'[q] = form'[o] /\ form'[q] # 0 => q = o
    BY <2>3 DEF FormsFit
  <2>7. QED
    BY <2>4, <2>5, <2>6 DEF FormsFit
<1>5. ASSUME NEW r \in Requests, \/ Refuse(r) \/ LookUp(r) \/ Save(r)
                                 \/ SaveRaises(r) \/ Publish(r) \/ Abandon(r)
      PROVE  FormsFit'
  BY <1>2, <1>3, <1>4, <1>5 DEF Refuse, Save, SaveRaises, Publish, Abandon
<1>6. QED
  BY <1>1, <1>5 DEF Next, RegistrationNext, vars

LEMMA LookUpStep ==
  ASSUME TypeOK, FormsFit, LookUpHolds, [Next]_vars
  PROVE  LookUpHolds'
<1> SUFFICES ASSUME "overlap" \notin Faults, "stale" \notin Faults
             PROVE  /\ \A q, r \in Requests : UnderWay(q)' /\ UnderWay(r)' => q = r
                    /\ \A r \in Requests, u \in (Present \ People)' :
                         pc'[r] = "save" => users'[u].address # AddressOf[r]
  BY DEF LookUpHolds
<1>1. CASE UNCHANGED registration /\ (MigrationNext \/ ListingNext \/ Update \/ UNCHANGED users)
  <2>1. /\ (Present \ People)' = Present \ People
        /\ \A u \in Present \ People : users'[u].address = users[u].address
    BY <1>1, Elsewhere
  <2>2. QED
    BY <1>1, <2>1 DEF LookUpHolds, UnderWay, registration
<1>2. ASSUME NEW r \in Requests, Answer(r), UNCHANGED users
      PROVE  /\ \A q, o \in Requests : UnderWay(q)' /\ UnderWay(o)' => q = o
             /\ \A q \in Requests, u \in (Present \ People)' :
                  pc'[q] = "save" => users'[u].address # AddressOf[q]
  <2>1. \A q \in Requests : pc'[q] = IF q = r THEN "answered" ELSE pc[q]
    BY <1>2 DEF Answer, TypeOK, RegistrationTypeOK
  <2>2. Present' = Present
    BY <1>2 DEF Present
  <2>3. QED
    BY <1>2, <2>1, <2>2 DEF LookUpHolds, UnderWay
<1>3. ASSUME NEW r \in Requests, LookUp(r), ~Answer(r)
      PROVE  /\ \A q, o \in Requests : UnderWay(q)' /\ UnderWay(o)' => q = o
             /\ \A q \in Requests, u \in (Present \ People)' :
                  pc'[q] = "save" => users'[u].address # AddressOf[q]
  <2>1. \A q \in Requests : ~UnderWay(q)
    BY <1>3 DEF LookUp, Arrives, UnderWay
  <2>2. \A q \in Requests : pc'[q] = IF q = r THEN "save" ELSE pc[q]
    BY <1>3 DEF LookUp, TypeOK, RegistrationTypeOK
  <2>3. ~Taken(AddressOf[r], Present) /\ users' = users
    BY <1>3 DEF LookUp, Visible
  <2>4. Present' = Present
    BY <2>3 DEF Present
  <2>5. QED
    BY <2>1, <2>2, <2>3, <2>4 DEF UnderWay, Taken
<1>4. ASSUME NEW r \in Requests, pc[r] = "save", Answer(r) \/ Goto(r, "publish")
      PROVE  /\ \A q, o \in Requests : UnderWay(q)' /\ UnderWay(o)' => q = o
             /\ \A q \in Requests : pc'[q] # "save"
  <2>1. \A q \in Requests \ {r} : ~UnderWay(q) /\ pc'[q] = pc[q]
    BY <1>4 DEF LookUpHolds, UnderWay, Answer, Goto, TypeOK, RegistrationTypeOK
  <2>2. pc'[r] # "save"
    BY <1>4 DEF Answer, Goto, TypeOK, RegistrationTypeOK
  <2>3. QED
    BY <2>1, <2>2 DEF UnderWay
<1>5. ASSUME NEW r \in Requests, \/ Refuse(r) \/ LookUp(r) \/ Save(r)
                                 \/ SaveRaises(r) \/ Publish(r) \/ Abandon(r)
      PROVE  /\ \A q, o \in Requests : UnderWay(q)' /\ UnderWay(o)' => q = o
             /\ \A q \in Requests, u \in (Present \ People)' :
                  pc'[q] = "save" => users'[u].address # AddressOf[q]
  <2>1. CASE Save(r) \/ SaveRaises(r)
    BY <1>4, <2>1 DEF Save, SaveRaises
  <2>2. CASE Refuse(r) \/ Publish(r) \/ Abandon(r)
    BY <1>2, <2>2 DEF Refuse, Publish, Abandon
  <2>3. CASE LookUp(r)
    BY <1>2, <1>3, <2>3 DEF LookUp
  <2>4. QED
    BY <1>5, <2>1, <2>2, <2>3
<1>6. QED
  BY <1>1, <1>5 DEF Next, RegistrationNext, vars

LEMMA OneAccountStep ==
  ASSUME TypeOK, FormsFit, LookUpHolds, OneAccountPerAddress, [Next]_vars
  PROVE  OneAccountPerAddress'
<1> SUFFICES ASSUME "overlap" \notin Faults, "stale" \notin Faults,
                    NEW u \in (Present \ People)', NEW v \in (Present \ People)',
                    users'[u].address = users'[v].address
             PROVE  u = v
  BY DEF OneAccountPerAddress
<1>1. CASE MigrationNext \/ ListingNext \/ Update \/ UNCHANGED users
  BY <1>1, Elsewhere DEF OneAccountPerAddress
<1>2. ASSUME NEW r \in Requests, pc[r] = "save", Store(r)
      PROVE  u = v
  <2>1. /\ form[r] \in Ids \ People /\ users[form[r]] = NoAccount
        /\ users'[form[r]].address = AddressOf[r]
        /\ \A w \in Ids \ {form[r]} : users'[w] = users[w]
        /\ Present' = Present \union {form[r]}
    BY <1>2, SaveMoves
  <2>2. \A w \in Present \ People : users[w].address # AddressOf[r] /\ w # form[r]
    BY <1>2, <2>1 DEF LookUpHolds, Present
  <2>3. Present \subseteq Ids
    BY DEF Present
  <2>4. QED
    BY <2>1, <2>2, <2>3 DEF OneAccountPerAddress
<1>3. ASSUME NEW r \in Requests, \/ Refuse(r) \/ LookUp(r) \/ Save(r)
                                 \/ SaveRaises(r) \/ Publish(r) \/ Abandon(r)
      PROVE  users' = users \/ (pc[r] = "save" /\ Store(r))
  BY <1>3 DEF Refuse, LookUp, Save, SaveRaises, Publish, Abandon
<1>4. QED
  BY <1>1, <1>2, <1>3 DEF Next, RegistrationNext, vars

-----------------------------------------------------------------------------
(* The address book. *)

\* What changes in the table, seen as changes to the book.
LEMMA BookKept ==
  ASSUME (Present \ People)' = Present \ People,
         \A u \in Present \ People : users'[u].address = users[u].address
  PROVE  bookOf' = bookOf
BY DEF bookOf

LEMMA BookGrows ==
  ASSUME TypeOK, FormsFit, LookUpHolds, "overlap" \notin Faults, "stale" \notin Faults,
         NEW r \in Requests, pc[r] = "save", Store(r), wired' = wired
  PROVE  \E e \in Book!Entry : Book!Enrol(e)
<1> DEFINE e == [id |-> form[r], address |-> AddressOf[r]]
<1>1. /\ form[r] \in Ids \ People /\ users[form[r]] = NoAccount
      /\ users'[form[r]].address = AddressOf[r]
      /\ \A u \in Ids \ {form[r]} : users'[u] = users[u]
      /\ Present' = Present \union {form[r]}
  BY SaveMoves
<1>2. \A u \in Present \ People : u \in Ids /\ u # form[r] /\ users[u].address # AddressOf[r]
  BY <1>1 DEF LookUpHolds, Present
<1>3. bookOf' = bookOf \union {e}
  <2>1. bookOf' = {[id |-> u, address |-> users'[u].address] : u \in (Present \ People) \union {form[r]}}
    BY <1>1 DEF bookOf
  <2>2. \A u \in Present \ People : users'[u] = users[u]
    BY <1>1, <1>2
  <2>3. QED
    BY <1>1, <2>1, <2>2 DEF bookOf
<1>4. \A f \in bookOf : f.id # e.id /\ f.address # e.address
  BY <1>2 DEF bookOf
<1>5. announced' = IF wired THEN announced \union {e.id} ELSE announced
  BY DEF Store
<1>6. e \in Book!Entry
  BY <1>1 DEF Book!Entry
<1>7. Book!Enrol(e)
  BY <1>3, <1>4, <1>5 DEF Book!Enrol
<1>8. QED
  BY <1>6, <1>7

LEMMA BookInit == Init => Book!Init
<1> SUFFICES ASSUME Init
             PROVE  Book!Init
  OBVIOUS
<1>1. Present = {}
  BY DEF Init, Present
<1>2. bookOf = {}
  BY <1>1 DEF bookOf
<1>3. QED
  BY <1>2 DEF Init, RegistrationInit, Book!Init

LEMMA BookStep ==
  ASSUME TypeOK, FormsFit, LookUpHolds, "overlap" \notin Faults, "stale" \notin Faults, [Next]_vars
  PROVE  [Book!Next]_<<bookOf, announced, wired>>
<1>1. CASE /\ MigrationNext \/ ListingNext \/ Update \/ UNCHANGED users
           /\ UNCHANGED <<announced, wired>>
  <2>1. bookOf' = bookOf
    BY <1>1, Elsewhere, BookKept
  <2>2. QED
    BY <1>1, <2>1
<1>2. ASSUME NEW r \in Requests, pc[r] = "save", Store(r), wired' = wired
      PROVE  Book!Next
  BY <1>2, BookGrows DEF Book!Next
<1>3. ASSUME NEW r \in Requests, Publish(r)
      PROVE  Book!Next
  <2> DEFINE e == [id |-> form[r], address |-> users[form[r]].address]
  <2>1. form[r] \in Ids \ People /\ users[form[r]] # NoAccount /\ ~wired
    BY <1>3 DEF Publish, FormsFit, UnderWay
  <2>2. e \in bookOf
    BY <2>1 DEF bookOf, Present
  <2>3. bookOf' = bookOf
    BY <1>3, Elsewhere, BookKept DEF Publish
  <2>4. Book!Announce(e)
    BY <1>3, <2>1, <2>3 DEF Publish, Book!Announce
  <2>5. QED
    BY <2>2, <2>4 DEF Book!Next
<1>4. ASSUME NEW r \in Requests, \/ Refuse(r) \/ LookUp(r) \/ Save(r)
                                 \/ SaveRaises(r) \/ Publish(r) \/ Abandon(r)
      PROVE  \/ UNCHANGED <<users, announced, wired>>
             \/ pc[r] = "save" /\ Store(r) /\ wired' = wired
             \/ Publish(r)
  BY <1>4 DEF Refuse, LookUp, Save, SaveRaises, Abandon
<1>5. QED
  BY <1>1, <1>2, <1>3, <1>4 DEF Next, RegistrationNext, registration, vars

-----------------------------------------------------------------------------
(* The migration. *)

\* Accounts stay.
LEMMA PresentGrows ==
  ASSUME TypeOK, FormsFit, [Next]_vars
  PROVE  Present \subseteq Present'
<1>1. ASSUME NEW u \in Ids, Touch(u)
      PROVE  Present' = Present
  BY <1>1, TouchMoves DEF TypeOK
<1>2. ASSUME NEW r \in Requests, pc[r] = "save", Store(r)
      PROVE  Present \subseteq Present'
  BY <1>2, SaveMoves
<1>3. ASSUME NEW p \in People, Migrating(p), Put(p)
      PROVE  Present \subseteq Present'
  BY <1>3, PutMoves DEF TypeOK, Migrating
<1>4. QED
  BY <1>1, <1>2, <1>3, UsersMove DEF TypeOK, Present

LEMMA ScriptStep ==
  ASSUME TypeOK, FormsFit, ScriptFits, CleanRunIsComplete, [Next]_vars
  PROVE  ScriptFits' /\ CleanRunIsComplete'
<1>0. Present \subseteq Present' /\ Wanted \subseteq People
  BY PresentGrows DEF Wanted
<1>00. script \in Script
  BY DEF TypeOK, MigrationTypeOK
<1>1. ASSUME UNCHANGED script, \A p \in People : users[p] = NoAccount => users'[p] = NoAccount
      PROVE  ScriptFits' /\ CleanRunIsComplete'
  BY <1>0, <1>00, <1>1 DEF ScriptFits, CleanRunIsComplete, Script
<1>2. CASE Start
  <2>1. PICK existing \in Visible :
          script' = [running |-> TRUE, people |-> People, existing |-> existing,
                     errors |-> FALSE, exit |-> "none"]
    BY <1>2 DEF Start, ScanTarget
  <2>2. users' = users /\ Present' = Present
    BY <1>2 DEF Start, Present
  <2>3. existing \subseteq Present /\ ("stale" \notin Faults => existing = Present)
    BY DEF Visible
  <2>4. \A p \in People \ Present : users[p] = NoAccount
    BY DEF Present
  <2>5. QED
    BY <1>0, <2>1, <2>2, <2>3, <2>4 DEF ScriptFits, CleanRunIsComplete
<1>3. ASSUME NEW p \in People, Skip(p)
      PROVE  ScriptFits' /\ CleanRunIsComplete'
  <2>1. /\ script' = [script EXCEPT !.people = script.people \ {p}]
        /\ Present' = Present /\ users' = users /\ script.running
        /\ p \in Present \/ p \notin Wanted
    BY <1>3 DEF Skip, Done, Present, ScriptFits
  <2>2. /\ script'.running = script.running /\ script'.errors = script.errors
        /\ script'.existing = script.existing /\ script'.exit = script.exit
        /\ script'.people = script.people \ {p}
    BY <1>00, <2>1 DEF Script
  <2>3. QED
    BY <2>1, <2>2 DEF ScriptFits, CleanRunIsComplete
<1>4. ASSUME NEW p \in People, Migrate(p) \/ MigrateRaises(p)
      PROVE  ScriptFits' /\ CleanRunIsComplete'
  <2>1. /\ script'.running = script.running /\ script'.existing = script.existing
        /\ script'.exit = script.exit /\ script'.people = script.people \ {p}
        /\ script'.errors \/ (script'.errors = script.errors /\ Put(p))
    BY <1>00, <1>4 DEF Migrate, MigrateRaises, Done, Fail, Script
  <2>2. p \in Wanted /\ (Put(p) \/ users' = users)
    BY <1>4 DEF Migrate, MigrateRaises, Migrating
  <2>3. \A q \in People \ {p} : users'[q] = users[q]
    BY <2>2, PutMoves DEF TypeOK
  <2>4. Put(p) => p \in Present'
    BY <2>2, PutMoves DEF TypeOK
  <2>5. script.people \subseteq People
    BY <1>00 DEF Script
  <2>6. QED
    BY <1>0, <2>1, <2>3, <2>4, <2>5 DEF ScriptFits, CleanRunIsComplete
<1>5. CASE End
  <2>1. /\ script.people = {} /\ script.running /\ Present' = Present
        /\ script'.existing = {} /\ ~script'.running
        /\ script'.exit = "clean" => ~script.errors
    BY <1>00, <1>5 DEF End, Script, Present
  <2>2. QED
    BY <1>0, <2>1 DEF ScriptFits, CleanRunIsComplete
<1>6. CASE Die
  <2>1. /\ script'.existing = {} /\ ~script'.running /\ script'.exit = script.exit
        /\ Present' = Present
    BY <1>00, <1>6 DEF Die, Script, Present
  <2>2. QED
    BY <2>1 DEF ScriptFits, CleanRunIsComplete
<1>7. CASE RegistrationNext /\ UNCHANGED script
  <2>1. ASSUME NEW r \in Requests, pc[r] = "save", Store(r), NEW p \in People
        PROVE  users'[p] = users[p]
    BY <2>1, SaveMoves
  <2>2. users' = users \/ \E r \in Requests : pc[r] = "save" /\ Store(r)
    BY <1>7 DEF RegistrationNext, Refuse, LookUp, Save, SaveRaises, Publish, Abandon
  <2>3. QED
    BY <1>1, <1>7, <2>1, <2>2
<1>8. CASE Update /\ UNCHANGED script
  <2>1. ASSUME NEW u \in Ids, Touch(u), NEW p \in People
        PROVE  users[p] = NoAccount => users'[p] = NoAccount
    BY <2>1, TouchMoves DEF TypeOK, Present
  <2>2. QED
    BY <1>1, <1>8, <2>1 DEF Update
<1>9. CASE UNCHANGED <<users, script>>
  BY <1>1, <1>9
<1>10. QED
  BY <1>2, <1>3, <1>4, <1>5, <1>6, <1>7, <1>8, <1>9
     DEF Next, MigrationNext, ListingNext, StartWalk, Scan, ScanRaises, AnswerPage, vars

LEMMA PromotedStep ==
  ASSUME TypeOK, FormsFit, NobodyPromoted, [Next]_vars
  PROVE  NobodyPromoted'
<1>1. CASE users' = users
  BY <1>1 DEF NobodyPromoted, Present
<1>2. ASSUME NEW u \in Ids, Touch(u)
      PROVE  NobodyPromoted'
  BY <1>2, TouchMoves DEF NobodyPromoted, TypeOK
<1>3. ASSUME NEW r \in Requests, pc[r] = "save", Store(r)
      PROVE  NobodyPromoted'
  <2>1. \A p \in People : users'[p] = users[p] /\ (p \in Present' <=> p \in Present)
    BY <1>3, SaveMoves
  <2>2. QED
    BY <2>1 DEF NobodyPromoted
<1>4. ASSUME NEW p \in People, Migrating(p), Put(p)
      PROVE  NobodyPromoted'
  <2>1. /\ \A u \in Ids \ {p} : users'[u] = users[u]
        /\ users'[p].roles \ {"member"} \subseteq
             {Lower(q) : q \in Registry[p].roles} \union (IF Registry[p].isAdmin THEN {"admin"} ELSE {})
        /\ Present' = Present \union {p}
    BY <1>4, PutMoves DEF TypeOK, Migrating
  <2>2. QED
    BY <2>1 DEF NobodyPromoted
<1>5. QED
  BY <1>1, <1>2, <1>3, <1>4, UsersMove DEF TypeOK

-----------------------------------------------------------------------------
(* The walk. *)

\* A step that leaves the walk to its place, or puts it back to the beginning of
\* the page, and does not take accounts away, keeps what is certain of the list.
LEMMA CertainGrows ==
  ASSUME TypeOK, WalkFits, Reading, Present \subseteq Present',
         walk' = walk \/ walk' = [walk EXCEPT !.items = {}, !.cursor = 0]
  PROVE  WalkFits'
<1>0. walk \in Walk
  BY DEF Reading, TypeOK, ListingTypeOK, NoWalk
<1>1. /\ walk.page \in Nat /\ walk.page >= 1 /\ walk.size \in Nat
      /\ walk.items \subseteq Present /\ \A u \in walk.items : u <= walk.cursor
      /\ walk.first \subseteq Certain
      /\ \A u \in walk.first \ walk.seen : Position(u, Certain) > (walk.page - 1) * walk.size
  BY <1>0 DEF WalkFits, Walk, Reading
<1>2. /\ walk'.page = walk.page /\ walk'.size = walk.size /\ walk'.filter = walk.filter
      /\ walk'.first = walk.first /\ walk'.seen = walk.seen
      /\ \/ walk'.items = walk.items /\ walk'.cursor = walk.cursor
         \/ walk'.items = {} /\ walk'.cursor = 0
  BY <1>0 DEF Walk
<1>3. Certain \subseteq Certain' /\ Certain' \subseteq Ids
  <2>1. \A u \in Ids : u \in Nat /\ u > 0
    OBVIOUS
  <2>2. Present' \subseteq Ids /\ Present \subseteq Ids
    BY DEF Present
  <2>3. QED
    BY <1>1, <1>2, <2>1, <2>2 DEF Certain
<1>4. \A u \in walk.first \ walk.seen : Position(u, Certain') > (walk.page - 1) * walk.size
  <2> SUFFICES ASSUME NEW u \in walk.first \ walk.seen
               PROVE  Position(u, Certain') > (walk.page - 1) * walk.size
    OBVIOUS
  <2>1. /\ Position(u, Certain) \in Nat /\ Position(u, Certain') \in Nat
        /\ Position(u, Certain) <= Position(u, Certain')
    BY <1>1, <1>3, PositionGrows
  <2>2. (walk.page - 1) * walk.size \in Int
    BY <1>1
  <2>3. QED
    BY <1>1, <2>1, <2>2
<1>5. QED
  BY <1>1, <1>2, <1>3, <1>4 DEF WalkFits

LEMMA WalkStep ==
  ASSUME TypeOK, FormsFit, WalkFits, WalkMissesNobody, [Next]_vars
  PROVE  WalkFits' /\ WalkMissesNobody'
<1>0. Present \subseteq Present' /\ Present \subseteq Ids /\ Present' \subseteq Ids
  BY PresentGrows DEF Present
<1>1. CASE UNCHANGED walk
  <2>1. CASE Reading
    BY <1>0, <1>1, <2>1, CertainGrows DEF WalkMissesNobody
  <2>2. CASE ~Reading
    BY <1>1, <2>2 DEF Reading, WalkFits, WalkMissesNobody
  <2>3. QED
    BY <2>1, <2>2
<1>2. CASE StartWalk
  <2>1. PICK size \in Sizes, filter \in Filters :
          walk' = [phase |-> "reading", filter |-> filter, size |-> size, page |-> 1,
                   items |-> {}, cursor |-> 0, first |-> Present, seen |-> {}]
    BY <1>2 DEF StartWalk
  <2>2. /\ walk'.phase = "reading" /\ walk'.size = size /\ walk'.page = 1
        /\ walk'.items = {} /\ walk'.cursor = 0 /\ walk'.first = Present
        /\ Present' = Present /\ size \in Nat
    BY <1>2, <2>1 DEF StartWalk, Present
  <2>3. \A u \in Ids : u \in Nat /\ u > 0
    OBVIOUS
  <2>4. Certain' = Present
    BY <1>0, <2>2, <2>3 DEF Certain
  <2>5. \A u \in Present : Position(u, Present) > (1 - 1) * size
    <3>1. \A u \in Present : Position(u, Present) \in Nat /\ Position(u, Present) > 0
      BY <1>0, PositionGrows
    <3>2. (1 - 1) * size = 0
      BY <2>2
    <3>3. QED
      BY <3>1, <3>2
  <2>6. WalkFits'
    BY <2>2, <2>4, <2>5 DEF WalkFits
  <2>7. WalkMissesNobody'
    BY <2>2 DEF WalkMissesNobody
  <2>8. QED
    BY <2>6, <2>7
<1>3. ASSUME NEW last \in Stops, Scan(last)
      PROVE  WalkFits' /\ WalkMissesNobody'
  <2>0. walk \in Walk /\ last \in Nat
    BY <1>3 DEF Scan, TypeOK, ListingTypeOK, NoWalk
  <2>1. PICK visible \in Visible :
          walk' = [walk EXCEPT
            !.items = walk.items \union {u \in visible :
                        walk.cursor < u /\ u <= last /\ Matches(u, walk.filter)},
            !.cursor = last]
    BY <1>3 DEF Scan
  <2>2. /\ walk'.phase = "reading" /\ walk'.filter = walk.filter /\ walk'.size = walk.size
        /\ walk'.page = walk.page /\ walk'.first = walk.first /\ walk'.seen = walk.seen
        /\ walk'.cursor = last
        /\ walk'.items = walk.items \union {u \in visible :
                           walk.cursor < u /\ u <= last /\ Matches(u, walk.filter)}
    BY <1>3, <2>0, <2>1 DEF Scan, Walk
  <2>3. walk.cursor < last /\ users' = users /\ Present' = Present
    BY <1>3 DEF Scan, Present
  <2>4. CASE Reading
    <3>1. visible = Present /\ \A u \in visible : Matches(u, walk.filter)
      BY <2>4 DEF Visible, Matches, Reading
    <3>2. walk'.items = walk.items \union {u \in Present : walk.cursor < u /\ u <= last}
      BY <2>2, <3>1
    <3>3. walk.cursor \in Nat /\ \A u \in Present : u \in Nat
      BY <1>0, <2>0 DEF Walk
    <3>4. walk.items \subseteq Present /\ \A u \in walk.items : u <= walk.cursor
      BY <2>4 DEF WalkFits
    <3>5. Certain' = Certain
      BY <2>0, <2>2, <2>3, <3>2, <3>3, <3>4 DEF Certain
    <3>6. walk'.items \subseteq Present /\ \A u \in walk'.items : u <= last
      BY <2>0, <2>3, <3>2, <3>3, <3>4
    <3>7. WalkFits'
      BY <2>2, <2>3, <2>4, <3>5, <3>6 DEF WalkFits
    <3>8. QED
      BY <2>2, <3>7 DEF WalkMissesNobody
  <2>5. CASE ~Reading
    BY <1>3, <2>2, <2>5 DEF Scan, Reading, WalkFits, WalkMissesNobody
  <2>6. QED
    BY <2>4, <2>5
<1>4. CASE ScanRaises
  <2>1. walk \in Walk
    BY <1>4 DEF ScanRaises, TypeOK, ListingTypeOK, NoWalk
  <2>2. /\ walk'.phase = "reading" /\ walk'.filter = walk.filter /\ walk'.size = walk.size
        /\ walk' = [walk EXCEPT !.items = {}, !.cursor = 0]
    BY <1>4, <2>1 DEF ScanRaises, Walk
  <2>3. CASE Reading
    BY <1>0, <2>2, <2>3, CertainGrows DEF WalkMissesNobody
  <2>4. CASE ~Reading
    BY <1>4, <2>2, <2>4 DEF ScanRaises, Reading, WalkFits, WalkMissesNobody
  <2>5. QED
    BY <2>3, <2>4
<1>5. CASE AnswerPage
  <2> DEFINE n == Cardinality(walk.items)
             more == walk.page < TotalPages(n, walk.size)
             seen == walk.seen \union PageOf(walk.items, walk.page, Clamp(walk.size))
             phase == IF more THEN "reading" ELSE "ended"
             page == IF more THEN walk.page + 1 ELSE walk.page
  <2>1. walk \in Walk /\ walk.phase = "reading" /\ \A u \in Ids : u <= walk.cursor
    BY <1>5 DEF AnswerPage, TypeOK, ListingTypeOK, NoWalk
  <2>2. walk' = [walk EXCEPT !.seen = seen, !.phase = phase, !.page = page,
                             !.items = {}, !.cursor = 0]
    BY <1>5 DEF AnswerPage
  <2>3. /\ walk'.phase = phase /\ walk'.filter = walk.filter /\ walk'.size = walk.size
        /\ walk'.page = page /\ walk'.first = walk.first /\ walk'.seen = seen
        /\ walk'.items = {} /\ walk'.cursor = 0
    <3> HIDE DEF seen, phase, page
    <3>1. QED
      BY <2>1, <2>2 DEF Walk
  <2>4. users' = users /\ Present' = Present
    BY <1>5 DEF AnswerPage, Present
  <2>5. CASE ~Reading
    BY <2>1, <2>3, <2>5 DEF Reading, WalkFits, WalkMissesNobody
  <2>6. CASE Reading
    <3>1. /\ walk.page \in Nat /\ walk.page >= 1 /\ walk.size \in Nat \ {0}
          /\ walk.size <= MaxPage /\ walk.cursor \in Nat
      BY <2>1, <2>6 DEF WalkFits, Reading, Walk
    <3>2. \A u \in Present : ~(u > walk.cursor)
      <4>1. \A u \in Present : u \in Nat /\ u <= walk.cursor
        BY <1>0, <2>1
      <4>2. QED
        BY <3>1, <4>1
    <3>3. Certain = walk.items
      BY <3>2 DEF Certain
    <3>4. /\ walk.items \subseteq Present /\ walk.first \subseteq walk.items
          /\ \A u \in walk.first \ walk.seen :
               Position(u, walk.items) > (walk.page - 1) * walk.size
      BY <2>6, <3>3 DEF WalkFits
    <3>5. \A u \in walk.items : /\ Position(u, walk.items) \in Nat
                                /\ Position(u, walk.items) <= n /\ n \in Nat
                                /\ Position(u, Present) \in Nat
                                /\ Position(u, walk.items) <= Position(u, Present)
      BY <1>0, <3>4, PositionGrows
    <3>6. Clamp(walk.size) = walk.size
      BY <3>1 DEF Clamp
    <3>7. walk.page * walk.size \in Nat
      BY <3>1
    <3>8. \A u \in walk.first \ seen : Position(u, walk.items) > walk.page * walk.size
      <4> SUFFICES ASSUME NEW u \in walk.first \ seen
                   PROVE  Position(u, walk.items) > walk.page * walk.size
        OBVIOUS
      <4>1. u \in walk.items /\ Position(u, walk.items) > (walk.page - 1) * walk.size
        BY <3>4
      <4>2. u \notin PageOf(walk.items, walk.page, walk.size)
        BY <3>6
      <4>3. ~(Position(u, walk.items) <= walk.page * walk.size)
        BY <4>1, <4>2 DEF PageOf
      <4>4. QED
        BY <3>5, <3>7, <4>1, <4>3
    <3>9. CASE more
      <4>1. Certain' = Present
        <5>1. \A u \in Present : u > 0
          BY <1>0
        <5>2. QED
          BY <2>3, <2>4, <5>1 DEF Certain
      <4>2. page = walk.page + 1 /\ phase = "reading" /\ page - 1 = walk.page
        BY <3>1, <3>9
      <4>3. \A u \in walk.first \ seen : Position(u, Present) > (page - 1) * walk.size
        <5> SUFFICES ASSUME NEW u \in walk.first \ seen
                     PROVE  Position(u, Present) > walk.page * walk.size
          BY <4>2
        <5>1. Position(u, walk.items) > walk.page * walk.size /\ u \in walk.items
          BY <3>4, <3>8
        <5>2. QED
          BY <3>5, <3>7, <5>1
      <4> HIDE DEF seen, more, page, phase
      <4>4. page >= 1
        BY <3>1, <4>2
      <4>5. WalkFits'
        BY <2>3, <3>4, <4>1, <4>3, <4>4 DEF WalkFits
      <4>6. QED
        BY <2>3, <4>2, <4>5 DEF WalkMissesNobody
    <3>10. CASE ~more
      <4>1. phase = "ended"
        BY <3>10
      <4>2. ASSUME NEW u \in walk.first \ seen
            PROVE  FALSE
        <5>1. u \in walk.items /\ n \in Nat /\ Position(u, walk.items) <= n
              /\ Position(u, walk.items) \in Nat /\ Position(u, walk.items) > walk.page * walk.size
          BY <3>4, <3>5, <3>8
        <5>2. TotalPages(n, walk.size) \in Int
          BY <3>1, <5>1 DEF TotalPages
        <5>3. walk.page >= TotalPages(n, walk.size)
          BY <3>1, <3>10, <5>2
        <5>4. walk.page * walk.size >= n
          BY <3>1, <5>1, <5>3, EnoughPages
        <5>5. QED
          BY <3>7, <5>1, <5>4
      <4>3. walk.first \subseteq seen
        BY <4>2
      <4> HIDE DEF seen, more, page, phase
      <4>4. QED
        BY <2>3, <4>1, <4>3 DEF WalkFits, Reading, WalkMissesNobody
    <3>11. QED
      BY <3>9, <3>10
  <2>7. QED
    BY <2>5, <2>6
<1>6. QED
  BY <1>1, <1>2, <1>3, <1>4, <1>5 DEF Next, ListingNext, vars

-----------------------------------------------------------------------------
(* The theorems. *)

LEMMA InvInit == Init => IInv
<1> SUFFICES ASSUME Init
             PROVE  IInv
  OBVIOUS
<1>1. TypeOK
  BY TypeInit
<1>2. Present = {}
  BY DEF Init, Present
<1>3. FormsFit /\ LookUpHolds /\ OneAccountPerAddress
  BY <1>2 DEF Init, RegistrationInit, FormsFit, LookUpHolds, OneAccountPerAddress, UnderWay
<1>4. ScriptFits /\ CleanRunIsComplete /\ NobodyPromoted
  BY <1>2 DEF Init, MigrationInit, ScriptFits, CleanRunIsComplete, NobodyPromoted
<1>5. WalkFits /\ WalkMissesNobody
  BY DEF Init, ListingInit, NoWalk, WalkFits, Reading, WalkMissesNobody
<1>6. QED
  BY <1>1, <1>3, <1>4, <1>5 DEF IInv

LEMMA InvStep == IInv /\ [Next]_vars => IInv'
BY TypeStep, FormsStep, LookUpStep, OneAccountStep, ScriptStep, PromotedStep, WalkStep DEF IInv

LEMMA InvHolds == Spec => []IInv
BY InvInit, InvStep, PTL DEF Spec

\* Every variable has its type.
THEOREM TypeCorrect == Spec => []TypeOK
<1>1. IInv => TypeOK
  BY DEF IInv
<1>2. QED
  BY <1>1, InvHolds, PTL

\* No address is registered twice where requests come one after another.
THEOREM OneAccount == Spec => []OneAccountPerAddress
<1>1. IInv => OneAccountPerAddress
  BY DEF IInv
<1>2. QED
  BY <1>1, InvHolds, PTL

\* There, registration implements the address book.
THEOREM Implementation ==
  ASSUME "overlap" \notin Faults, "stale" \notin Faults
  PROVE  Spec => ImplementsAddressBook
<1>1. Init => Book!Init
  BY BookInit
<1>2. IInv /\ [Next]_vars => [Book!Next]_<<bookOf, announced, wired>>
  BY BookStep DEF IInv
<1>3. QED
  BY <1>1, <1>2, InvHolds, PTL DEF Spec, ImplementsAddressBook, Book!Spec

\* The migration undoes nothing that the service has done.
THEOREM ChangesAreSafe == Spec => ChangesSurvive
<1> DEFINE Survive == "stale" \notin Faults => \A u \in Ids :
             /\ users[u] # NoAccount => users'[u] # NoAccount
             /\ users[u] # NoAccount /\ users[u].touched => users'[u] = users[u]
<1>1. IInv /\ [Next]_vars => [Survive]_users
  <2> SUFFICES ASSUME IInv, [Next]_vars, "stale" \notin Faults, NEW u \in Ids, users[u] # NoAccount
               PROVE  /\ users'[u] # NoAccount
                      /\ users[u].touched => users'[u] = users[u]
    OBVIOUS
  <2>1. CASE users' = users
    BY <2>1
  <2>2. ASSUME NEW v \in Ids, Touch(v)
        PROVE  users'[u] # NoAccount /\ (users[u].touched => users'[u] = users[u])
    <3>1. u \in Present'
      BY <2>2, TouchMoves DEF IInv, TypeOK, Present
    <3>2. users[u].touched => u # v
      BY <2>2 DEF Touch
    <3>3. QED
      BY <2>2, <3>1, <3>2, TouchMoves DEF IInv, TypeOK, Present
  <2>3. ASSUME NEW r \in Requests, pc[r] = "save", Store(r)
        PROVE  users'[u] = users[u]
    BY <2>3, SaveMoves DEF IInv
  <2>4. ASSUME NEW p \in People, Migrating(p), Put(p)
        PROVE  users'[u] = users[u]
    <3>1. users[p] = NoAccount
      BY <2>4 DEF IInv, ScriptFits, Migrating
    <3>2. QED
      BY <2>4, <3>1, PutMoves DEF IInv, TypeOK, Migrating
  <2>5. QED
    BY <2>1, <2>2, <2>3, <2>4, UsersMove DEF IInv, TypeOK
<1>2. QED
  BY <1>1, InvHolds, PTL DEF Spec, ChangesSurvive

\* A run of the migration that ends without errors has left nobody behind.
THEOREM CleanRuns == Spec => []CleanRunIsComplete
<1>1. IInv => CleanRunIsComplete
  BY DEF IInv
<1>2. QED
  BY <1>1, InvHolds, PTL

\* The migration gives nobody rights that the registry does not.
THEOREM NoPromotion == Spec => []NobodyPromoted
<1>1. IInv => NobodyPromoted
  BY DEF IInv
<1>2. QED
  BY <1>1, InvHolds, PTL

\* A walk through all pages of the list without a filter, on fresh reads and in
\* pages of at most MaxPage accounts, misses nobody.  (A client that asks for
\* larger pages gets MaxPage accounts and skips the rest of each.)
THEOREM WalksAreComplete == Spec => []WalkMissesNobody
<1>1. IInv => WalkMissesNobody
  BY DEF IInv
<1>2. QED
  BY <1>1, InvHolds, PTL
=============================================================================
