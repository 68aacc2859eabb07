---------------------------- MODULE Registration ----------------------------
(***************************************************************************)
(* AuthService.register.  It looks the address up on the e-mail index, and *)
(* stores the account later, under a condition on its own fresh id only.   *)
(* Where the service has an outbox the account and its event are stored in *)
(* one transaction; where it has none the event is published afterwards.   *)
(* A client that tries again is another request for the same address.      *)
(***************************************************************************)
EXTENDS UsersTable

CONSTANTS Requests,
          AddressOf  \* the address each of them is for

ASSUME RegistrationAssumption == AddressOf \in [Requests -> Addresses]

VARIABLES wired,     \* the service was given an outbox and a unit of work
          pc,        \* where each request is
          form,      \* the id of the user it is about to store, 0 for none
          announced  \* users whose event is in the outbox, or on the bus

registration == <<wired, pc, form, announced>>

\* Whether it was answered with 201, 409, 422 or 500 makes no difference later.
Places == {"new", "save", "publish", "answered"}

RegistrationInit ==
  /\ wired \in BOOLEAN
  /\ pc = [r \in Requests |-> "new"]
  /\ form = [r \in Requests |-> 0]
  /\ announced = {}

Goto(r, place) == pc' = [pc EXCEPT ![r] = place] /\ UNCHANGED form

Answer(r) == pc' = [pc EXCEPT ![r] = "answered"] /\ form' = [form EXCEPT ![r] = 0]

Arrives(r) ==
  /\ pc[r] = "new"
  /\ "overlap" \in Faults \/ \A q \in Requests : pc[q] \notin {"save", "publish"}

\* The password breaks a rule, or the look-up raises.
Refuse(r) ==
  /\ Arrives(r)
  /\ Answer(r)
  /\ UNCHANGED <<users, wired, announced>>

\* A uuid4 that nobody else has.
Fresh == {u \in Ids \ (People \union Present) : \A q \in Requests : form[q] # u}

\* Mutant: the address is compared with the accounts that are active only.
TakenByActive(address, visible) ==
  \E u \in visible : users[u].address = address /\ users[u].status = "active"

\* find_by_email asks the index.
Taken(address, visible) == \E u \in visible : users[u].address = address

LookUp(r) ==
  /\ Arrives(r)
  /\ \E visible \in Visible :
       IF Taken(AddressOf[r], visible)
       THEN Answer(r)
       ELSE \E u \in Fresh :
              /\ form' = [form EXCEPT ![r] = u]
              /\ pc' = [pc EXCEPT ![r] = "save"]
  /\ UNCHANGED <<users, wired, announced>>

-----------------------------------------------------------------------------

\* The item that save_operation and save put: the condition of the former,
\* attribute_not_exists(pk), is about the id.
PutUser(r) ==
  users' = [users EXCEPT ![form[r]] =
    [address |-> AddressOf[r], status |-> "pending", roles |-> {"member"}, touched |-> FALSE]]

\* Mutant: the transaction has no second operation.
StoreUserAlone(r) == PutUser(r) /\ UNCHANGED announced

\* What UnitOfWork.execute, or save in its stead, does when it takes effect.
Store(r) ==
  /\ wired => users[form[r]] = NoAccount
  /\ PutUser(r)
  /\ announced' = IF wired THEN announced \union {form[r]} ELSE announced

Save(r) ==
  /\ pc[r] = "save"
  /\ Store(r)
  /\ IF wired THEN Answer(r) ELSE Goto(r, "publish")
  /\ UNCHANGED wired

\* The call raises RepositoryError, whether it took effect or not.
SaveRaises(r) ==
  /\ "store" \in Faults
  /\ pc[r] = "save"
  /\ Store(r) \/ UNCHANGED <<users, announced>>
  /\ Answer(r)
  /\ UNCHANGED wired

Publish(r) ==
  /\ pc[r] = "publish"
  /\ announced' = announced \union {form[r]}
  /\ Answer(r)
  /\ UNCHANGED <<users, wired>>

\* The bus refuses, or the Lambda dies with the request.
Abandon(r) ==
  /\ "crash" \in Faults
  /\ pc[r] \in {"save", "publish"}
  /\ Answer(r)
  /\ UNCHANGED <<users, wired, announced>>

RegistrationNext ==
  \E r \in Requests :
    \/ Refuse(r)
    \/ LookUp(r)
    \/ Save(r) \/ SaveRaises(r)
    \/ Publish(r)
    \/ Abandon(r)

-----------------------------------------------------------------------------
(* Properties. *)

RegistrationTypeOK ==
  /\ wired \in BOOLEAN
  /\ pc \in [Requests -> Places]
  /\ form \in [Requests -> Ids \union {0}]
  /\ announced \subseteq Ids

\* While requests come one after another and the index is up to date no address
\* is registered twice, although requests fail after they took effect and their
\* clients try again.  (The migration may bring in an address once more, under
\* the registry's id.)
OneAccountPerAddress ==
  "overlap" \notin Faults /\ "stale" \notin Faults =>
    \A u, v \in Present \ People : users[u].address = users[v].address => u = v

\* The address book that the table amounts to.
bookOf == {[id |-> u, address |-> users[u].address] : u \in Present \ People}

Book == INSTANCE AddressBook WITH book <- bookOf

\* Registration keeps the promise of AddressBook where requests do not overlap
\* and the index is up to date.
ImplementsAddressBook == Book!Spec

-----------------------------------------------------------------------------
(* The strengthening that makes the properties above provable. *)

UnderWay(r) == pc[r] \in {"save", "publish"}

\* A form holds an id of its own, which is free until the account is stored.
FormsFit ==
  /\ \A r \in Requests :
       /\ UnderWay(r) => form[r] \in Ids \ People
       /\ ~UnderWay(r) => form[r] = 0
       /\ pc[r] = "save" => users[form[r]] = NoAccount
       /\ pc[r] = "publish" => ~wired /\ users[form[r]] # NoAccount
  /\ \A q, r \in Requests : form[q] = form[r] /\ form[q] # 0 => q = r

\* Where requests come one after another nobody takes the address away that one
\* of them found free.
LookUpHolds ==
  "overlap" \notin Faults /\ "stale" \notin Faults =>
    /\ \A q, r \in Requests : UnderWay(q) /\ UnderWay(r) => q = r
    /\ \A r \in Requests, u \in Present \ People :
         pc[r] = "save" => users[u].address # AddressOf[r]
=============================================================================
