---------------------------- MODULE AddressBook ----------------------------
(***************************************************************************)
(* What registration promises: an address is entered once, for one account *)
(* and for good, and the account is announced to the other services: in    *)
(* the same step where the service has an outbox, later or never where it  *)
(* has none.                                                               *)
(***************************************************************************)
CONSTANTS Ids, Addresses

VARIABLES book,      \* the entries made so far
          announced, \* the accounts whose registration was announced
          wired      \* the service has an outbox

Entry == [id : Ids, address : Addresses]

Init ==
  /\ book = {}
  /\ announced = {}
  /\ wired \in BOOLEAN

Enrol(e) ==
  /\ announced' = IF wired THEN announced \union {e.id} ELSE announced
  /\ book' = book \union {e}
  /\ \A f \in book : f.id # e.id /\ f.address # e.address
  /\ UNCHANGED wired

Announce(e) ==
  /\ ~wired
  /\ announced' = announced \union {e.id}
  /\ UNCHANGED <<book, wired>>

Next == (\E e \in Entry : Enrol(e)) \/ (\E e \in book : Announce(e))

Spec == Init /\ [][Next]_<<book, announced, wired>>
=============================================================================
