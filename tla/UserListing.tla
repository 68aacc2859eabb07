---------------------------- MODULE UserListing ----------------------------
(***************************************************************************)
(* GET /users: list_users of the router and of UserService, list_paginated *)
(* of the repository and the envelope of the answer.  Every page is cut    *)
(* from a scan of the whole table, in scan order, made anew.  A client     *)
(* walks through the pages until the envelope says that there are no more, *)
(* while accounts are added and changed.                                   *)
(***************************************************************************)
EXTENDS UsersTable

CONSTANTS Stops,   \* where DynamoDB may end a page of a scan, the last id among them
          Sizes,   \* page sizes clients ask for
          MaxPage, \* 100: the service cuts larger ones down
          Filters, \* status filters, AnyStatus for none
          AnyStatus

ASSUME ListingAssumption ==
  /\ Stops \subseteq Nat
  /\ Sizes \subseteq Nat
  /\ MaxPage \in Nat \ {0}
  /\ Filters \subseteq Statuses \union {AnyStatus}
  /\ AnyStatus \notin Statuses

VARIABLE walk  \* the walk and the scan for its current page

\* items, cursor: what the scan has read so far, and up to where.
\* first: the accounts there were at the beginning (history).
Walk == [phase : {"reading", "ended"}, filter : Filters, size : Sizes, page : Nat,
         items : SUBSET Ids, cursor : Nat, first : SUBSET Ids, seen : SUBSET Ids]
NoWalk == [phase |-> "idle"]

ListingInit == walk = NoWalk

-----------------------------------------------------------------------------
(* The pages. *)

\* The place of u in the list of items.
Position(u, items) == Cardinality({v \in items : v <= u})

\* Mutant: pages are counted from 0.
PageFromZero(items, page, size) ==
  {u \in items : page * size < Position(u, items) /\ Position(u, items) <= (page + 1) * size}

\* all_items[start:end] in list_paginated.
PageOf(items, page, size) ==
  {u \in items : (page - 1) * size < Position(u, items) /\ Position(u, items) <= page * size}

\* UserService.list_users: no page is larger than MaxPage.
Clamp(size) == IF size > MaxPage THEN MaxPage ELSE size

\* The envelope: ceil(total / page_size), of the size that was asked for.
TotalPages(total, size) == IF size > 0 THEN (total + size - 1) \div size ELSE 0

Matches(u, filter) == filter = AnyStatus \/ users[u].status = filter

-----------------------------------------------------------------------------

\* A client asks for page 1.
StartWalk ==
  /\ walk.phase # "reading"
  /\ \E size \in Sizes, filter \in Filters :
       walk' = [phase |-> "reading", filter |-> filter, size |-> size, page |-> 1,
                items |-> {}, cursor |-> 0, first |-> Present, seen |-> {}]
  /\ UNCHANGED users

\* One page of the scan, of what matches in it, as far as DynamoDB likes.
Scan(last) ==
  /\ walk.phase = "reading"
  /\ walk.cursor < last
  /\ \E visible \in Visible :
       walk' = [walk EXCEPT
         !.items = @ \union {u \in visible :
                               walk.cursor < u /\ u <= last /\ Matches(u, walk.filter)},
         !.cursor = last]
  /\ UNCHANGED users

\* The scan, or the request, fails: the client asks for the page again.
ScanRaises ==
  /\ "store" \in Faults
  /\ walk.phase = "reading"
  /\ walk' = [walk EXCEPT !.items = {}, !.cursor = 0]
  /\ UNCHANGED users

\* Everything was read.  The client asks for the next page if there is one.
AnswerPage ==
  /\ walk.phase = "reading"
  /\ \A u \in Ids : u <= walk.cursor
  /\ LET more == walk.page < TotalPages(Cardinality(walk.items), walk.size)
     IN  walk' = [walk EXCEPT
           !.seen = @ \union PageOf(walk.items, walk.page, Clamp(walk.size)),
           !.phase = IF more THEN "reading" ELSE "ended",
           !.page = IF more THEN @ + 1 ELSE @,
           !.items = {}, !.cursor = 0]
  /\ UNCHANGED users

ListingNext ==
  \/ StartWalk
  \/ \E last \in Stops : Scan(last)
  \/ ScanRaises
  \/ AnswerPage

-----------------------------------------------------------------------------
(* Properties. *)

ListingTypeOK == walk \in Walk \union {NoWalk}

\* A client that walked through all pages has seen every account that was there
\* when it began, whatever was added meanwhile, and wherever in the order: an
\* account can only move to later pages.  (Unless it asked for a status, which
\* an account on an earlier page may lose, or for larger pages than the service
\* gives out, which makes the envelope count too few, or the scan is stale.)
WalkMissesNobody ==
  /\ "stale" \notin Faults
  /\ walk.phase = "ended" /\ walk.filter = AnyStatus /\ walk.size \in 1..MaxPage
  => walk.first \subseteq walk.seen

-----------------------------------------------------------------------------
(* The strengthening that makes the properties above provable. *)

Reading ==
  /\ "stale" \notin Faults
  /\ walk.phase = "reading" /\ walk.filter = AnyStatus /\ walk.size \in 1..MaxPage

\* What the list of the current page will have at least.
Certain == walk.items \union {u \in Present : u > walk.cursor}

\* An account that the client has not seen is not on a page it has passed.
WalkFits ==
  Reading =>
    /\ walk.page >= 1
    /\ walk.items \subseteq Present /\ \A u \in walk.items : u <= walk.cursor
    /\ walk.first \subseteq Certain
    /\ \A u \in walk.first \ walk.seen : Position(u, Certain) > (walk.page - 1) * walk.size
=============================================================================
