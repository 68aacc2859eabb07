---------------------------- MODULE OutboxProofs ----------------------------
(* Proofs about Outbox, for every set of events and runs and every limit.  *)
EXTENDS Outbox, FiniteSetTheorems, TLAPS

-----------------------------------------------------------------------------
(* Types. *)

\* A saturating counter stays within its bound.
LEMMA BumpType ==
  ASSUME NEW n \in 0..RetryCap
  PROVE  /\ Bump(n) \in 0..RetryCap
         /\ Bump(n) > 0
         /\ n <= Bump(n) /\ Bump(n) <= n + 1
         /\ Bump(n) = RetryCap \/ Bump(n) = n + 1
  BY OutboxAssumption DEF Bump

\* The state of a run after it moves to the next event keeps its type.
LEMMA LeaveType ==
  ASSUME TypeOK, NEW p \in Runs, NEW e \in Events, Leave(p, e)
  PROVE  /\ pc' \in [Runs -> Places]
         /\ todo' \in [Runs -> SUBSET Events]
         /\ seen' \in [Runs -> [Events -> 0..RetryCap]]
  BY OutboxAssumption DEF TypeOK, Leave, Places

\* So does the state of a run that ends.
LEMMA AbortType ==
  ASSUME TypeOK, NEW p \in Runs, Abort(p)
  PROVE  /\ pc' \in [Runs -> Places]
         /\ todo' \in [Runs -> SUBSET Events]
         /\ seen' \in [Runs -> [Events -> 0..RetryCap]]
  BY OutboxAssumption DEF TypeOK, Abort, Places, NothingSeen

\* Writes to the table keep its type.
LEMMA TableType ==
  ASSUME TypeOK, NEW e \in Events
  PROVE  /\ \A s \in Status : SetStatus(e, s) => table' \in [Events -> Item]
         /\ AddRetry(e) => table' \in [Events -> Item]
<1>1. ASSUME NEW s \in Status, SetStatus(e, s) PROVE table' \in [Events -> Item]
  BY <1>1 DEF TypeOK, SetStatus, Item
<1>2. ASSUME AddRetry(e) PROVE table' \in [Events -> Item]
  <2>1. Bump(table[e].retry) \in 0..RetryCap
    BY BumpType DEF TypeOK, Item
  <2>2. QED
    BY <1>2, <2>1 DEF TypeOK, AddRetry, Item
<1>3. QED
  BY <1>1, <1>2

\* Every step of the outbox and its runs preserves the types.
LEMMA TypeStep == TypeOK /\ [Next]_vars => TypeOK'
<1> SUFFICES ASSUME TypeOK, [Next]_vars PROVE TypeOK'
  OBVIOUS
<1> USE DEF TypeOK
<1>1. ASSUME NEW e \in Events, Record(e) PROVE TypeOK'
  BY <1>1, OutboxAssumption DEF Record, Item, Status, runVars
<1>2. ASSUME NEW e \in Events, Replicate(e) PROVE TypeOK'
  BY <1>2 DEF Replicate, runVars
<1>3. ASSUME NEW p \in Runs, FindPending(p) PROVE TypeOK'
  <2>1. View \in [Events -> Item]
    BY DEF View
  <2>2. PICK S \in SUBSET PendingInView :
          /\ todo' = [todo EXCEPT ![p] = S]
          /\ seen' = [seen EXCEPT ![p] =
                        [e \in Events |-> IF e \in S THEN View[e].retry ELSE 0]]
    BY <1>3 DEF FindPending
  <2>3. \A e \in Events : View[e].retry \in 0..RetryCap
    BY <2>1 DEF Item
  <2>4. [e \in Events |-> IF e \in S THEN View[e].retry ELSE 0] \in [Events -> 0..RetryCap]
    BY <2>3, OutboxAssumption
  <2>5. S \in SUBSET Events
    BY DEF PendingInView
  <2>6. QED
    BY <1>3, <2>2, <2>4, <2>5 DEF FindPending, Places
<1>4. ASSUME NEW p \in Runs, Return(p) \/ Crash(p) PROVE TypeOK'
  BY <1>4, AbortType DEF Return, Crash
<1>5. ASSUME NEW p \in Runs, NEW e \in Events, MarkFailed(p, e) \/ MarkFailedRaises(p, e)
      PROVE TypeOK'
  BY <1>5, AbortType, LeaveType, TableType DEF MarkFailed, MarkFailedRaises, Status
<1>6. ASSUME NEW p \in Runs, NEW e \in Events, Publish(p, e) PROVE TypeOK'
  <2>1. Bump(tries[e]) \in 0..RetryCap /\ Bump(accepted[e]) \in 0..RetryCap
    BY BumpType
  <2>2. tries' \in [Events -> 0..RetryCap]
    BY <1>6, <2>1 DEF Publish
  <2>3. accepted' \in [Events -> 0..RetryCap]
    BY <1>6, <2>1 DEF Publish, BusTakes
  <2>4. \E s \in Places : pc' = [pc EXCEPT ![p] = s]
    BY <1>6 DEF Publish, Places
  <2>5. QED
    BY <1>6, <2>2, <2>3, <2>4 DEF Publish, TypeOK
<1>7. ASSUME NEW p \in Runs, NEW e \in Events, MarkPublished(p, e) PROVE TypeOK'
  BY <1>7, LeaveType, TableType DEF MarkPublished, Status
<1>8. ASSUME NEW p \in Runs, NEW e \in Events, MarkPublishedRaises(p, e) PROVE TypeOK'
  BY <1>8, TableType DEF MarkPublishedRaises, Status, Places
<1>9. ASSUME NEW p \in Runs, NEW e \in Events,
             IncrementRetry(p, e) \/ IncrementRetryRaises(p, e)
      PROVE TypeOK'
  BY <1>9, AbortType, LeaveType, TableType DEF IncrementRetry, IncrementRetryRaises
<1>10. CASE UNCHANGED vars
  BY <1>10 DEF vars, runVars
<1>11. QED
  BY <1>1, <1>2, <1>3, <1>4, <1>5, <1>6, <1>7, <1>8, <1>9, <1>10 DEF Next, RunStep

\* The outbox, its index and every run keep their types (table, repository and
\* process_pending).
THEOREM TypeCorrect == Spec => []TypeOK
<1>1. Init => TypeOK
  BY OutboxAssumption DEF Init, TypeOK, Item, Status, Places, NothingSeen
<1>2. QED
  BY <1>1, TypeStep, PTL DEF Spec

-----------------------------------------------------------------------------
(* The two verdicts.  The helpers say how a step moves the runs that are    *)
(* counted, and how the item of one event follows from the item before.    *)

\* What Leave does to the set of runs an inflight attempt of an event belongs to.
LEMMA LeaveInflight ==
  ASSUME TypeOK, NEW p \in Runs, NEW e \in Events, Leave(p, e)
  PROVE  \A f \in Events : Inflight(f)' = Inflight(f) \ {p}
  BY DEF TypeOK, Leave, Inflight, Current

\* The same for a run that ends.
LEMMA AbortInflight ==
  ASSUME TypeOK, NEW p \in Runs, Abort(p)
  PROVE  \A f \in Events : Inflight(f)' = Inflight(f) \ {p}
  BY DEF TypeOK, Abort, Inflight, Current

\* The sets of runs that are counted are finite.
LEMMA CountedRuns ==
  ASSUME NEW S \in SUBSET Runs
  PROVE  /\ IsFiniteSet(S)
         /\ Cardinality(S) \in Nat
         /\ Cardinality(S) <= Cardinality(Runs)
         /\ \A p : /\ p \in S => Cardinality(S \ {p}) = Cardinality(S) - 1
                   /\ Cardinality(S \ {p}) <= Cardinality(S)
                   /\ Cardinality(S \union {p}) <= Cardinality(S) + 1
<1>1. IsFiniteSet(S) /\ Cardinality(S) <= Cardinality(Runs)
  BY FS_Subset, OutboxAssumption
<1>2. Cardinality(S) \in Nat
  BY <1>1, FS_CardinalityType
<1>3. ASSUME NEW p
      PROVE  /\ p \in S => Cardinality(S \ {p}) = Cardinality(S) - 1
             /\ Cardinality(S \ {p}) <= Cardinality(S)
             /\ Cardinality(S \union {p}) <= Cardinality(S) + 1
  <2>1. Cardinality(S \ {p}) = IF p \in S THEN Cardinality(S) - 1 ELSE Cardinality(S)
    BY <1>1, FS_RemoveElement
  <2>2. Cardinality(S \union {p}) = IF p \in S THEN Cardinality(S) ELSE Cardinality(S) + 1
    BY <1>1, FS_AddElement
  <2>3. QED
    BY <1>2, <2>1, <2>2
<1>4. QED
  BY <1>1, <1>2, <1>3

\* How a run may move the item of an event.
Forward(f) ==
  /\ table'[f].status = "absent" <=> table[f].status = "absent"
  /\ table[f].status = "absent" => table'[f].retry = table[f].retry
  /\ table[f].retry <= table'[f].retry

\* How a run that reads nothing may move what the runs hold.
Shrinks ==
  \A q \in Runs : /\ todo'[q] \subseteq todo[q]
                  /\ \A f \in Events : seen'[q][f] \in {0, seen[q][f]}

\* Every write a run makes to an item that exists moves it forward.
LEMMA RunWrites ==
  ASSUME TypeOK, NEW e \in Events, table[e].status # "absent",
         \/ SetStatus(e, "failed") \/ SetStatus(e, "published")
         \/ AddRetry(e) \/ UNCHANGED table
  PROVE  \A f \in Events : Forward(f)
<1>1. Bump(table[e].retry) >= table[e].retry
  BY BumpType DEF TypeOK, Item
<1>2. \A f \in Events : table[f].retry <= table[f].retry
  BY OutboxAssumption DEF TypeOK, Item
<1>3. ASSUME NEW s \in {"failed", "published"}, SetStatus(e, s)
      PROVE \A f \in Events : Forward(f)
  BY <1>2, <1>3 DEF SetStatus, Forward, TypeOK, Item
<1>4. ASSUME AddRetry(e) PROVE \A f \in Events : Forward(f)
  BY <1>1, <1>2, <1>4 DEF AddRetry, Forward, TypeOK, Item
<1>5. QED
  BY <1>2, <1>3, <1>4 DEF Forward

\* A run that moves on or ends holds no more than before.
LEMMA RunShrinks ==
  ASSUME TypeOK, NEW p \in Runs, NEW e \in Events, Leave(p, e) \/ Abort(p)
  PROVE  Shrinks
<1>1. ASSUME Leave(p, e) PROVE Shrinks
  BY <1>1 DEF TypeOK, Leave, Shrinks
<1>2. ASSUME Abort(p) PROVE Shrinks
  BY <1>2 DEF TypeOK, Abort, Shrinks, NothingSeen
<1>3. QED
  BY <1>1, <1>2

\* Copies stay behind the table: only Record writes a smaller retry_count, and
\* only where no copy of the item can exist yet.
LEMMA CopiesStep == TypeOK /\ CopiesArePast /\ [Next]_vars => CopiesArePast'
<1> SUFFICES ASSUME TypeOK, CopiesArePast, [Next]_vars PROVE CopiesArePast'
  OBVIOUS
<1> USE OutboxAssumption
<1>0. TypeOK'
  BY TypeStep
<1>1. ASSUME NEW e \in Events, Record(e) PROVE CopiesArePast'
  BY <1>1 DEF Record, TypeOK, CopiesArePast, Item, runVars
<1>2. ASSUME NEW e \in Events, Replicate(e) PROVE CopiesArePast'
  BY <1>2 DEF Replicate, TypeOK, CopiesArePast, Item, runVars
<1>3. ASSUME NEW p \in Runs, FindPending(p) PROVE CopiesArePast'
  <2>1. PICK S \in SUBSET PendingInView :
          /\ todo' = [todo EXCEPT ![p] = S]
          /\ seen' = [seen EXCEPT ![p] =
                        [e \in Events |-> IF e \in S THEN View[e].retry ELSE 0]]
    BY <1>3 DEF FindPending
  <2>2. \A e \in Events : View[e].retry <= table[e].retry /\ 0 <= table[e].retry
    BY DEF View, CopiesArePast, TypeOK, Item
  <2>3. \A e \in S : table[e].status # "absent"
    BY DEF View, PendingInView, CopiesArePast
  <2>4. UNCHANGED <<table, index>>
    BY <1>3 DEF FindPending
  <2>5. ASSUME NEW q \in Runs, NEW e \in Events
        PROVE  /\ seen'[q][e] <= table[e].retry
               /\ e \in todo'[q] => table[e].status # "absent"
    <3>1. CASE q = p
      BY <2>1, <2>2, <2>3, <3>1 DEF TypeOK
    <3>2. CASE q # p
      BY <2>1, <3>2 DEF TypeOK, CopiesArePast
    <3>3. QED
      BY <3>1, <3>2
  <2>6. QED
    BY <2>4, <2>5 DEF CopiesArePast
<1>4. ASSUME Shrinks, UNCHANGED index, \A f \in Events : Forward(f)
      PROVE  CopiesArePast'
  <2> SUFFICES ASSUME NEW f \in Events
               PROVE  /\ table'[f].status = "absent" => table'[f].retry = 0
                      /\ index[f].status # "absent" => table'[f].status # "absent"
                      /\ index[f].retry <= table'[f].retry
                      /\ \A q \in Runs : /\ seen'[q][f] <= table'[f].retry
                                         /\ f \in todo'[q] => table'[f].status # "absent"
    BY <1>4 DEF CopiesArePast
  <2>1. /\ table[f].retry \in Nat /\ table'[f].retry \in Nat /\ index[f].retry \in Nat
        /\ \A q \in Runs : seen[q][f] \in Nat
    BY <1>0 DEF TypeOK, Item
  <2>2. QED
    BY <1>4, <2>1 DEF CopiesArePast, Forward, Shrinks
<1>5. ASSUME NEW p \in Runs, NEW e \in Events, RunStep(p, e) PROVE CopiesArePast'
  <2>1. table[e].status # "absent"
    BY <1>5 DEF RunStep, MarkFailed, MarkFailedRaises, Publish, MarkPublished,
                MarkPublishedRaises, IncrementRetry, IncrementRetryRaises,
                Current, CopiesArePast
  <2>2. \/ SetStatus(e, "failed") \/ SetStatus(e, "published")
        \/ AddRetry(e) \/ UNCHANGED table
    BY <1>5 DEF RunStep, MarkFailed, MarkFailedRaises, Publish, MarkPublished,
                MarkPublishedRaises, IncrementRetry, IncrementRetryRaises
  <2>3. /\ Leave(p, e) \/ Abort(p) \/ UNCHANGED <<todo, seen>>
        /\ UNCHANGED index
    BY <1>5 DEF RunStep, MarkFailed, MarkFailedRaises, Publish, MarkPublished,
                MarkPublishedRaises, IncrementRetry, IncrementRetryRaises
  <2>4. Shrinks
    BY <2>3, RunShrinks DEF Shrinks
  <2>5. QED
    BY <1>4, <2>1, <2>2, <2>3, <2>4, RunWrites
<1>6. ASSUME NEW p \in Runs, Return(p) \/ Crash(p) PROVE CopiesArePast'
  <2>1. \A f \in Events : Forward(f)
    BY <1>6 DEF Return, Crash, Forward, TypeOK, Item
  <2>2. Shrinks
    BY <1>6 DEF Return, Crash, Abort, Shrinks, NothingSeen, TypeOK
  <2>3. QED
    BY <1>4, <1>6, <2>1, <2>2 DEF Return, Crash
<1>7. CASE UNCHANGED vars
  BY <1>7 DEF vars, runVars, CopiesArePast
<1>8. QED
  BY <1>1, <1>2, <1>3, <1>5, <1>6, <1>7 DEF Next

\* A run past its publish call got there from its own copy of the event.
LEMMA AttemptsStep ==
  TypeOK /\ AttemptsAreJustified /\ [Next]_vars => AttemptsAreJustified'
<1> SUFFICES ASSUME TypeOK, AttemptsAreJustified, [Next]_vars
             PROVE  AttemptsAreJustified'
  OBVIOUS
<1>1. ASSUME UNCHANGED runVars, UNCHANGED accepted PROVE AttemptsAreJustified'
  BY <1>1 DEF AttemptsAreJustified, Current, runVars
<1>2. ASSUME NEW p \in Runs, pc'[p] \notin {"mark", "retry"}, UNCHANGED accepted,
             \A q \in Runs \ {p} : /\ pc'[q] = pc[q] /\ todo'[q] = todo[q]
                                   /\ seen'[q] = seen[q]
      PROVE AttemptsAreJustified'
  BY <1>2 DEF AttemptsAreJustified, Current
<1>3. ASSUME NEW p \in Runs, UNCHANGED accepted,
             Abort(p) \/ (\E e \in Events : Leave(p, e)) \/ FindPending(p)
      PROVE AttemptsAreJustified'
  <2>1. pc'[p] \notin {"mark", "retry"}
    BY <1>3 DEF Abort, Leave, FindPending, TypeOK
  <2>2. \A q \in Runs \ {p} : /\ pc'[q] = pc[q] /\ todo'[q] = todo[q]
                              /\ seen'[q] = seen[q]
    BY <1>3 DEF Abort, Leave, FindPending, TypeOK
  <2>3. QED
    BY <1>2, <1>3, <2>1, <2>2
<1>4. ASSUME NEW p \in Runs, NEW e \in Events, Publish(p, e) PROVE AttemptsAreJustified'
  <2>1. /\ UNCHANGED <<todo, seen>> /\ ~Exhausted(p, e) /\ Current(p, e)
        /\ \A q \in Runs \ {p} : pc'[q] = pc[q]
        /\ pc'[p] = "mark" => accepted'[e] = Bump(accepted[e])
    BY <1>4 DEF Publish, BusTakes, TypeOK
  <2>2. \A f \in Events : accepted[f] > 0 => accepted'[f] > 0
    <3>1. Bump(accepted[e]) > 0
      BY BumpType DEF TypeOK
    <3>2. QED
      BY <1>4, <3>1 DEF Publish, BusTakes, TypeOK
  <2>3. Bump(accepted[e]) > 0
    BY BumpType DEF TypeOK
  <2>4. seen[p][e] < MaxRetries
    BY <2>1, OutboxAssumption DEF Exhausted, TypeOK
  <2>5. \A f \in Events : Current(p, f) => f = e
    BY <2>1, OutboxAssumption DEF Current, TypeOK
  <2>6. QED
    BY <2>1, <2>2, <2>3, <2>4, <2>5 DEF AttemptsAreJustified, Current
<1>5. ASSUME NEW p \in Runs, NEW e \in Events, MarkPublishedRaises(p, e)
      PROVE AttemptsAreJustified'
  BY <1>5 DEF MarkPublishedRaises, AttemptsAreJustified, Current, TypeOK
<1>6. QED
  BY <1>1, <1>3, <1>4, <1>5
     DEF Next, RunStep, vars, Record, Replicate, MarkFailed, MarkFailedRaises,
         MarkPublished, IncrementRetry, IncrementRetryRaises, Return, Crash,
         FindPending

\* The event a run is at is one event.
LEMMA CurrentUnique ==
  ASSUME TypeOK, NEW p \in Runs, NEW e \in Events, NEW f \in Events,
         Current(p, e), Current(p, f)
  PROVE  e = f
  BY OutboxAssumption DEF Current, TypeOK

\* Every retry that is counted was tried: a run joins Inflight together with
\* its publish call, and leaves it before, or with, its increment.
LEMMA TriedStep == TypeOK /\ RetriesWereTried /\ [Next]_vars => RetriesWereTried'
<1> SUFFICES ASSUME TypeOK, RetriesWereTried, [Next]_vars PROVE RetriesWereTried'
  OBVIOUS
<1>0. TypeOK'
  BY TypeStep
<1>1. /\ \A f \in Events : /\ tries[f] \in Nat /\ table[f].retry \in Nat
                           /\ table[f].retry \in 0..RetryCap
                           /\ tries'[f] \in Nat /\ table'[f].retry \in Nat
      /\ \A f \in Events : /\ Inflight(f) \in SUBSET Runs
                           /\ Cardinality(Inflight(f)) \in Nat
                           /\ Inflight(f)' \in SUBSET Runs
                           /\ Cardinality(Inflight(f)') \in Nat
  <2>1. \A f \in Events : Inflight(f) \in SUBSET Runs /\ Inflight(f)' \in SUBSET Runs
    BY DEF Inflight
  <2>2. QED
    BY <1>0, <2>1, CountedRuns, OutboxAssumption DEF TypeOK, Item
<1>2. ASSUME UNCHANGED tries,
             \A f \in Events : /\ table'[f].retry <= table[f].retry
                               /\ Inflight(f)' \subseteq Inflight(f)
      PROVE RetriesWereTried'
  <2> SUFFICES ASSUME NEW f \in Events
               PROVE  \/ tries'[f] = RetryCap
                      \/ table'[f].retry + Cardinality(Inflight(f)') <= tries'[f]
    BY DEF RetriesWereTried
  <2>1. IsFiniteSet(Inflight(f))
    BY <1>1, CountedRuns
  <2>2. Inflight(f)' \in SUBSET Inflight(f)
    BY <1>2
  <2>3. Cardinality(Inflight(f)') <= Cardinality(Inflight(f))
    BY ONLY <2>1, <2>2, FS_Subset
  <2>4. QED
    BY <1>1, <1>2, <2>3 DEF RetriesWereTried
<1>3. ASSUME NEW p \in Runs, UNCHANGED tries, \A f \in Events : table'[f].retry = table[f].retry,
             Abort(p) \/ (\E e \in Events : Leave(p, e))
      PROVE RetriesWereTried'
  <2>1. \A f \in Events : Inflight(f)' \subseteq Inflight(f)
    BY <1>3, LeaveInflight, AbortInflight
  <2>2. QED
    BY <1>1, <1>2, <1>3, <2>1
<1>4. ASSUME NEW e \in Events, NEW s \in Status, SetStatus(e, s)
      PROVE \A f \in Events : table'[f].retry = table[f].retry
  BY <1>4 DEF SetStatus, TypeOK, Item
<1>5. ASSUME NEW e \in Events, Record(e) PROVE RetriesWereTried'
  <2>1. \A f \in Events : /\ table'[f].retry <= table[f].retry
                          /\ Inflight(f)' \subseteq Inflight(f)
    BY <1>1, <1>5 DEF Record, TypeOK, Item, Inflight, Current, runVars
  <2>2. QED
    BY <1>2, <1>5, <2>1 DEF Record
<1>6. ASSUME NEW p \in Runs, FindPending(p) PROVE RetriesWereTried'
  <2>1. \A f \in Events : Inflight(f)' \subseteq Inflight(f)
    BY <1>6 DEF FindPending, TypeOK, Inflight, Current
  <2>2. QED
    BY <1>1, <1>2, <1>6, <2>1 DEF FindPending
<1>7. ASSUME NEW p \in Runs, NEW e \in Events, Publish(p, e) PROVE RetriesWereTried'
  <2> SUFFICES ASSUME NEW f \in Events
               PROVE  \/ tries'[f] = RetryCap
                      \/ table'[f].retry + Cardinality(Inflight(f)') <= tries'[f]
    BY DEF RetriesWereTried
  <2>1. table' = table /\ tries' = [tries EXCEPT ![e] = Bump(@)]
    BY <1>7 DEF Publish
  <2>2. CASE f = e
    <3>1. Inflight(f)' \subseteq Inflight(f) \union {p}
      BY <1>7 DEF Publish, Inflight, Current, TypeOK
    <3>2. Cardinality(Inflight(f)') <= Cardinality(Inflight(f)) + 1
      <4>1. IsFiniteSet(Inflight(f) \union {p})
        BY <1>1, CountedRuns, FS_AddElement
      <4>2. Cardinality(Inflight(f)') <= Cardinality(Inflight(f) \union {p})
        BY ONLY <3>1, <4>1, FS_Subset
      <4>3. /\ Cardinality(Inflight(f) \union {p}) <= Cardinality(Inflight(f)) + 1
            /\ Cardinality(Inflight(f) \union {p}) \in Nat
        BY <1>1, <4>1, CountedRuns, FS_CardinalityType
      <4>4. QED
        BY <1>1, <4>2, <4>3
    <3>3. tries'[f] = RetryCap \/ tries'[f] = tries[f] + 1
      BY <2>1, <2>2, BumpType DEF TypeOK
    <3>4. tries[f] = RetryCap => tries'[f] = RetryCap
      BY <2>1, <2>2, OutboxAssumption DEF TypeOK, Bump
    <3>5. QED
      BY <1>1, <2>1, <3>2, <3>3, <3>4 DEF RetriesWereTried
  <2>3. CASE f # e
    <3>1. Inflight(f)' = Inflight(f)
      <4>1. ~Current(p, f)
        BY <1>7, <2>3, CurrentUnique DEF Publish
      <4>2. QED
        BY <1>7, <4>1 DEF Publish, Inflight, Current, TypeOK
    <3>2. tries'[f] = tries[f]
      BY <2>1, <2>3 DEF TypeOK
    <3>3. QED
      BY <2>1, <3>1, <3>2 DEF RetriesWereTried
  <2>4. QED
    BY <2>2, <2>3
<1>8. ASSUME NEW p \in Runs, NEW e \in Events,
             IncrementRetry(p, e) \/ IncrementRetryRaises(p, e)
      PROVE RetriesWereTried'
  <2> SUFFICES ASSUME NEW f \in Events
               PROVE  \/ tries'[f] = RetryCap
                      \/ table'[f].retry + Cardinality(Inflight(f)') <= tries'[f]
    BY DEF RetriesWereTried
  <2>1. Inflight(f)' = Inflight(f) \ {p} /\ tries' = tries
    BY <1>8, LeaveInflight, AbortInflight DEF IncrementRetry, IncrementRetryRaises
  <2>2. CASE f = e
    <3>1. p \in Inflight(f)
      BY <1>8, <2>2 DEF IncrementRetry, IncrementRetryRaises, Inflight
    <3>2. Cardinality(Inflight(f)') = Cardinality(Inflight(f)) - 1
      BY <1>1, <2>1, <3>1, CountedRuns
    <3>3. table'[f].retry <= table[f].retry + 1
      <4>1. Bump(table[f].retry) <= table[f].retry + 1
        BY <1>1, BumpType
      <4>2. table' = table \/ AddRetry(e)
        BY <1>8 DEF IncrementRetry, IncrementRetryRaises
      <4>3. AddRetry(e) => table'[e].retry = Bump(table[e].retry)
        BY DEF AddRetry, TypeOK, Item
      <4>4. QED
        BY <1>1, <2>2, <4>1, <4>2, <4>3
    <3>4. QED
      BY <1>1, <2>1, <3>2, <3>3 DEF RetriesWereTried
  <2>3. CASE f # e
    <3>1. table'[f].retry = table[f].retry
      BY <1>8, <2>3 DEF IncrementRetry, IncrementRetryRaises, AddRetry, TypeOK
    <3>2. Cardinality(Inflight(f)') <= Cardinality(Inflight(f))
      BY <1>1, <2>1, CountedRuns
    <3>3. \/ tries[f] = RetryCap
          \/ table[f].retry + Cardinality(Inflight(f)) <= tries[f]
      BY DEF RetriesWereTried
    <3>4. QED
      <4>1. /\ table[f].retry \in Nat /\ tries[f] \in Nat /\ tries'[f] = tries[f]
            /\ Cardinality(Inflight(f)) \in Nat /\ Cardinality(Inflight(f)') \in Nat
        BY <1>1, <2>1
      <4>2. QED
        BY ONLY <3>1, <3>2, <3>3, <4>1
  <2>4. QED
    BY <2>2, <2>3
<1>9. ASSUME NEW p \in Runs, NEW e \in Events,
             MarkFailed(p, e) \/ MarkFailedRaises(p, e) \/ MarkPublished(p, e)
      PROVE RetriesWereTried'
  <2>1. \A f \in Events : table'[f].retry = table[f].retry
    BY <1>4, <1>9 DEF MarkFailed, MarkFailedRaises, MarkPublished, Status
  <2>2. QED
    BY <1>3, <1>9, <2>1 DEF MarkFailed, MarkFailedRaises, MarkPublished
<1>10. ASSUME NEW p \in Runs, NEW e \in Events, MarkPublishedRaises(p, e)
       PROVE RetriesWereTried'
  <2>1. \A f \in Events : table'[f].retry = table[f].retry
    BY <1>4, <1>10 DEF MarkPublishedRaises, Status
  <2>2. \A f \in Events : Inflight(f)' \subseteq Inflight(f)
    BY <1>10 DEF MarkPublishedRaises, Inflight, Current, TypeOK
  <2>3. QED
    BY <1>1, <1>2, <1>10, <2>1, <2>2 DEF MarkPublishedRaises
<1>11. ASSUME NEW p \in Runs, Return(p) \/ Crash(p) PROVE RetriesWereTried'
  BY <1>3, <1>11 DEF Return, Crash
<1>12. ASSUME UNCHANGED <<table, runVars, tries>> PROVE RetriesWereTried'
  BY <1>12 DEF RetriesWereTried, Inflight, Current, runVars
<1>13. QED
  BY <1>5, <1>6, <1>7, <1>8, <1>9, <1>10, <1>11, <1>12
     DEF Next, RunStep, Replicate, vars

\* The overshoot of retry_count is paid for by the runs that read it in time.
LEMMA OvershootStep ==
  /\ TypeOK /\ AttemptsAreJustified /\ OvershootIsPaidFor /\ [Next]_vars
  => OvershootIsPaidFor'
<1> SUFFICES ASSUME TypeOK, AttemptsAreJustified, OvershootIsPaidFor, [Next]_vars,
                    "stale" \notin Faults, NEW f \in Events
             PROVE  \/ table'[f].retry < MaxRetries
                    \/ table'[f].retry + Cardinality(Holders(f)')
                         < MaxRetries + Cardinality(Runs)
  BY DEF OvershootIsPaidFor
<1> DEFINE Goal == \/ table'[f].retry < MaxRetries
                   \/ table'[f].retry + Cardinality(Holders(f)')
                        < MaxRetries + Cardinality(Runs)
<1>0. TypeOK'
  BY TypeStep
<1>1. /\ table[f].retry \in 0..RetryCap /\ table'[f].retry \in 0..RetryCap
      /\ Cardinality(Holders(f)) \in Nat /\ Cardinality(Holders(f)') \in Nat
      /\ Cardinality(Holders(f)') <= Cardinality(Runs)
      /\ Cardinality(Holders(f)) <= Cardinality(Runs)
      /\ Cardinality(Runs) \in Nat
      /\ Holders(f) \in SUBSET Runs /\ Holders(f)' \in SUBSET Runs
  <2>1. Holders(f) \in SUBSET Runs /\ Holders(f)' \in SUBSET Runs
    BY DEF Holders
  <2>2. QED
    BY <1>0, <2>1, CountedRuns, OutboxAssumption DEF TypeOK, Item
<1>2. ASSUME table'[f].retry <= table[f].retry, Holders(f)' \subseteq Holders(f)
      PROVE Goal
  <2>1. Cardinality(Holders(f)') <= Cardinality(Holders(f))
    BY <1>1, <1>2, CountedRuns, FS_Subset
  <2>2. QED
    BY <1>1, <1>2, <2>1, OutboxAssumption DEF OvershootIsPaidFor
<1>3. ASSUME NEW p \in Runs, Abort(p) PROVE Holders(f)' = Holders(f) \ {p}
  BY <1>3 DEF Abort, Holders, TypeOK
<1>4. ASSUME NEW p \in Runs, NEW e \in Events, Leave(p, e)
      PROVE Holders(f)' = IF e = f THEN Holders(f) \ {p} ELSE Holders(f)
  BY <1>4 DEF Leave, Holders, TypeOK
<1>5. ASSUME NEW e \in Events, NEW s \in Status, SetStatus(e, s)
      PROVE table'[f].retry = table[f].retry
  BY <1>5 DEF SetStatus, TypeOK, Item
<1>6. ASSUME NEW e \in Events, Record(e) PROVE Goal
  <2>1. table'[f].retry <= table[f].retry /\ Holders(f)' \subseteq Holders(f)
    BY <1>1, <1>6, OutboxAssumption DEF Record, TypeOK, Item, Holders, runVars
  <2>2. QED
    BY <1>2, <2>1
<1>7. ASSUME NEW p \in Runs, FindPending(p) PROVE Goal
  <2>1. table' = table
    BY <1>7 DEF FindPending
  <2>2. CASE table[f].retry < MaxRetries
    BY <2>1, <2>2
  <2>3. CASE ~(table[f].retry < MaxRetries)
    <3>1. PICK S \in SUBSET PendingInView :
            /\ todo' = [todo EXCEPT ![p] = S]
            /\ seen' = [seen EXCEPT ![p] =
                          [e \in Events |-> IF e \in S THEN table[e].retry ELSE 0]]
      BY <1>7 DEF FindPending, View
    <3>2. p \notin Holders(f)'
      BY <2>3, <3>1 DEF Holders, TypeOK
    <3>3. Holders(f)' \subseteq Holders(f)
      BY <3>1, <3>2 DEF Holders, TypeOK
    <3>4. QED
      BY <1>1, <1>2, <2>1, <3>3
  <2>4. QED
    BY <2>2, <2>3
<1>8. ASSUME NEW p \in Runs, NEW e \in Events,
             IncrementRetry(p, e) \/ IncrementRetryRaises(p, e)
      PROVE Goal
  <2>1. CASE e = f
    <3>1. p \in Holders(f)
      BY <1>8, <2>1 DEF IncrementRetry, IncrementRetryRaises, AttemptsAreJustified,
                        Current, Holders
    <3>2. Holders(f)' = Holders(f) \ {p}
      BY <1>3, <1>4, <1>8, <2>1 DEF IncrementRetry, IncrementRetryRaises
    <3>3. Cardinality(Holders(f)') = Cardinality(Holders(f)) - 1
      BY <1>1, <3>1, <3>2, CountedRuns
    <3>4. table'[f].retry <= table[f].retry + 1
      <4>1. Bump(table[e].retry) <= table[e].retry + 1
        BY <1>1, <2>1, BumpType
      <4>2. table' = table \/ AddRetry(e)
        BY <1>8 DEF IncrementRetry, IncrementRetryRaises
      <4>3. AddRetry(e) => table'[e].retry = Bump(table[e].retry)
        BY DEF AddRetry, TypeOK, Item
      <4>4. QED
        BY <1>1, <2>1, <4>1, <4>2, <4>3
    <3>5. \/ table[f].retry < MaxRetries
          \/ table[f].retry + Cardinality(Holders(f)) < MaxRetries + Cardinality(Runs)
      BY DEF OvershootIsPaidFor
    <3>6. MaxRetries \in Nat
      BY OutboxAssumption
    <3>7. QED
      BY <1>1, <3>3, <3>4, <3>5, <3>6
  <2>2. CASE e # f
    <3>1. table'[f] = table[f]
      BY <1>8, <2>2 DEF IncrementRetry, IncrementRetryRaises, AddRetry, TypeOK
    <3>2. Holders(f)' \subseteq Holders(f)
      BY <1>3, <1>4, <1>8, <2>2 DEF IncrementRetry, IncrementRetryRaises
    <3>3. QED
      BY <1>1, <1>2, <3>1, <3>2
  <2>3. QED
    BY <2>1, <2>2
<1>9. ASSUME NEW p \in Runs, NEW e \in Events,
              MarkFailed(p, e) \/ MarkFailedRaises(p, e) \/ MarkPublished(p, e)
       PROVE Goal
  <2>1. table'[f].retry = table[f].retry
    BY <1>5, <1>9 DEF MarkFailed, MarkFailedRaises, MarkPublished, Status
  <2>2. Holders(f)' \subseteq Holders(f)
    BY <1>3, <1>4, <1>9 DEF MarkFailed, MarkFailedRaises, MarkPublished
  <2>3. QED
    BY <1>1, <1>2, <2>1, <2>2
<1>10. ASSUME NEW p \in Runs, NEW e \in Events,
              Publish(p, e) \/ MarkPublishedRaises(p, e)
       PROVE Goal
  <2>1. table'[f].retry = table[f].retry
    BY <1>5, <1>10 DEF Publish, MarkPublishedRaises, Status
  <2>2. Holders(f)' \subseteq Holders(f)
    BY <1>10 DEF Publish, MarkPublishedRaises, Holders
  <2>3. QED
    BY <1>1, <1>2, <2>1, <2>2
<1>11. ASSUME NEW p \in Runs, Return(p) \/ Crash(p) PROVE Goal
  <2>1. table' = table /\ Holders(f)' \subseteq Holders(f)
    BY <1>3, <1>11 DEF Return, Crash
  <2>2. QED
    BY <1>1, <1>2, <2>1
<1>12. ASSUME UNCHANGED <<table, runVars>> PROVE Goal
  <2>1. Holders(f)' \subseteq Holders(f)
    BY <1>12 DEF Holders, runVars
  <2>2. QED
    BY <1>1, <1>2, <1>12, <2>1
<1>13. QED
  BY <1>6, <1>7, <1>8, <1>9, <1>10, <1>11, <1>12
     DEF Next, RunStep, Replicate, vars

\* Two sets of runs with none in common are no more than all of them.
LEMMA ApartRuns ==
  ASSUME NEW S \in SUBSET Runs, NEW T \in SUBSET Runs, S \intersect T = {}
  PROVE  Cardinality(S) + Cardinality(T) <= Cardinality(Runs)
<1>1. IsFiniteSet(S) /\ IsFiniteSet(T)
  BY CountedRuns
<1>2. Cardinality(S \union T) = Cardinality(S) + Cardinality(T) - Cardinality({})
  BY <1>1, FS_Union
<1>3. Cardinality({}) = 0
  BY FS_EmptySet
<1>4. Cardinality(S \union T) <= Cardinality(Runs)
  BY CountedRuns
<1>5. Cardinality(S) \in Nat /\ Cardinality(T) \in Nat
  BY CountedRuns
<1>6. QED
  BY <1>2, <1>3, <1>4, <1>5

\* A delivery is covered by the run that made it, until it is too late for the
\* others to take the event up.
LEMMA DeliveriesStep ==
  TypeOK /\ DeliveriesAreCovered /\ [Next]_vars => DeliveriesAreCovered'
<1> DEFINE Settled(s) == s \notin {"absent", "pending"}
           D(f) == Delivering(f)
           M(f) == MayDeliver(f)
<1> SUFFICES ASSUME TypeOK, DeliveriesAreCovered, [Next]_vars, Faults \subseteq {"bus"},
                    NEW f \in Events
             PROVE  IF ~Settled(table'[f].status)
                      THEN accepted'[f] <= Cardinality(D(f)')
                      ELSE accepted'[f] + Cardinality(M(f)') <= Cardinality(Runs)
  BY DEF DeliveriesAreCovered
<1> DEFINE Goal == IF ~Settled(table'[f].status)
                     THEN accepted'[f] <= Cardinality(D(f)')
                     ELSE accepted'[f] + Cardinality(M(f)') <= Cardinality(Runs)
<1>0. TypeOK'
  BY TypeStep
<1>a. /\ D(f) \in SUBSET Runs /\ M(f) \in SUBSET Runs
      /\ D(f)' \in SUBSET Runs /\ M(f)' \in SUBSET Runs
      /\ D(f) \intersect M(f) = {}
  BY DEF Delivering, MayDeliver
<1>b. /\ Cardinality(D(f)) \in Nat /\ Cardinality(M(f)) \in Nat
      /\ Cardinality(D(f)') \in Nat /\ Cardinality(M(f)') \in Nat
      /\ Cardinality(Runs) \in Nat
      /\ accepted[f] \in Nat /\ accepted'[f] \in Nat
  BY <1>0, <1>a, CountedRuns, OutboxAssumption DEF TypeOK
<1>c. IF ~Settled(table[f].status)
        THEN accepted[f] <= Cardinality(D(f))
        ELSE accepted[f] + Cardinality(M(f)) <= Cardinality(Runs)
  BY DEF DeliveriesAreCovered
<1>d. ASSUME NEW S \in SUBSET Runs, NEW T \in SUBSET S
      PROVE  Cardinality(T) <= Cardinality(S)
  BY CountedRuns, FS_Subset
<1>e. {"answer", "store", "crash", "stale"} \intersect Faults = {}
  OBVIOUS
<1>1. ASSUME accepted'[f] = accepted[f], D(f)' = D(f), M(f)' \subseteq M(f),
             Settled(table[f].status) => Settled(table'[f].status)
      PROVE Goal
  <2>1. Cardinality(M(f)') <= Cardinality(M(f))
    BY <1>a, <1>1, <1>d
  <2>2. Cardinality(D(f)) + Cardinality(M(f)) <= Cardinality(Runs)
    BY <1>a, ApartRuns
  <2> HIDE DEF D, M, Settled
  <2>3. QED
    BY <1>b, <1>c, <1>1, <2>1, <2>2
<1>2. ASSUME accepted'[f] = accepted[f], M(f)' \subseteq M(f), Settled(table'[f].status)
      PROVE Goal
  <2>1. Cardinality(M(f)') <= Cardinality(M(f))
    BY <1>a, <1>2, <1>d
  <2>2. Cardinality(D(f)) + Cardinality(M(f)) <= Cardinality(Runs)
    BY <1>a, ApartRuns
  <2> HIDE DEF D, M, Settled
  <2>3. QED
    BY <1>b, <1>c, <1>2, <2>1, <2>2
<1>3. ASSUME NEW p \in Runs, NEW e \in Events, Current(p, e), Leave(p, e)
      PROVE  /\ M(f)' \subseteq M(f)
             /\ pc[p] # "mark" \/ e # f => D(f)' = D(f)
  <2>1. \A q \in Runs \ {p} : pc'[q] = pc[q] /\ todo'[q] = todo[q]
    BY <1>3 DEF Leave, TypeOK
  <2>2. pc'[p] # "mark" /\ todo'[p] = todo[p] \ {e}
    BY <1>3 DEF Leave, TypeOK
  <2>3. e # f => ~Current(p, f)
    BY <1>3, CurrentUnique
  <2>4. e = f => p \notin M(f)'
    BY <2>2 DEF MayDeliver
  <2>5. e # f => p \notin D(f)
    BY <2>3 DEF Delivering
  <2>6. QED
    BY <2>1, <2>2, <2>4, <2>5 DEF MayDeliver, Delivering, Current
<1>4. ASSUME NEW p \in Runs, Abort(p), pc[p] # "mark"
      PROVE D(f)' = D(f) /\ M(f)' \subseteq M(f)
  BY <1>4 DEF Abort, TypeOK, Delivering, MayDeliver, Current
<1>5. ASSUME NEW e \in Events, NEW s \in Status, SetStatus(e, s)
      PROVE table'[f].status = IF e = f THEN s ELSE table[f].status
  BY <1>5 DEF SetStatus, TypeOK, Item
<1>6. ASSUME NEW e \in Events, Record(e) PROVE Goal
  <2>1. table'[f].status = table[f].status \/ table[f].status = "absent"
    BY <1>6 DEF Record, TypeOK, Item
  <2>2. D(f)' = D(f) /\ M(f)' = M(f) /\ accepted' = accepted
    BY <1>6 DEF Record, runVars, Delivering, MayDeliver, Current
  <2>3. QED
    BY <1>1, <2>1, <2>2
<1>7. ASSUME NEW p \in Runs, FindPending(p) PROVE Goal
  <2>1. PICK S \in SUBSET PendingInView : todo' = [todo EXCEPT ![p] = S]
    BY <1>7 DEF FindPending
  <2>2. f \in S => table[f].status = "pending"
    BY <1>e DEF PendingInView, View
  <2>3. /\ pc[p] = "idle" /\ pc'[p] = "work" /\ todo'[p] = S
        /\ \A q \in Runs \ {p} : pc'[q] = pc[q] /\ todo'[q] = todo[q]
        /\ UNCHANGED <<table, accepted>>
    BY <1>7, <2>1 DEF FindPending, TypeOK
  <2>4. D(f)' = D(f)
    BY <2>3 DEF Delivering, Current
  <2>5. CASE ~Settled(table[f].status)
    BY <1>b, <1>c, <2>3, <2>4, <2>5
  <2>6. CASE Settled(table[f].status)
    <3>1. p \notin M(f)'
      BY <2>2, <2>3, <2>6 DEF MayDeliver
    <3>2. M(f)' \subseteq M(f)
      BY <2>3, <2>4, <3>1 DEF MayDeliver
    <3>3. QED
      BY <1>1, <2>3, <2>4, <3>2
  <2>7. QED
    BY <2>5, <2>6
<1>8. ASSUME NEW p \in Runs, NEW e \in Events, Publish(p, e) PROVE Goal
  <2>1. /\ pc[p] = "work" /\ Current(p, e) /\ UNCHANGED <<table, todo>>
        /\ \A q \in Runs \ {p} : pc'[q] = pc[q]
    BY <1>8 DEF Publish, TypeOK
  <2>2. \/ pc'[p] = "mark" /\ BusTakes(e)
        \/ pc'[p] = "retry" /\ UNCHANGED accepted
    BY <1>8, <1>e DEF Publish, TypeOK
  <2>3. CASE pc'[p] = "retry" /\ UNCHANGED accepted
    <3>1. D(f)' = D(f) /\ M(f)' = M(f)
      BY <2>1, <2>3 DEF Delivering, MayDeliver, Current
    <3>2. QED
      BY <1>1, <2>1, <2>3, <3>1
  <2>4. CASE pc'[p] = "mark" /\ BusTakes(e) /\ e # f
    <3>1. ~Current(p, f)
      BY <2>1, <2>4, CurrentUnique
    <3>2. D(f)' = D(f) /\ M(f)' = M(f)
      BY <2>1, <3>1 DEF Delivering, MayDeliver, Current
    <3>3. accepted'[f] = accepted[f]
      BY <2>4 DEF BusTakes, TypeOK
    <3>4. QED
      BY <1>1, <2>1, <3>2, <3>3
  <2>5. CASE pc'[p] = "mark" /\ BusTakes(e) /\ e = f
    <3>1. accepted'[f] <= accepted[f] + 1
      BY <2>5, BumpType DEF BusTakes, TypeOK
    <3>2. p \notin D(f) /\ p \in M(f)
      BY <2>1, <2>5 DEF Delivering, MayDeliver, Current
    <3>3. D(f)' = D(f) \union {p}
      BY <2>1, <2>5 DEF Delivering, Current
    <3>4. M(f)' = M(f) \ {p}
      BY <2>1, <3>3 DEF MayDeliver
    <3>5. Cardinality(D(f)') = Cardinality(D(f)) + 1
      BY <1>a, <3>2, <3>3, CountedRuns, FS_AddElement
    <3>6. Cardinality(M(f)') = Cardinality(M(f)) - 1
      BY <1>a, <3>2, <3>4, CountedRuns
    <3>7. table' = table
      BY <2>1
    <3> HIDE DEF D, M, Settled
    <3>8. QED
      BY <1>b, <1>c, <3>1, <3>5, <3>6, <3>7
  <2>6. QED
    BY <2>2, <2>3, <2>4, <2>5
<1>9. ASSUME NEW p \in Runs, NEW e \in Events, NEW s \in {"failed", "published"},
             Current(p, e), Leave(p, e), SetStatus(e, s), accepted' = accepted
      PROVE Goal
  <2>1. table'[f].status = IF e = f THEN s ELSE table[f].status
    BY <1>5, <1>9 DEF Status
  <2>2. CASE e = f
    BY <1>2, <1>3, <1>9, <2>1, <2>2
  <2>3. CASE e # f
    BY <1>1, <1>3, <1>9, <2>1, <2>3
  <2>4. QED
    BY <2>2, <2>3
<1>10. ASSUME NEW p \in Runs, NEW e \in Events, IncrementRetry(p, e) PROVE Goal
  <2>1. table'[f].status = table[f].status
    BY <1>10 DEF IncrementRetry, AddRetry, TypeOK, Item
  <2>2. D(f)' = D(f) /\ M(f)' \subseteq M(f)
    BY <1>3, <1>10 DEF IncrementRetry
  <2>3. QED
    BY <1>1, <1>10, <2>1, <2>2 DEF IncrementRetry
<1>11. ASSUME NEW p \in Runs, Return(p) PROVE Goal
  BY <1>1, <1>4, <1>11 DEF Return
<1>12. ASSUME UNCHANGED <<table, runVars, accepted>> PROVE Goal
  <2>1. D(f)' = D(f) /\ M(f)' = M(f)
    BY <1>12 DEF runVars, Delivering, MayDeliver, Current
  <2>2. QED
    BY <1>1, <1>12, <2>1
<1>13. QED
  BY <1>e, <1>6, <1>7, <1>8, <1>9, <1>10, <1>11, <1>12
     DEF Next, RunStep, vars, Replicate, MarkFailed, MarkFailedRaises, MarkPublished,
         MarkPublishedRaises, IncrementRetryRaises, Crash

\* A run that is about to give an event up reads off a counter that only
\* publish calls have driven.
LEMMA GivenUpWasTried ==
  ASSUME IInv, NEW p \in Runs, NEW e \in Events, Exhausted(p, e)
  PROVE  tries[e] >= MaxRetries
<1> USE DEF IInv
<1>1. /\ seen[p][e] \in Nat /\ table[e].retry \in Nat /\ tries[e] \in Nat
      /\ Cardinality(Inflight(e)) \in Nat
  BY CountedRuns, OutboxAssumption DEF TypeOK, Item, Inflight
<1>2. seen[p][e] >= MaxRetries /\ seen[p][e] <= table[e].retry
  BY DEF Exhausted, CopiesArePast
<1>3. \/ tries[e] = RetryCap
      \/ table[e].retry + Cardinality(Inflight(e)) <= tries[e]
  BY DEF RetriesWereTried
<1>4. QED
  BY <1>1, <1>2, <1>3, OutboxAssumption

\* A verdict is only ever written with its cause at hand, and causes stay.
LEMMA VerdictStep == IInv /\ [Next]_vars => PublishedWasDelivered' /\ FailedOnlyWhenExhausted'
<1> SUFFICES ASSUME IInv, [Next]_vars, NEW f \in Events
             PROVE  /\ table'[f].status = "published" => accepted'[f] > 0
                    /\ table'[f].status = "failed" => tries'[f] >= MaxRetries
  BY DEF PublishedWasDelivered, FailedOnlyWhenExhausted
<1> USE DEF IInv
<1>1. /\ tries[f] \in Nat /\ accepted[f] \in Nat /\ MaxRetries \in Nat
      /\ table[f].status = "published" => accepted[f] > 0
      /\ table[f].status = "failed" => tries[f] >= MaxRetries
  BY OutboxAssumption DEF TypeOK, PublishedWasDelivered, FailedOnlyWhenExhausted
<1>2. /\ tries'[f] \in Nat /\ tries'[f] >= tries[f]
      /\ accepted'[f] \in Nat
      /\ accepted[f] > 0 => accepted'[f] > 0
  <2>1. CASE UNCHANGED <<tries, accepted>>
    BY <1>1, <2>1
  <2>2. ASSUME NEW p \in Runs, NEW e \in Events, Publish(p, e)
        PROVE  /\ tries' = [tries EXCEPT ![e] = Bump(@)]
               /\ UNCHANGED accepted \/ accepted' = [accepted EXCEPT ![e] = Bump(@)]
    BY <2>2 DEF Publish, BusTakes
  <2>3. /\ Bump(tries[f]) \in Nat /\ Bump(tries[f]) >= tries[f]
        /\ Bump(accepted[f]) \in Nat /\ Bump(accepted[f]) > 0
    BY BumpType, OutboxAssumption DEF TypeOK
  <2>4. CASE \E p \in Runs, e \in Events : Publish(p, e)
    BY <1>1, <2>2, <2>3, <2>4 DEF TypeOK
  <2>5. QED
    BY <2>1, <2>4 DEF Next, RunStep, vars, runVars, Record, Replicate, FindPending,
       Return, Crash, MarkFailed, MarkFailedRaises, MarkPublished, MarkPublishedRaises,
       IncrementRetry, IncrementRetryRaises
<1>3. ASSUME table'[f].status \in {table[f].status, "absent", "pending"}
      PROVE  /\ table'[f].status = "published" => accepted'[f] > 0
             /\ table'[f].status = "failed" => tries'[f] >= MaxRetries
  <2>1. CASE table'[f].status = table[f].status
    BY <1>1, <1>2, <2>1
  <2>2. CASE table'[f].status \in {"absent", "pending"}
    BY <2>2
  <2>3. QED
    BY <1>3, <2>1, <2>2
<1>4. CASE table' = table
  BY <1>3, <1>4
<1>5. ASSUME NEW e \in Events, NEW s \in Status, SetStatus(e, s)
      PROVE table'[f].status = IF e = f THEN s ELSE table[f].status
  BY <1>5 DEF SetStatus, TypeOK, Item
<1>6. ASSUME NEW p \in Runs, NEW e \in Events,
             MarkFailed(p, e) \/ MarkFailedRaises(p, e)
      PROVE  /\ table'[f].status = "published" => accepted'[f] > 0
             /\ table'[f].status = "failed" => tries'[f] >= MaxRetries
  <2>1. CASE e = f
    <3>2. tries[f] >= MaxRetries
      BY <1>6, <2>1, GivenUpWasTried DEF MarkFailed, MarkFailedRaises
    <3>3. table' = table \/ table'[f].status = "failed"
      BY <1>5, <1>6, <2>1 DEF MarkFailed, MarkFailedRaises, Status
    <3>4. QED
      BY <1>1, <1>2, <1>4, <3>2, <3>3
  <2>2. CASE e # f
    <3>1. table'[f].status = table[f].status
      BY <1>5, <1>6, <2>2 DEF MarkFailed, MarkFailedRaises, Status
    <3>2. QED
      BY <1>3, <3>1
  <2>3. QED
    BY <2>1, <2>2
<1>7. ASSUME NEW p \in Runs, NEW e \in Events,
             MarkPublished(p, e) \/ MarkPublishedRaises(p, e)
      PROVE  /\ table'[f].status = "published" => accepted'[f] > 0
             /\ table'[f].status = "failed" => tries'[f] >= MaxRetries
  <2>1. accepted[e] > 0
    BY <1>7 DEF MarkPublished, MarkPublishedRaises, AttemptsAreJustified
  <2>2. table' = table \/ table'[f].status = IF e = f THEN "published" ELSE table[f].status
    BY <1>5, <1>7 DEF MarkPublished, MarkPublishedRaises, Status
  <2>3. CASE table' = table \/ e # f
    BY <1>3, <2>2, <2>3
  <2>4. CASE table'[f].status = "published" /\ e = f
    BY <1>2, <2>1, <2>4
  <2>5. QED
    BY <2>2, <2>3, <2>4
<1>8. ASSUME NEW p \in Runs, NEW e \in Events,
             IncrementRetry(p, e) \/ IncrementRetryRaises(p, e)
      PROVE  /\ table'[f].status = "published" => accepted'[f] > 0
             /\ table'[f].status = "failed" => tries'[f] >= MaxRetries
  <2>1. AddRetry(e) => table'[f].status = table[f].status
    BY DEF AddRetry, TypeOK, Item
  <2>2. QED
    BY <1>3, <1>4, <1>8, <2>1 DEF IncrementRetry, IncrementRetryRaises
<1>9. ASSUME NEW e \in Events, Record(e)
      PROVE  /\ table'[f].status = "published" => accepted'[f] > 0
             /\ table'[f].status = "failed" => tries'[f] >= MaxRetries
  <2>1. table'[f].status \in {table[f].status, "pending"}
    BY <1>9 DEF Record, TypeOK
  <2>2. QED
    BY <1>3, <2>1
<1>10. QED
  BY <1>4, <1>6, <1>7, <1>8, <1>9
     DEF Next, RunStep, vars, Replicate, FindPending, Return, Crash, Publish

\* The invariant holds at first and every step preserves it.
THEOREM IInvHolds == Spec => []IInv
<1>1. Init => IInv
  <2> SUFFICES ASSUME Init PROVE IInv
    OBVIOUS
  <2>1. TypeOK
    BY OutboxAssumption DEF Init, TypeOK, Item, Status, Places, NothingSeen
  <2>2. CopiesArePast
    BY OutboxAssumption DEF Init, CopiesArePast, NothingSeen
  <2>3. AttemptsAreJustified
    BY DEF Init, AttemptsAreJustified, Current
  <2>4. RetriesWereTried
    <3>1. \A e \in Events : Inflight(e) = {}
      BY DEF Init, Inflight, Current
    <3>2. \A e \in Events : Cardinality(Inflight(e)) = 0
      BY <3>1, FS_EmptySet
    <3>3. \A e \in Events : table[e].retry = 0 /\ tries[e] = 0
      BY DEF Init
    <3>4. QED
      BY <3>2, <3>3 DEF RetriesWereTried
  <2>5. OvershootIsPaidFor /\ PublishedWasDelivered /\ FailedOnlyWhenExhausted
    BY OutboxAssumption
       DEF Init, OvershootIsPaidFor, PublishedWasDelivered, FailedOnlyWhenExhausted
  <2>6. DeliveriesAreCovered
    <3>1. \A e \in Events : Delivering(e) = {}
      BY DEF Init, Delivering
    <3>2. \A e \in Events : Cardinality(Delivering(e)) = 0
      BY <3>1, FS_EmptySet
    <3>3. QED
      BY <3>2 DEF Init, DeliveriesAreCovered
  <2>7. QED
    BY <2>1, <2>2, <2>3, <2>4, <2>5, <2>6 DEF IInv
<1>2. IInv /\ [Next]_vars => IInv'
  BY TypeStep, CopiesStep, AttemptsStep, TriedStep, OvershootStep, DeliveriesStep,
     VerdictStep DEF IInv
<1>3. QED
  BY <1>1, <1>2, PTL DEF Spec

\* Whatever runs overlap, crash, or read from a lagging index: an event the
\* table calls published was taken by the bus.
THEOREM PublishedDelivered == Spec => []PublishedWasDelivered
<1>1. IInv => PublishedWasDelivered
  BY DEF IInv
<1>2. QED
  BY <1>1, IInvHolds, PTL

\* No event is given up before MaxRetries publish calls were made for it.
THEOREM FailedExhausted == Spec => []FailedOnlyWhenExhausted
<1>1. IInv => FailedOnlyWhenExhausted
  BY DEF IInv
<1>2. QED
  BY <1>1, IInvHolds, PTL

\* With an index that never trails the table, R overlapping runs leave
\* retry_count below MaxRetries + R.
THEOREM OvershootBounded ==
  ASSUME "stale" \notin Faults
  PROVE  Spec => []RetryOvershootBounded
<1>1. IInv => RetryOvershootBounded
  <2> SUFFICES ASSUME IInv, NEW e \in Events
               PROVE  table[e].retry < MaxRetries + Cardinality(Runs)
    BY DEF RetryOvershootBounded
  <2>1. Holders(e) \in SUBSET Runs
    BY DEF Holders
  <2>2. Cardinality(Holders(e)) \in Nat
    BY <2>1, CountedRuns
  <2>3. Cardinality(Runs) \in Nat /\ MaxRetries \in Nat
    BY CountedRuns, OutboxAssumption
  <2>4. table[e].retry \in Nat
    BY DEF IInv, TypeOK, Item
  <2>5. \/ table[e].retry < MaxRetries
        \/ table[e].retry + Cardinality(Holders(e)) < MaxRetries + Cardinality(Runs)
    BY DEF IInv, OvershootIsPaidFor
  <2>6. QED
    BY <2>2, <2>3, <2>4, <2>5
<1>2. QED
  BY <1>1, IInvHolds, PTL

\* Where only the bus refuses, R overlapping runs deliver an event at most R
\* times (process_pending on an up-to-date index, with calls that succeed).
THEOREM DuplicatesAreBounded ==
  ASSUME Faults \subseteq {"bus"}
  PROVE  Spec => []DuplicatesBounded
<1>1. IInv => DuplicatesBounded
  <2> SUFFICES ASSUME IInv, NEW e \in Events
               PROVE  accepted[e] <= Cardinality(Runs)
    BY DEF DuplicatesBounded
  <2>1. Delivering(e) \in SUBSET Runs /\ MayDeliver(e) \in SUBSET Runs
    BY DEF Delivering, MayDeliver
  <2>2. /\ Cardinality(Delivering(e)) \in Nat /\ Cardinality(MayDeliver(e)) \in Nat
        /\ Cardinality(Delivering(e)) <= Cardinality(Runs)
        /\ Cardinality(Runs) \in Nat
    BY <2>1, CountedRuns
  <2>3. accepted[e] \in Nat
    BY OutboxAssumption DEF IInv, TypeOK
  <2>4. \/ accepted[e] <= Cardinality(Delivering(e))
        \/ accepted[e] + Cardinality(MayDeliver(e)) <= Cardinality(Runs)
    BY DEF IInv, DeliveriesAreCovered
  <2>5. QED
    BY <2>2, <2>3, <2>4
<1>2. QED
  BY <1>1, IInvHolds, PTL

-----------------------------------------------------------------------------
(* Refinement. *)

\* A step that leaves the statuses, the counts of attempts and the delivered
\* events alone is a stutter of EventDelivery.
LEMMA Stutters ==
  ASSUME \A f \in Events : table'[f].status = table[f].status,
         UNCHANGED <<tries, accepted>>
  PROVE  UNCHANGED Delivery!deliveryVars
  BY DEF Delivery!deliveryVars

\* A write of a status to the table is that write in EventDelivery.
LEMMA StatusWrite ==
  ASSUME TypeOK, NEW e \in Events, NEW s \in Status, SetStatus(e, s)
  PROVE  [f \in Events |-> table'[f].status]
           = [[f \in Events |-> table[f].status] EXCEPT ![e] = s]
<1>1. \A f \in Events : table'[f].status = IF f = e THEN s ELSE table[f].status
  BY DEF TypeOK, SetStatus, Item
<1>2. QED
  BY <1>1

\* Every step of the outbox is a step of EventDelivery or a stutter.
LEMMA RefinementStep ==
  IInv /\ [Next]_vars => [Delivery!DeliveryNext]_(Delivery!deliveryVars)
<1> SUFFICES ASSUME IInv, [Next]_vars
             PROVE  Delivery!DeliveryNext \/ UNCHANGED Delivery!deliveryVars
  OBVIOUS
<1> USE DEF IInv
<1>1. ASSUME NEW e \in Events, Record(e) PROVE Delivery!DeliveryNext
  <2>1. \A f \in Events : table'[f].status = IF f = e THEN "pending" ELSE table[f].status
    BY <1>1 DEF Record, TypeOK, Item
  <2>2. Delivery!Announce(e)
    BY <1>1, <2>1 DEF Record, Delivery!Announce
  <2>3. QED
    BY <2>2 DEF Delivery!DeliveryNext
<1>2. ASSUME NEW p \in Runs, NEW e \in Events, Publish(p, e) PROVE Delivery!DeliveryNext
  <2>1. table' = table /\ table[e].status # "absent"
    BY <1>2 DEF Publish, Current, CopiesArePast
  <2>2. tries' = [tries EXCEPT ![e] = Delivery!Bump(@)]
    BY <1>2 DEF Publish, Bump, Delivery!Bump
  <2>3. accepted' = accepted \/ accepted' = [accepted EXCEPT ![e] = Bump(@)]
    BY <1>2 DEF Publish, BusTakes
  <2>4. Bump(accepted[e]) > 0
    BY BumpType DEF TypeOK
  <2>5. {f \in Events : accepted'[f] > 0}
          \in {{f \in Events : accepted[f] > 0}, {f \in Events : accepted[f] > 0} \union {e}}
    BY <2>3, <2>4 DEF TypeOK
  <2>6. Delivery!Try(e)
    BY <2>1, <2>2, <2>5 DEF Delivery!Try
  <2>7. QED
    BY <2>6 DEF Delivery!DeliveryNext
<1>3. ASSUME NEW p \in Runs, NEW e \in Events, pc[p] = "mark", Current(p, e),
             SetStatus(e, "published"), UNCHANGED <<tries, accepted>>
      PROVE Delivery!DeliveryNext
  <2>1. accepted[e] > 0
    BY <1>3 DEF AttemptsAreJustified
  <2>2. Delivery!Confirm(e)
    BY <1>3, <2>1, StatusWrite DEF Delivery!Confirm, Status
  <2>3. QED
    BY <2>2 DEF Delivery!DeliveryNext
<1>4. ASSUME NEW p \in Runs, NEW e \in Events, Current(p, e), Exhausted(p, e),
             SetStatus(e, "failed"), UNCHANGED <<tries, accepted>>
      PROVE Delivery!DeliveryNext
  <2>1. table[e].status # "absent"
    BY <1>4 DEF Current, CopiesArePast
  <2>2. tries[e] >= MaxRetries
    BY <1>4, GivenUpWasTried
  <2>3. Delivery!Abandon(e)
    BY <1>4, <2>1, <2>2, StatusWrite DEF Delivery!Abandon, Status
  <2>4. QED
    BY <2>3 DEF Delivery!DeliveryNext
<1>5. ASSUME NEW e \in Events, AddRetry(e)
      PROVE \A f \in Events : table'[f].status = table[f].status
  BY <1>5 DEF AddRetry, TypeOK, Item
<1>6. ASSUME NEW p \in Runs, NEW e \in Events, RunStep(p, e)
      PROVE Delivery!DeliveryNext \/ UNCHANGED Delivery!deliveryVars
  BY <1>2, <1>3, <1>4, <1>5, <1>6, Stutters
     DEF RunStep, MarkFailed, MarkFailedRaises, MarkPublished, MarkPublishedRaises,
         IncrementRetry, IncrementRetryRaises
<1>7. QED
  BY <1>1, <1>6, Stutters
     DEF Next, vars, Replicate, FindPending, Return, Crash

\* The outbox and its runs implement the safety of EventDelivery, whatever the
\* runs, the faults, the batch size and the number of retries.
THEOREM OutboxImplementsDelivery == Spec => ImplementsDelivery
<1>1. Init => Delivery!DeliveryInit
  BY DEF Init, Delivery!DeliveryInit
<1>2. QED
  BY <1>1, IInvHolds, RefinementStep, PTL DEF Spec, ImplementsDelivery, Delivery!DeliverySafety
=============================================================================
