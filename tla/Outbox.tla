------------------------------- MODULE Outbox -------------------------------
(***************************************************************************)
(* The outbox table and the Lambda runs that drain it to EventBridge       *)
(* (application/services/outbox_processor.py, main_outbox.py and           *)
(* infrastructure/persistence/dynamodb_outbox_repository.py).  A run reads *)
(* a batch of pending events once, from an index that may lag the table,   *)
(* then works through its own copy: runs overlap, and every call to the    *)
(* store or to the bus is a step in which others may act, or which fails.  *)
(* An event is named by its place in created_at order.                     *)
(***************************************************************************)
EXTENDS Integers, FiniteSets

CONSTANTS Events,       \* a finite set of naturals, in created_at order
          Runs,         \* processor invocations that may overlap
          MaxRetries,   \* _MAX_RETRIES
          BatchSize,    \* the limit given to find_pending
          RetryCap,     \* where the model's counters stop counting
          Faults        \* which failures the environment may produce

FaultKinds == {"bus",      \* publish raises and the bus has not taken the event
               "answer",   \* publish raises although the bus took the event
               "store",    \* a DynamoDB call raises, applied or not
               "crash",    \* the Lambda times out or dies
               "stale"}    \* StatusIndex trails the table

ASSUME OutboxAssumption ==
  /\ Events \subseteq Nat
  /\ IsFiniteSet(Runs)
  /\ MaxRetries \in Nat \ {0} /\ RetryCap \in Nat /\ MaxRetries <= RetryCap
  /\ BatchSize \in Nat \ {0}
  /\ Faults \subseteq FaultKinds

VARIABLES table,     \* the outbox items
          index,     \* the images StatusIndex holds of them
          pc,        \* where each run is
          todo,      \* the events of its batch a run has not finished
          seen,      \* retry_count as find_pending returned it to the run
          tries,     \* publish calls made for the event (history)
          accepted   \* times the bus took the event (history)

runVars == <<pc, todo, seen>>
vars == <<table, index, runVars, tries, accepted>>

Status == {"absent", "pending", "published", "failed"}
Item == [status : Status, retry : 0..RetryCap]
Places == {"idle", "work", "mark", "retry", "done"}

\* Saturating increment of a counter the code only compares with MaxRetries.
Bump(n) == IF n < RetryCap THEN n + 1 ELSE n

NothingSeen == [e \in Events |-> 0]

Init ==
  /\ table = [e \in Events |-> [status |-> "absent", retry |-> 0]]
  /\ index = table
  /\ pc = [p \in Runs |-> "idle"]
  /\ todo = [p \in Runs |-> {}]
  /\ seen = [p \in Runs |-> NothingSeen]
  /\ tries = [e \in Events |-> 0]
  /\ accepted = [e \in Events |-> 0]

-----------------------------------------------------------------------------
(* The table and its index. *)

SetStatus(e, s) == table' = [table EXCEPT ![e].status = s]

\* save / save_operation: only an absent key is written, as pending with
\* retry_count 0, whatever the entity said.
Record(e) ==
  /\ table[e].status = "absent"
  /\ table' = [table EXCEPT ![e] = [status |-> "pending", retry |-> 0]]
  /\ UNCHANGED <<index, runVars, tries, accepted>>

Replicate(e) ==
  /\ "stale" \in Faults
  /\ index[e] # table[e]
  /\ index' = [index EXCEPT ![e] = table[e]]
  /\ UNCHANGED <<table, runVars, tries, accepted>>

-----------------------------------------------------------------------------
(* One run of process_pending. *)

View == IF "stale" \in Faults THEN index ELSE table
PendingInView == {e \in Events : View[e].status = "pending"}

\* The first BatchSize pending events in created_at order.
IsBatch(S) ==
  /\ \A e \in S, f \in PendingInView \ S : e <= f
  /\ IF Cardinality(PendingInView) <= BatchSize
       THEN S = PendingInView
       ELSE Cardinality(S) = BatchSize

\* An empty batch ends the run at once and changes nothing.
FindPending(p) ==
  /\ pc[p] = "idle"
  /\ PendingInView # {}
  /\ \E S \in SUBSET PendingInView :
       /\ IsBatch(S)
       /\ todo' = [todo EXCEPT ![p] = S]
       /\ seen' = [seen EXCEPT ![p] =
                     [e \in Events |-> IF e \in S THEN View[e].retry ELSE 0]]
  /\ pc' = [pc EXCEPT ![p] = "work"]
  /\ UNCHANGED <<table, index, tries, accepted>>

\* The event the loop of run p is at.
Current(p, e) == e \in todo[p] /\ \A f \in todo[p] : e <= f

\* The loop moves on to the next event, or ends.
Leave(p, e) ==
  /\ todo' = [todo EXCEPT ![p] = @ \ {e}]
  /\ seen' = [seen EXCEPT ![p][e] = 0]
  /\ pc' = [pc EXCEPT ![p] = IF todo[p] = {e} THEN "done" ELSE "work"]

\* An exception nobody catches ends the run: the rest of the batch is dropped.
Abort(p) ==
  /\ pc' = [pc EXCEPT ![p] = "idle"]
  /\ todo' = [todo EXCEPT ![p] = {}]
  /\ seen' = [seen EXCEPT ![p] = NothingSeen]

\* Mutants: one retry too few, one too many.
ExhaustedEarly(p, e) == seen[p][e] >= MaxRetries - 1
ExhaustedLate(p, e) == seen[p][e] > MaxRetries

Exhausted(p, e) == seen[p][e] >= MaxRetries

\* Mutant: the loop skips an exhausted event without marking it.
MarkFailedSkips(p, e) ==
  /\ pc[p] = "work" /\ Current(p, e) /\ Exhausted(p, e)
  /\ Leave(p, e)
  /\ UNCHANGED <<table, index, tries, accepted>>

MarkFailed(p, e) ==
  /\ pc[p] = "work" /\ Current(p, e) /\ Exhausted(p, e)
  /\ SetStatus(e, "failed")
  /\ Leave(p, e)
  /\ UNCHANGED <<index, tries, accepted>>

\* mark_failed is called outside the try block.
MarkFailedRaises(p, e) ==
  /\ "store" \in Faults
  /\ pc[p] = "work" /\ Current(p, e) /\ Exhausted(p, e)
  /\ SetStatus(e, "failed") \/ UNCHANGED table
  /\ Abort(p)
  /\ UNCHANGED <<index, tries, accepted>>

BusTakes(e) == accepted' = [accepted EXCEPT ![e] = Bump(@)]

\* Mutant: the publisher logs a failure and returns.
PublishSwallows(p, e) ==
  /\ pc[p] = "work" /\ Current(p, e) /\ ~Exhausted(p, e)
  /\ tries' = [tries EXCEPT ![e] = Bump(@)]
  /\ BusTakes(e) \/ UNCHANGED accepted
  /\ pc' = [pc EXCEPT ![p] = "mark"]
  /\ UNCHANGED <<table, index, todo, seen>>

\* publish, inside the try.  json.loads(payload) stands there too, but the payload
\* is what json.dumps wrote and does not raise.
Publish(p, e) ==
  /\ pc[p] = "work" /\ Current(p, e) /\ ~Exhausted(p, e)
  /\ tries' = [tries EXCEPT ![e] = Bump(@)]
  /\ \/ /\ BusTakes(e)
        /\ pc' = [pc EXCEPT ![p] = "mark"]
     \/ /\ "bus" \in Faults
        /\ pc' = [pc EXCEPT ![p] = "retry"]
        /\ UNCHANGED accepted
     \/ /\ "answer" \in Faults
        /\ BusTakes(e)
        /\ pc' = [pc EXCEPT ![p] = "retry"]
  /\ UNCHANGED <<table, index, todo, seen>>

\* Mutant: a published event is left pending.
MarkPublishedForgets(p, e) ==
  /\ pc[p] = "mark" /\ Current(p, e)
  /\ Leave(p, e)
  /\ UNCHANGED <<table, index, tries, accepted>>

\* mark_published overwrites whatever status the item has by now.
MarkPublished(p, e) ==
  /\ pc[p] = "mark" /\ Current(p, e)
  /\ SetStatus(e, "published")
  /\ Leave(p, e)
  /\ UNCHANGED <<index, tries, accepted>>

\* The same except clause catches a failed publish and a failed mark_published.
MarkPublishedRaises(p, e) ==
  /\ "store" \in Faults
  /\ pc[p] = "mark" /\ Current(p, e)
  /\ SetStatus(e, "published") \/ UNCHANGED table
  /\ pc' = [pc EXCEPT ![p] = "retry"]
  /\ UNCHANGED <<index, todo, seen, tries, accepted>>

\* Mutant: the sign of the ADD is wrong.
AddRetryNegative(e) == table' = [table EXCEPT ![e].retry = @ - 1]

AddRetry(e) == table' = [table EXCEPT ![e].retry = Bump(@)]

\* Mutant: the run's copy of the item is put back with one retry more.
IncrementRetryPuts(p, e) ==
  /\ pc[p] = "retry" /\ Current(p, e)
  /\ table' = [table EXCEPT ![e] = [status |-> "pending", retry |-> Bump(seen[p][e])]]
  /\ Leave(p, e)
  /\ UNCHANGED <<index, tries, accepted>>

IncrementRetry(p, e) ==
  /\ pc[p] = "retry" /\ Current(p, e)
  /\ AddRetry(e)
  /\ Leave(p, e)
  /\ UNCHANGED <<index, tries, accepted>>

\* increment_retry is called inside the except clause: its exception escapes.
IncrementRetryRaises(p, e) ==
  /\ "store" \in Faults
  /\ pc[p] = "retry" /\ Current(p, e)
  /\ AddRetry(e) \/ UNCHANGED table
  /\ Abort(p)
  /\ UNCHANGED <<index, tries, accepted>>

\* The handler returns the number of events the run marked.
Return(p) ==
  /\ pc[p] = "done"
  /\ Abort(p)
  /\ UNCHANGED <<table, index, tries, accepted>>

Crash(p) ==
  /\ "crash" \in Faults
  /\ pc[p] # "idle"
  /\ Abort(p)
  /\ UNCHANGED <<table, index, tries, accepted>>

RunStep(p, e) ==
  \/ MarkFailed(p, e) \/ MarkFailedRaises(p, e)
  \/ Publish(p, e)
  \/ MarkPublished(p, e) \/ MarkPublishedRaises(p, e)
  \/ IncrementRetry(p, e) \/ IncrementRetryRaises(p, e)

Next ==
  \/ \E e \in Events : Record(e) \/ Replicate(e)
  \/ \E p \in Runs : FindPending(p) \/ Return(p) \/ Crash(p)
  \/ \E p \in Runs, e \in Events : RunStep(p, e)

Spec == Init /\ [][Next]_vars

\* The scheduler starts a run every minute and the index catches up; no call
\* to the store or the bus is answered with a failure for ever, and the runs
\* are not all cut short before they reach it.
Fairness ==
  /\ \A e \in Events : WF_vars(Replicate(e))
  /\ \A p \in Runs : SF_vars(FindPending(p)) /\ WF_vars(Return(p))
  /\ \A p \in Runs, e \in Events :
       /\ SF_vars(MarkFailed(p, e)) /\ SF_vars(Publish(p, e))
       /\ SF_vars(MarkPublished(p, e)) /\ SF_vars(IncrementRetry(p, e))

FairSpec == Spec /\ Fairness

-----------------------------------------------------------------------------
(* Properties. *)

\* Every variable has its type; a run between batches holds nothing.
TypeOK ==
  /\ table \in [Events -> Item]
  /\ index \in [Events -> Item]
  /\ pc \in [Runs -> Places]
  /\ todo \in [Runs -> SUBSET Events]
  /\ seen \in [Runs -> [Events -> 0..RetryCap]]
  /\ tries \in [Events -> 0..RetryCap]
  /\ accepted \in [Events -> 0..RetryCap]

\* An event the table calls published was taken by the bus, whichever runs
\* overlapped, crashed or read stale images on the way (process_pending calls
\* mark_published only after publish returned).
PublishedWasDelivered ==
  \A e \in Events : table[e].status = "published" => accepted[e] > 0

\* An event is given up only after MaxRetries publish calls were made for it:
\* neither overlapping runs counting the same failure, nor an increment applied
\* by a call that raised, bring the counter ahead of the attempts.
FailedOnlyWhenExhausted ==
  \A e \in Events : table[e].status = "failed" => tries[e] >= MaxRetries

\* With an up-to-date index, runs that read the event before it was exhausted
\* may push retry_count past MaxRetries, but at most by one each.
RetryOvershootBounded ==
  \A e \in Events : table[e].retry < MaxRetries + Cardinality(Runs)

\* Where only the bus refuses, on an up-to-date index, each run delivers an
\* event at most once, a run alone never twice: duplicates come from overlap.
DuplicatesBounded == \A e \in Events : accepted[e] <= Cardinality(Runs)

\* Every event that is recorded ends up published or failed, even when other
\* events ahead of it in the batch keep failing or abort the run.
EventuallySettled ==
  \A e \in Events :
    (table[e].status = "pending") ~> (table[e].status \in {"published", "failed"})

-----------------------------------------------------------------------------
(* The strengthening that makes the two verdicts inductive. *)

\* Runs with a publish call behind them that the retry counter may still count.
Inflight(e) == {p \in Runs : pc[p] \in {"mark", "retry"} /\ Current(p, e)}

\* Runs that read the event while it was worth another attempt.
Holders(e) == {p \in Runs : e \in todo[p] /\ seen[p][e] < MaxRetries}

\* Copies of an item, in the index or in a run, are past states of the item.
CopiesArePast ==
  \A e \in Events :
    /\ table[e].status = "absent" => table[e].retry = 0
    /\ index[e].status # "absent" => table[e].status # "absent"
    /\ index[e].retry <= table[e].retry
    /\ \A p \in Runs : /\ seen[p][e] <= table[e].retry
                       /\ e \in todo[p] => table[e].status # "absent"

\* A run past its publish call is at an event that was not exhausted in its
\* copy and, if the call returned, that the bus took.
AttemptsAreJustified ==
  \A p \in Runs, e \in Events :
    Current(p, e) => /\ pc[p] = "mark" => accepted[e] > 0
                     /\ pc[p] \in {"mark", "retry"} => seen[p][e] < MaxRetries

\* Each count in retry_count, and each one about to be added, has a publish
\* call of its own (or the model stopped counting calls).
RetriesWereTried ==
  \A e \in Events :
    \/ tries[e] = RetryCap
    \/ table[e].retry + Cardinality(Inflight(e)) <= tries[e]

\* Only the runs that read the event in time can push the counter further.
OvershootIsPaidFor ==
  "stale" \notin Faults =>
    \A e \in Events :
      \/ table[e].retry < MaxRetries
      \/ table[e].retry + Cardinality(Holders(e)) < MaxRetries + Cardinality(Runs)

\* Runs the bus has answered for the event, and runs that may yet deliver it.
Delivering(e) == {p \in Runs : pc[p] = "mark" /\ Current(p, e)}
MayDeliver(e) == {p \in Runs : e \in todo[p]} \ Delivering(e)

\* Until the event is settled each delivery has its run still at work on it;
\* after that no run takes it up again, and each that holds it delivers it once.
DeliveriesAreCovered ==
  Faults \subseteq {"bus"} =>
    \A e \in Events :
      IF table[e].status \in {"absent", "pending"}
        THEN accepted[e] <= Cardinality(Delivering(e))
        ELSE accepted[e] + Cardinality(MayDeliver(e)) <= Cardinality(Runs)

IInv ==
  /\ TypeOK
  /\ CopiesArePast
  /\ AttemptsAreJustified
  /\ RetriesWereTried
  /\ OvershootIsPaidFor
  /\ DeliveriesAreCovered
  /\ PublishedWasDelivered
  /\ FailedOnlyWhenExhausted

Delivery == INSTANCE EventDelivery WITH
  status <- [e \in Events |-> table[e].status],
  delivered <- {e \in Events : accepted[e] > 0}

\* The runs, their batches, the lagging index and the retry counter implement
\* EventDelivery: at-least-once delivery, and no verdict without a cause.
ImplementsDelivery == Delivery!DeliverySafety
=============================================================================
