--------------------------- MODULE EventDelivery ---------------------------
(***************************************************************************)
(* What the transactional outbox promises to the rest of the platform,     *)
(* without processor runs, batches, indexes or retry counters: a recorded  *)
(* event is handed to the bus any number of times, is reported published   *)
(* only after the bus took it, and is given up only after MaxRetries       *)
(* attempts.                                                               *)
(***************************************************************************)
EXTENDS Naturals

CONSTANTS Events,       \* the events the service may record
          MaxRetries,   \* attempts made before an event may be given up
          RetryCap      \* where the model's counters stop counting

VARIABLES status,     \* "absent", "pending", "published" or "failed"
          tries,      \* publish calls made for the event, up to RetryCap
          delivered   \* the events the bus has taken at least once

deliveryVars == <<status, tries, delivered>>

\* Counters saturate: the code only ever compares them with MaxRetries.
Bump(n) == IF n < RetryCap THEN n + 1 ELSE n

DeliveryInit ==
  /\ status = [e \in Events |-> "absent"]
  /\ tries = [e \in Events |-> 0]
  /\ delivered = {}

Announce(e) ==
  /\ status[e] = "absent"
  /\ status' = [status EXCEPT ![e] = "pending"]
  /\ UNCHANGED <<tries, delivered>>

\* An attempt may come late: a run that read the event while it was pending
\* may still be about to publish it after another run settled it.
Try(e) ==
  /\ status[e] # "absent"
  /\ tries' = [tries EXCEPT ![e] = Bump(@)]
  /\ delivered' \in {delivered, delivered \union {e}}
  /\ UNCHANGED status

Confirm(e) ==
  /\ e \in delivered
  /\ status' = [status EXCEPT ![e] = "published"]
  /\ UNCHANGED <<tries, delivered>>

Abandon(e) ==
  /\ tries[e] >= MaxRetries
  /\ status[e] # "absent"
  /\ status' = [status EXCEPT ![e] = "failed"]
  /\ UNCHANGED <<tries, delivered>>

DeliveryNext == \E e \in Events : Announce(e) \/ Try(e) \/ Confirm(e) \/ Abandon(e)

DeliverySafety == DeliveryInit /\ [][DeliveryNext]_deliveryVars
=============================================================================
