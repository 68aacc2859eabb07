------------------------------ MODULE MCOutbox ------------------------------
(* Small instances of Outbox. *)
EXTENDS Outbox

OneEvent == {1}
TwoEvents == {1, 2}
BusFaults == {"bus"}
AllFaults == FaultKinds
=============================================================================
