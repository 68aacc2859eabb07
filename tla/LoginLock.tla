------------------------------ MODULE LoginLock ------------------------------
(***************************************************************************)
(* What the lock of an account promises, without items, copies, requests   *)
(* or the other operations of the account: passwords are tried only while  *)
(* no lock runs, failures are counted until a login, and each one from the *)
(* MaxAttempts-th on locks the account for LockPeriod from its own time.   *)
(***************************************************************************)
EXTENDS Naturals

CONSTANTS MaxAttempts,   \* failures in a row that lock the account
          LockPeriod     \* how long each of them locks it

VARIABLES failures,   \* wrong passwords tried since the last login
          until,      \* when the lock ends, 0 if there is none
          clock       \* the time

lockVars == <<failures, until, clock>>

LockInit ==
  /\ failures = 0
  /\ until = 0
  /\ clock = 1

Fail ==
  /\ until <= clock
  /\ failures' = failures + 1
  /\ until' = IF failures' >= MaxAttempts THEN clock + LockPeriod ELSE until
  /\ UNCHANGED clock

Succeed ==
  /\ until <= clock
  /\ failures' = 0
  /\ until' = 0
  /\ UNCHANGED clock

Pass ==
  /\ clock' = clock + 1
  /\ UNCHANGED <<failures, until>>

LockNext == Fail \/ Succeed \/ Pass

LockSafety == LockInit /\ [][LockNext]_lockVars
=============================================================================
